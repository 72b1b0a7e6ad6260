------------------------- MODULE WorkerPool_proofs -------------------------
(***************************************************************************)
(* Proofs about the worker pool, for any workers, any workloads, any       *)
(* arrivals and a clock that outside code moves.                           *)
(***************************************************************************)
EXTENDS WorkerPool, DataLemmas

Queued == [arrival_order : Nat, payment_id : PaymentIds, queued_at : Nat]
Served == [arrival_order : Nat, payment_id : PaymentIds, queued_at : Nat,
           processing_started_at : Nat]
Done == [arrival_order : Nat, payment_id : PaymentIds, queued_at : Nat,
         processing_started_at : Nat, completed_at : Nat]

SchedInv == /\ Sched!TypeOK
            /\ \A e \in queue : e.order < nextOrder
            /\ IsFiniteSet(queue) /\ IsFiniteSet(lost)

PoolType ==
  /\ workload \in Workloads
  /\ \E n \in WorkerCounts : workers = 1..n
  /\ DOMAIN current \subseteq workers /\ current \in [DOMAIN current -> Served]
  /\ busyTime \in [workers -> Nat]
  /\ waiting \in Seq(Queued)
  /\ completed \in Seq(Done)
  /\ nextArrival \in Nat
  /\ depthArea \in Nat /\ depthChanged \in Nat
  /\ posted \in Seq(PaymentIds)

\* The type invariant of the pool and its scheduler.
TypeOK == SchedInv /\ PoolType

-----------------------------------------------------------------------------
(***************************************************************************)
(* The inductive invariant.                                                *)
(***************************************************************************)
\* How many payments have been taken by a worker.
Left == nextArrival - Len(waiting)

\* The waiting payments are the last that arrived, in their order, and none
\* waits beside an idle worker.
LineInOrder ==
  /\ Left \in Nat
  /\ \A i \in DOMAIN waiting : waiting[i].arrival_order = Left + i - 1
  /\ waiting # <<>> => DOMAIN current = workers

\* Those before them are each completed, in their order, or with one worker.
TakenInOrder ==
  /\ \A i \in DOMAIN completed : completed[i].arrival_order < Left
  /\ \A w \in DOMAIN current : current[w].arrival_order < Left
  /\ \A o \in 0..(Left - 1) :
       \/ \E i \in DOMAIN completed : completed[i].arrival_order = o
       \/ \E w \in DOMAIN current : current[w].arrival_order = o
  /\ \A v, w \in DOMAIN current :
       current[v].arrival_order = current[w].arrival_order => v = w
  /\ \A i \in DOMAIN completed, w \in DOMAIN current :
       completed[i].arrival_order # current[w].arrival_order
  /\ \A i, j \in DOMAIN completed :
       i < j => completed[i].arrival_order < completed[j].arrival_order
  /\ Len(completed) + Cardinality(DOMAIN current) = Left

\* The completions of w that were lost.
Gone(w) == {l \in lost : l.event.callback = <<"complete", w>>}

\* A busy worker has one completion, queued or lost; an idle one has none.
OneEnd ==
  /\ \A w \in workers :
       /\ \A e, f \in Due(w) : e = f
       /\ \A l, m \in Gone(w) : l = m
       /\ Due(w) = {} \/ Gone(w) = {}
       /\ w \in DOMAIN current <=> Due(w) # {} \/ Gone(w) # {}
       /\ \A e \in Due(w) : e.time = current[w].processing_started_at + ProcessingTime
  /\ \A e \in queue : e.callback[1] = "complete" => e.callback[2] \in workers

\* Completions leave the heap in the order of the payments' arrival.
DueInOrder ==
  /\ \A v, w \in DOMAIN current : \A e \in Due(v), f \in Due(w) :
       current[v].arrival_order < current[w].arrival_order => Sched!Before(e, f)
  /\ \A v, w \in DOMAIN current :
       Due(v) = {} /\ Due(w) # {} =>
         current[v].arrival_order < current[w].arrival_order
  /\ \A i \in DOMAIN completed, w \in DOMAIN current :
       Due(w) # {} => completed[i].arrival_order < current[w].arrival_order

\* What completed is posted, each identifier once, and only a payment whose
\* identifier is posted has raised.
PostedOnce ==
  /\ posted = [i \in DOMAIN completed |-> completed[i].payment_id]
  /\ \A i, j \in DOMAIN completed :
       completed[i].payment_id = completed[j].payment_id => i = j
  /\ \A w \in DOMAIN current : \A l \in Gone(w) :
       l.cause = "raised" =>
         \E i \in DOMAIN completed :
           /\ completed[i].payment_id = current[w].payment_id
           /\ completed[i].arrival_order < current[w].arrival_order

\* Nothing lies in the future of the clock, and as long as the clock was not moved
\* by hand nothing is overdue.
OnTime ==
  /\ jumped <= clock
  /\ jumped = 0 => /\ \A e \in queue : e.time >= clock
                   /\ \A l \in lost : l.cause = "raised"
  /\ depthChanged <= clock
  /\ \A i \in DOMAIN waiting : waiting[i].queued_at <= depthChanged
  /\ \A w \in DOMAIN current : current[w].processing_started_at <= clock
  /\ \A i \in DOMAIN completed :
       /\ completed[i].completed_at
            = completed[i].processing_started_at + ProcessingTime
       /\ completed[i].completed_at <= clock

Inv == /\ SchedInv
       /\ PoolType
       /\ LineInOrder
       /\ TakenInOrder
       /\ OneEnd
       /\ DueInOrder
       /\ PostedOnce
       /\ OnTime
-----------------------------------------------------------------------------
(***************************************************************************)
(* _dispatch.                                                              *)
(***************************************************************************)
\* What the types give.
LEMMA Parts ==
  ASSUME PoolType
  PROVE  /\ DOMAIN waiting = 1..Len(waiting) /\ DOMAIN completed = 1..Len(completed)
         /\ Len(waiting) \in Nat /\ Len(completed) \in Nat
         /\ \A i \in DOMAIN waiting : waiting[i] \in Queued
         /\ \A i \in DOMAIN completed : completed[i] \in Done
         /\ \A w \in DOMAIN current : current[w] \in Served /\ w \in workers
         /\ nextArrival \in Nat
  <1>1. /\ DOMAIN waiting = 1..Len(waiting) /\ DOMAIN completed = 1..Len(completed)
        /\ Len(waiting) \in Nat /\ Len(completed) \in Nat
    BY LenProperties DEF PoolType
  <1> QED BY <1>1, ElementOfSeq DEF PoolType

\* The workers are the numbers up to how many there are.
LEMMA Workers ==
  ASSUME PoolType
  PROVE  /\ workers \subseteq Nat /\ workers # {} /\ IsFiniteSet(workers)
         /\ Cardinality(workers) \in Nat \ {0} /\ workers = 1..Cardinality(workers)
  <1>1. PICK n \in WorkerCounts : workers = 1..n
    BY DEF PoolType
  <1>2. n \in Nat /\ n # 0
    BY PoolInputs
  <1>3. IsFiniteSet(1..n) /\ Cardinality(1..n) = n
    BY <1>2, FS_Interval
  <1> QED BY <1>1, <1>2, <1>3

\* A queued payment with its start, as a busy worker holds it.
Taken(p, now) == [arrival_order |-> p.arrival_order, payment_id |-> p.payment_id,
                  queued_at |-> p.queued_at, processing_started_at |-> now]

\* Nothing is taken from an empty line, or beside busy workers only.
LEMMA NoneTaken ==
  ASSUME PoolType, NEW line, line \in Seq(Queued), NEW serving,
         line = <<>> \/ DOMAIN serving = workers
  PROVE  Takers(line, serving) = {}
  <1>1. CASE DOMAIN serving = workers
    BY <1>1 DEF Takers
  <1>2. CASE line = <<>>
    <2>1. Len(line) = 0
      BY <1>2
    <2>2. ASSUME NEW w \in workers \ DOMAIN serving, Rank(w, serving) <= 0 PROVE FALSE
      <3> DEFINE S == {v \in workers \ DOMAIN serving : v <= w}
      <3>1. IsFiniteSet(S)
        BY Workers, FS_Subset
      <3>2. w \in S
        BY Workers
      <3>3. Cardinality(S) \in Nat /\ Cardinality(S) # 0
        BY <3>1, <3>2, FS_CardinalityType, FS_EmptySet
      <3> QED BY <2>2, <3>3 DEF Rank
    <2> QED BY <2>1, <2>2 DEF Takers
  <1> QED BY <1>1, <1>2

\* One payment is taken by the one idle worker, or a lone payment by the first
\* of the idle ones.
LEMMA OneTaken ==
  ASSUME PoolType, NEW line, line \in Seq(Queued), NEW serving, line # <<>>,
         workers \ DOMAIN serving # {},
         Len(line) = 1 \/ \A v, w \in workers \ DOMAIN serving : v = w
  PROVE  \E w \in workers \ DOMAIN serving :
           Takers(line, serving) = {w} /\ Rank(w, serving) = 1
  <1> DEFINE Idle == workers \ DOMAIN serving
             Upto(w) == {v \in Idle : v <= w}
  <1>0. Idle \subseteq Nat /\ Idle # {} /\ IsFiniteSet(Idle) /\ Len(line) \in Nat \ {0}
    BY Workers, FS_Subset, LenProperties, EmptySeq
  <1>1. PICK w \in Idle : \A v \in Idle : w <= v
    BY <1>0, LeastNatural
  <1>2. Upto(w) = {w}
    BY <1>0, <1>1
  <1>3. Rank(w, serving) = 1
    BY <1>2, FS_Singleton DEF Rank
  <1>4. ASSUME NEW v \in Takers(line, serving), v # w PROVE FALSE
    <2>1. v \in Idle /\ Rank(v, serving) <= Len(line) /\ Rank(v, serving) = Cardinality(Upto(v))
      BY DEF Takers, Rank
    <2>2. Len(line) = 1
      BY <1>4, <2>1
    <2>3. v \in Upto(v) /\ w \in Upto(v)
      BY <1>0, <1>1, <2>1
    <2>4. IsFiniteSet(Upto(v))
      BY <1>0, FS_Subset
    <2> HIDE DEF Upto
    <2>5. v = w
      <3>1. Cardinality(Upto(v)) <= 1
        BY <2>1, <2>2
      <3> QED BY <2>3, <2>4, <3>1, AtMostOne
    <2> QED BY <1>4, <2>5
  <1>5. w \in Takers(line, serving)
    BY <1>0, <1>3 DEF Takers
  <1>6. Takers(line, serving) = {w}
    BY <1>4, <1>5
  <1> QED BY <1>3, <1>6

\* What _dispatch does when nothing is taken.
LEMMA DispatchNone ==
  ASSUME NEW line, line \in Seq(Queued), NEW serving, NEW now,
         serving = [v \in DOMAIN serving |-> serving[v]],
         Takers(line, serving) = {}
  PROVE  /\ Completions(line, serving, now) = <<>>
         /\ Dispatch(line, serving, now) => current' = serving /\ waiting' = line
  <1>1. Cardinality({}) = 0
    BY FS_EmptySet
  <1>2. Completions(line, serving, now) = <<>>
    BY <1>1 DEF Completions
  <1>3. Serving(line, serving, now) = serving
    BY DEF Serving
  <1>4. SubSeq(line, 1, Len(line)) = line
    <2> DEFINE s == SubSeq(line, 1, Len(line))
    <2>0. Len(line) \in Nat /\ \A i \in 1..Len(line) : line[i] \in Queued
      BY LenProperties, ElementOfSeq
    <2>1. /\ s \in Seq(Queued)
          /\ Len(s) = IF 1 <= Len(line) THEN Len(line) - 1 + 1 ELSE 0
          /\ \A i \in 1..(Len(line) - 1 + 1) : s[i] = line[1 + i - 1]
      BY <2>0, SubSeqProperties
    <2>2. Len(s) = Len(line) /\ \A i \in 1..Len(line) : s[i] = line[i]
      BY <2>0, <2>1
    <2> HIDE DEF s
    <2>3. s = line
      BY <2>1, <2>2, SeqEqual
    <2> QED BY <2>3 DEF s
  <1>5. Cardinality(Takers(line, serving)) + 1 = 1
    BY <1>1
  <1> QED BY <1>2, <1>3, <1>4, <1>5 DEF Dispatch

\* What it does when one payment is.
OneStarts(line, serving, now, w) ==
  /\ Completions(line, serving, now)
       = <<[time |-> now + ProcessingTime, callback |-> <<"complete", w>>]>>
  /\ current' = [v \in DOMAIN serving \cup {w} |->
                   IF v \in DOMAIN serving THEN serving[v] ELSE Taken(line[1], now)]
  /\ waiting' = SubSeq(line, 2, Len(line))

LEMMA DispatchOne ==
  ASSUME NEW line, NEW serving, NEW now, NEW w, Dispatch(line, serving, now),
         Takers(line, serving) = {w}, Rank(w, serving) = 1, w \notin DOMAIN serving
  PROVE  OneStarts(line, serving, now, w)
  <1>1. Cardinality({w}) = 1
    BY FS_Singleton
  <1>2. (CHOOSE v \in {w} : Rank(v, serving) = 1) = w
    OBVIOUS
  <1>3. Completions(line, serving, now)
          = <<[time |-> now + ProcessingTime, callback |-> <<"complete", w>>]>>
    <2>1. \A i \in 1..1 : i = 1
      OBVIOUS
    <2>2. Completions(line, serving, now)
            = [i \in 1..1 |-> [time |-> now + ProcessingTime,
                               callback |-> <<"complete", w>>]]
      BY <1>1, <1>2, <2>1 DEF Completions
    <2> QED BY <2>2
  <1>4. current' = [v \in DOMAIN serving \cup {w} |->
                      IF v \in DOMAIN serving THEN serving[v]
                      ELSE Taken(line[1], now)]
    <2>1. current' = Serving(line, serving, now)
      BY DEF Dispatch
    <2>2. \A v \in DOMAIN serving \cup {w} : v \notin DOMAIN serving => Rank(v, serving) = 1
      OBVIOUS
    <2> QED BY <2>1, <2>2 DEF Serving, Taken
  <1>5. waiting' = SubSeq(line, 2, Len(line))
    <2>1. Cardinality(Takers(line, serving)) + 1 = 2
      BY <1>1
    <2> QED BY <2>1 DEF Dispatch
  <1> QED BY <1>3, <1>4, <1>5 DEF OneStarts
-----------------------------------------------------------------------------
(***************************************************************************)
(* The scheduler.                                                          *)
(***************************************************************************)
\* The completion that a worker schedules at time now.
DueAt(w, now) == [time |-> now + ProcessingTime, order |-> nextOrder,
                  callback |-> <<"complete", w>>]

\* The scheduler's part of a step at time now: the events gone leave the heap and
\* the events fresh come.
SchedStep(now, gone, fresh) ==
  /\ now \in Nat /\ clock' = now /\ clock <= now /\ jumped' = jumped
  /\ now = clock \/ \A f \in queue : now <= f.time
  /\ \A g : g \in queue' <=> \/ g \in queue /\ g \notin gone
                             \/ g \in fresh

\* What the scheduler's state is made of.
LEMMA Schedule ==
  ASSUME SchedInv
  PROVE  /\ clock \in Nat /\ nextOrder \in Nat /\ jumped \in Nat
         /\ queue \subseteq Sched!Event
         /\ \A e \in queue : /\ e.time \in Nat /\ e.order \in Nat /\ e.order < nextOrder
                             /\ e.callback \in Callback
         /\ \A l \in lost : /\ l.event \in Sched!Event
                            /\ l.cause = "raised" \/ l.cause = "overdue"
  BY DEF SchedInv, Sched!TypeOK, Sched!Event, Sched!Cause

\* The two kinds of callback.
LEMMA Kinds ==
  ASSUME SchedInv, NEW e \in queue
  PROVE  \/ /\ e.callback[1] = "arrive" /\ e.callback[2] \in PaymentIds
            /\ e.callback = <<"arrive", e.callback[2]>>
         \/ /\ e.callback[1] = "complete"
            /\ e.callback = <<"complete", e.callback[2]>>
  BY Schedule DEF Callback

LEMMA DueIsEvent ==
  ASSUME SchedInv, PoolType, NEW w \in workers, NEW now \in Nat
  PROVE  DueAt(w, now) \in Sched!Event
  <1>1. <<"complete", w>> \in Callback
    <2>1. PICK n \in WorkerCounts : workers = 1..n
      BY DEF PoolType
    <2>2. w \in UNION {1..m : m \in WorkerCounts}
      BY <2>1
    <2> QED BY <2>2 DEF Callback
  <1>2. now + ProcessingTime \in Nat /\ nextOrder \in Nat
    BY PoolInputs, Schedule
  <1> QED BY <1>1, <1>2 DEF DueAt, Sched!Event

\* Heap and counters after a step keep their types when the new events have theirs.
LEMMA HeapKeeps ==
  ASSUME SchedInv, NEW gone, NEW fresh, fresh \subseteq Sched!Event, IsFiniteSet(fresh),
         \A g : g \in queue' <=> (g \in queue /\ g \notin gone) \/ g \in fresh,
         nextOrder' \in Nat, nextOrder <= nextOrder',
         \A g \in fresh : g.order < nextOrder',
         clock' \in Nat, jumped' \in Nat, history' \in Seq(Sched!Execution),
         NEW more, lost' = lost \cup more, IsFiniteSet(more),
         more \subseteq [event : Sched!Event, cause : Sched!Cause]
  PROVE  SchedInv'
  <1>1. IsFiniteSet(queue') /\ IsFiniteSet(lost')
    <2>1. IsFiniteSet(queue \cup fresh) /\ IsFiniteSet(lost \cup more)
      BY FS_Union DEF SchedInv
    <2>2. queue' \subseteq queue \cup fresh
      OBVIOUS
    <2> QED BY <2>1, <2>2, FS_Subset
  <1>2. queue' \subseteq Sched!Event /\ \A e \in queue' : e.order < nextOrder'
    BY Schedule
  <1>3. lost' \subseteq [event : Sched!Event, cause : Sched!Cause]
    BY DEF SchedInv, Sched!TypeOK
  <1> QED BY <1>1, <1>2, <1>3 DEF SchedInv, Sched!TypeOK

\* The pushes of a step are none, or the completion of one worker.
Pushes(pushes, fresh, now) ==
  \/ pushes = <<>> /\ fresh = {}
  \/ \E w \in workers :
       /\ pushes = <<[time |-> now + ProcessingTime, callback |-> <<"complete", w>>]>>
       /\ fresh = {DueAt(w, now)}

LEMMA PushedEffect ==
  ASSUME SchedInv, PoolType, NEW pushes, NEW fresh, NEW now \in Nat,
         Pushes(pushes, fresh, now)
  PROVE  /\ Sched!Pushed(pushes) = fresh
         /\ Len(pushes) \in Nat /\ fresh # {} => Len(pushes) = 1
         /\ fresh \subseteq Sched!Event /\ IsFiniteSet(fresh)
         /\ \A g \in fresh : g.order = nextOrder
  <1>1. CASE pushes = <<>> /\ fresh = {}
    BY <1>1, FS_EmptySet DEF Sched!Pushed
  <1>2. ASSUME NEW w \in workers,
               pushes = <<[time |-> now + ProcessingTime, callback |-> <<"complete", w>>]>>,
               fresh = {DueAt(w, now)}
        PROVE  /\ Sched!Pushed(pushes) = fresh
               /\ Len(pushes) = 1
               /\ fresh \subseteq Sched!Event /\ IsFiniteSet(fresh)
               /\ \A g \in fresh : g.order = nextOrder
    <2> DEFINE p == [time |-> now + ProcessingTime, callback |-> <<"complete", w>>]
    <2>1. Len(pushes) = 1 /\ DOMAIN pushes = {1} /\ pushes[1] = p
      BY <1>2
    <2>2. [time |-> p.time, order |-> nextOrder + 1 - 1, callback |-> p.callback] = DueAt(w, now)
      BY Schedule DEF DueAt
    <2> HIDE DEF p
    <2>3. Sched!Pushed(pushes) = {DueAt(w, now)}
      BY <2>1, <2>2 DEF Sched!Pushed
    <2>4. fresh \subseteq Sched!Event /\ IsFiniteSet(fresh)
      BY <1>2, DueIsEvent, FS_Singleton
    <2>5. \A g \in fresh : g.order = nextOrder
      BY <1>2 DEF DueAt
    <2> QED BY <1>2, <2>1, <2>3, <2>4, <2>5
  <1> QED BY <1>1, <1>2 DEF Pushes

\* run_next on an event that is due.
LEMMA RunEffect ==
  ASSUME SchedInv, PoolType, NEW e \in queue, NEW pushes, NEW fresh,
         NEW returns \in BOOLEAN, Pushes(pushes, fresh, e.time),
         Sched!RunEvent(e, pushes, returns)
  PROVE  /\ SchedInv' /\ SchedStep(e.time, {e}, fresh)
         /\ \A f \in queue \ {e} : Sched!Before(e, f)
         /\ lost' = IF returns THEN lost
                    ELSE lost \cup {[event |-> e, cause |-> "raised"]}
  <1>1. /\ clock' = e.time /\ clock <= e.time /\ jumped' = jumped
        /\ e \in Sched!Event /\ e.time \in Nat /\ e.order \in Nat /\ nextOrder \in Nat
        /\ queue' = (queue \ {e}) \cup Sched!Pushed(pushes)
        /\ nextOrder' = nextOrder + Len(pushes)
        /\ jumped \in Nat
    BY Schedule DEF Sched!RunEvent
  <1>2. /\ Sched!Pushed(pushes) = fresh
        /\ Len(pushes) \in Nat /\ fresh # {} => Len(pushes) = 1
        /\ fresh \subseteq Sched!Event /\ IsFiniteSet(fresh)
        /\ \A g \in fresh : g.order = nextOrder
    BY <1>1, PushedEffect
  <1>3. \A g : g \in queue' <=> \/ g \in queue /\ g \notin {e}
                                \/ g \in fresh
    BY <1>1, <1>2
  <1>4. \A f \in queue \ {e} : Sched!Before(e, f)
    BY DEF Sched!RunEvent, Sched!IsNext
  <1>5. \A f \in queue : e.time <= f.time
    BY <1>1, <1>4, Schedule DEF Sched!Before
  <1>6. lost' = IF returns THEN lost
                ELSE lost \cup {[event |-> e, cause |-> "raised"]}
    BY DEF Sched!RunEvent
  <1>7. history' \in Seq(Sched!Execution)
    <2>1. history \in Seq(Sched!Execution) /\ [time |-> e.time, order |-> e.order] \in Sched!Execution
      BY <1>1 DEF SchedInv, Sched!TypeOK, Sched!Execution
    <2>2. Append(history, [time |-> e.time, order |-> e.order]) \in Seq(Sched!Execution)
      BY <2>1, AppendOne
    <2> QED BY <2>1, <2>2 DEF Sched!RunEvent
  <1> DEFINE more == IF returns THEN {} ELSE {[event |-> e, cause |-> "raised"]}
  <1>8. /\ lost' = lost \cup more /\ IsFiniteSet(more)
        /\ more \subseteq [event : Sched!Event, cause : Sched!Cause]
    <2>1. [event |-> e, cause |-> "raised"] \in [event : Sched!Event, cause : Sched!Cause]
      BY <1>1 DEF Sched!Cause
    <2>2. more = {} \/ more = {[event |-> e, cause |-> "raised"]}
      OBVIOUS
    <2>3. IsFiniteSet(more)
      BY <2>2, FS_EmptySet, FS_Singleton
    <2>4. lost' = lost \cup more
      BY <1>6
    <2> HIDE DEF more
    <2> QED BY <2>1, <2>2, <2>3, <2>4
  <1> HIDE DEF more
  <1>9. ASSUME NEW g \in fresh PROVE g.order < nextOrder'
    <2>1. Len(pushes) = 1 /\ g.order = nextOrder
      BY <1>2
    <2> QED BY <2>1, <1>1
  <1>10. nextOrder' \in Nat /\ nextOrder <= nextOrder'
    BY <1>1, <1>2
  <1>11. SchedInv'
    BY <1>1, <1>2, <1>3, <1>7, <1>8, <1>9, <1>10, HeapKeeps
  <1> QED BY <1>1, <1>3, <1>4, <1>5, <1>6, <1>11 DEF SchedStep

\* schedule_at between two events.
LEMMA ScheduleEffect ==
  ASSUME SchedInv, NEW time \in Nat, NEW callback \in Callback,
         Sched!ScheduleAt(time, callback)
  PROVE  /\ SchedInv' /\ lost' = lost /\ clock <= time
         /\ SchedStep(clock, {}, {[time |-> time, order |-> nextOrder, callback |-> callback]})
  <1> DEFINE e == [time |-> time, order |-> nextOrder, callback |-> callback]
  <1>1. e \in Sched!Event /\ e.order = nextOrder
    BY Schedule DEF Sched!Event
  <1>2. /\ queue' = queue \cup {e} /\ nextOrder' = nextOrder + 1 /\ nextOrder \in Nat
        /\ time >= clock /\ UNCHANGED <<clock, history, lost, jumped>>
        /\ clock \in Nat /\ jumped \in Nat
    BY Schedule DEF Sched!ScheduleAt
  <1>3. history \in Seq(Sched!Execution) /\ lost' = lost \cup {}
    BY <1>2 DEF SchedInv, Sched!TypeOK
  <1> HIDE DEF e
  <1>4. /\ {e} \subseteq Sched!Event /\ IsFiniteSet({e}) /\ IsFiniteSet({})
        /\ \A g \in {e} : g.order < nextOrder'
        /\ \A g : g \in queue' <=> (g \in queue /\ g \notin {}) \/ g \in {e}
        /\ {} \subseteq [event : Sched!Event, cause : Sched!Cause]
    BY <1>1, <1>2, FS_Singleton, FS_EmptySet
  <1>5. /\ nextOrder' \in Nat /\ nextOrder <= nextOrder' /\ clock' \in Nat /\ jumped' \in Nat
        /\ history' \in Seq(Sched!Execution)
    BY <1>2, <1>3
  <1>6. SchedInv'
    BY <1>3, <1>4, <1>5, HeapKeeps
  <1>7. SchedStep(clock, {}, {e})
    BY <1>2, <1>4 DEF SchedStep
  <1> QED BY <1>2, <1>6, <1>7 DEF e

\* run_next on an event that is overdue.
LEMMA DropEffect ==
  ASSUME SchedInv, NEW e \in queue, Sched!DropOverdue(e)
  PROVE  /\ SchedInv' /\ SchedStep(clock, {e}, {}) /\ e.time < clock
         /\ \A f \in queue \ {e} : Sched!Before(e, f)
         /\ lost' = lost \cup {[event |-> e, cause |-> "overdue"]}
  <1> DEFINE more == {[event |-> e, cause |-> "overdue"]}
  <1>1. /\ queue' = queue \ {e} /\ lost' = lost \cup more
        /\ UNCHANGED <<clock, nextOrder, history, jumped>> /\ e.time < clock
        /\ \A f \in queue \ {e} : Sched!Before(e, f)
    BY DEF Sched!DropOverdue, Sched!IsNext
  <1>2. more \subseteq [event : Sched!Event, cause : Sched!Cause] /\ IsFiniteSet(more)
    <2>1. [event |-> e, cause |-> "overdue"] \in [event : Sched!Event, cause : Sched!Cause]
      BY Schedule DEF Sched!Cause
    <2>2. IsFiniteSet(more)
      BY FS_Singleton
    <2> QED BY <2>1, <2>2
  <1>3. /\ clock \in Nat /\ jumped \in Nat /\ nextOrder \in Nat
        /\ history \in Seq(Sched!Execution)
    BY Schedule DEF SchedInv, Sched!TypeOK
  <1> HIDE DEF more
  <1>4. /\ {} \subseteq Sched!Event /\ IsFiniteSet({})
        /\ \A g \in {} : g.order < nextOrder'
        /\ \A g : g \in queue' <=> (g \in queue /\ g \notin {e}) \/ g \in {}
    BY <1>1, FS_EmptySet
  <1>5. /\ nextOrder' \in Nat /\ nextOrder <= nextOrder' /\ clock' \in Nat /\ jumped' \in Nat
        /\ history' \in Seq(Sched!Execution)
    BY <1>1, <1>3
  <1>6. SchedInv'
    BY <1>1, <1>2, <1>4, <1>5, HeapKeeps
  <1>7. SchedStep(clock, {e}, {})
    BY <1>1, <1>3, <1>4 DEF SchedStep
  <1> QED BY <1>1, <1>6, <1>7 DEF more
-----------------------------------------------------------------------------
(***************************************************************************)
(* The pool.  A payment that arrives joins the line or is taken at once; a *)
(* worker whose work returns is idle again or moves on to the next.        *)
(***************************************************************************)
Newcomer(id, now) == [arrival_order |-> nextArrival, payment_id |-> id,
                      queued_at |-> now]

Joins(id, now) ==
  /\ DOMAIN current = workers /\ current' = current
  /\ Len(waiting') = Len(waiting) + 1 /\ DOMAIN waiting' = 1..(Len(waiting) + 1)
  /\ \A i \in 1..Len(waiting) : waiting'[i] = waiting[i]
  /\ waiting'[Len(waiting) + 1] = Newcomer(id, now)
  /\ nextArrival' = nextArrival + 1
  /\ UNCHANGED <<workers, busyTime, completed, posted>>

Starts(id, w, now) ==
  /\ w \in workers \ DOMAIN current
  /\ waiting = <<>> /\ waiting' = <<>>
  /\ DOMAIN current' = DOMAIN current \cup {w}
  /\ \A v \in DOMAIN current : current'[v] = current[v]
  /\ current'[w] = Taken(Newcomer(id, now), now)
  /\ nextArrival' = nextArrival + 1
  /\ UNCHANGED <<workers, busyTime, completed, posted>>

EndsWork(w, now) ==
  /\ w \in DOMAIN current
  /\ DOMAIN completed' = 1..(Len(completed) + 1) /\ Len(completed') = Len(completed) + 1
  /\ \A i \in 1..Len(completed) : completed'[i] = completed[i]
  /\ completed'[Len(completed) + 1] = Finished(w, now)
  /\ current[w].payment_id \notin Range(posted)
  /\ posted' = Append(posted, current[w].payment_id)
  /\ busyTime' = [busyTime EXCEPT ![w] = @ + ProcessingTime]
  /\ UNCHANGED <<workers, nextArrival>>

Finishes(w, now) ==
  /\ EndsWork(w, now)
  /\ waiting = <<>> /\ waiting' = <<>>
  /\ DOMAIN current' = DOMAIN current \ {w}
  /\ \A v \in DOMAIN current \ {w} : current'[v] = current[v]
  /\ UNCHANGED <<depthArea, depthChanged>>

MovesOn(w, now) ==
  /\ EndsWork(w, now)
  /\ waiting # <<>> /\ Len(waiting') = Len(waiting) - 1
  /\ DOMAIN waiting' = 1..(Len(waiting) - 1)
  /\ \A i \in 1..(Len(waiting) - 1) : waiting'[i] = waiting[i + 1]
  /\ DOMAIN current = workers /\ DOMAIN current' = workers
  /\ \A v \in workers \ {w} : current'[v] = current[v]
  /\ current'[w] = Taken(waiting[1], now)
  /\ RecordDepth(now)

LEMMA DepthGrows ==
  ASSUME PoolType, OnTime, clock \in Nat, NEW now \in Nat, clock <= now, RecordDepth(now)
  PROVE  depthArea' \in Nat /\ depthChanged' \in Nat
  <1>1. \A a, b \in Nat : a * b \in Nat
    OBVIOUS
  <1>2. Len(waiting) \in Nat /\ now - depthChanged \in Nat
    BY Parts DEF PoolType, OnTime
  <1>3. Len(waiting) * (now - depthChanged) \in Nat
    BY <1>1, <1>2
  <1> QED BY <1>3 DEF RecordDepth, PoolType

LEMMA EnqueueEffect ==
  ASSUME Inv, NEW id \in PaymentIds, NEW now \in Nat, clock <= now, EnqueueAt(id, now)
  PROVE  /\ PoolType' /\ RecordDepth(now)
         /\ \E fresh :
              /\ Pushes(Completions(Arrived(id, now), current, now), fresh, now)
              /\ \/ Joins(id, now) /\ fresh = {}
                 \/ \E w \in workers : Starts(id, w, now) /\ fresh = {DueAt(w, now)}
  <1>0. PoolType /\ OnTime /\ SchedInv /\ LineInOrder
    BY DEF Inv
  <1>n. clock \in Nat
    BY <1>0, Schedule
  <1> DEFINE line == Arrived(id, now)
             n == Len(waiting)
  <1>1. Newcomer(id, now) \in Queued
    BY <1>0 DEF Newcomer, Queued, PoolType
  <1>2. /\ line \in Seq(Queued) /\ n \in Nat /\ Len(line) = n + 1
        /\ DOMAIN line = 1..(n + 1) /\ \A i \in 1..n : line[i] = waiting[i]
        /\ line[n + 1] = Newcomer(id, now)
    <2>1. line = Append(waiting, Newcomer(id, now)) /\ waiting \in Seq(Queued)
      BY <1>0 DEF Arrived, Newcomer, PoolType
    <2> HIDE DEF line
    <2> QED BY <1>1, <2>1, AppendOne
  <1>3. line # <<>>
    BY <1>2
  <1>4. /\ Dispatch(line, current, now) /\ RecordDepth(now)
        /\ nextArrival' = nextArrival + 1
        /\ UNCHANGED <<workload, workers, busyTime, completed, posted>>
    BY DEF EnqueueAt
  <1>5. depthArea' \in Nat /\ depthChanged' \in Nat
    BY <1>0, <1>n, <1>4, DepthGrows
  <1>6. current = [v \in DOMAIN current |-> current[v]] /\ DOMAIN current \subseteq workers
    BY <1>0 DEF PoolType
  <1> HIDE DEF line
  <1>7. ASSUME DOMAIN current = workers
        PROVE  /\ PoolType' /\ Joins(id, now)
               /\ Pushes(Completions(line, current, now), {}, now)
    <2>1. Takers(line, current) = {}
      BY <1>0, <1>2, <1>7, NoneTaken
    <2>2. Completions(line, current, now) = <<>> /\ current' = current /\ waiting' = line
      BY <2>1, <1>2, <1>4, <1>6, DispatchNone
    <2>3. Pushes(Completions(line, current, now), {}, now)
      BY <2>2 DEF Pushes
    <2>4. Joins(id, now)
      BY <2>2, <1>2, <1>4, <1>7 DEF Joins
    <2>5. PoolType'
      BY <2>2, <1>0, <1>2, <1>4, <1>5 DEF PoolType
    <2> QED BY <2>3, <2>4, <2>5
  <1>8. ASSUME DOMAIN current # workers
        PROVE  \E w \in workers :
                 /\ PoolType' /\ Starts(id, w, now)
                 /\ Pushes(Completions(line, current, now), {DueAt(w, now)}, now)
    <2>1. waiting = <<>> /\ n = 0
      BY <1>0, <1>8 DEF LineInOrder
    <2>2. workers \ DOMAIN current # {} /\ Len(line) = 1
      BY <1>2, <1>6, <1>8, <2>1
    <2>3. PICK w \in workers \ DOMAIN current :
             Takers(line, current) = {w} /\ Rank(w, current) = 1
      BY <1>0, <1>2, <1>3, <2>2, OneTaken
    <2>4. /\ Completions(line, current, now)
               = <<[time |-> now + ProcessingTime, callback |-> <<"complete", w>>]>>
          /\ current' = [v \in DOMAIN current \cup {w} |->
                           IF v \in DOMAIN current THEN current[v]
                           ELSE Taken(line[1], now)]
          /\ waiting' = SubSeq(line, 2, Len(line))
      <3>1. OneStarts(line, current, now, w)
        BY <2>3, <1>4, DispatchOne
      <3> QED BY <3>1 DEF OneStarts
    <2>5. waiting' = <<>>
      BY <2>2, <2>4
    <2>6. line[1] = Newcomer(id, now)
      BY <1>2, <2>1
    <2>7. Taken(line[1], now) \in Served
      BY <1>1, <2>6 DEF Taken, Queued, Served
    <2>8. PoolType'
      <3>1. /\ DOMAIN current' = DOMAIN current \cup {w}
            /\ current' = [v \in DOMAIN current' |-> current'[v]]
            /\ \A v \in DOMAIN current' : current'[v] \in Served
        BY <2>4, <2>7, <1>0, Parts
      <3>2. <<>> \in Seq(Queued)
        BY EmptySeq
      <3> QED BY <3>1, <3>2, <2>3, <2>5, <1>0, <1>4, <1>5 DEF PoolType
    <2>9. Starts(id, w, now)
      BY <2>1, <2>3, <2>4, <2>5, <2>6, <1>4 DEF Starts
    <2>10. Pushes(Completions(line, current, now), {DueAt(w, now)}, now)
      BY <2>3, <2>4 DEF Pushes
    <2> QED BY <2>3, <2>8, <2>9, <2>10
  <1>9. CASE DOMAIN current = workers
    BY <1>4, <1>7, <1>9 DEF line
  <1>10. CASE DOMAIN current # workers
    <2>1. PICK w \in workers :
             /\ PoolType' /\ Starts(id, w, now)
             /\ Pushes(Completions(line, current, now), {DueAt(w, now)}, now)
      BY <1>8, <1>10
    <2> QED BY <2>1, <1>4 DEF line
  <1> QED BY <1>9, <1>10

\* _complete without its scheduling, when the work returns.
Completes(w, now) ==
  /\ WorkReturns(w)
  /\ posted' = Append(posted, current[w].payment_id)
  /\ completed' = Append(completed, Finished(w, now))
  /\ busyTime' = [busyTime EXCEPT ![w] = @ + ProcessingTime]
  /\ Dispatch(waiting, Others(w), now)
  /\ IF waiting = <<>> THEN UNCHANGED <<depthArea, depthChanged>>
                       ELSE RecordDepth(now)
  /\ UNCHANGED <<workload, workers, nextArrival>>

LEMMA CompleteEffect ==
  ASSUME Inv, NEW w, NEW now \in Nat, clock <= now, Completes(w, now)
  PROVE  /\ PoolType'
         /\ \E fresh :
              /\ Pushes(Completions(waiting, Others(w), now), fresh, now)
              /\ \/ Finishes(w, now) /\ fresh = {}
                 \/ MovesOn(w, now) /\ fresh = {DueAt(w, now)}
  <1>0. PoolType /\ OnTime /\ SchedInv /\ LineInOrder /\ clock \in Nat
    BY Schedule DEF Inv
  <1>1. /\ w \in DOMAIN current /\ w \in workers
        /\ current[w].payment_id \notin Range(posted)
        /\ current[w] \in Served /\ Len(completed) \in Nat /\ Len(waiting) \in Nat
        /\ waiting \in Seq(Queued) /\ completed \in Seq(Done) /\ posted \in Seq(PaymentIds)
        /\ DOMAIN waiting = 1..Len(waiting)
    BY <1>0, Parts DEF Completes, WorkReturns, PoolType
  <1>2. Finished(w, now) \in Done
    BY <1>1 DEF Finished, Served, Done
  <1>3. /\ completed' \in Seq(Done)
        /\ DOMAIN completed' = 1..(Len(completed) + 1) /\ Len(completed') = Len(completed) + 1
        /\ \A i \in 1..Len(completed) : completed'[i] = completed[i]
        /\ completed'[Len(completed) + 1] = Finished(w, now)
    <2>1. completed' = Append(completed, Finished(w, now))
      BY DEF Completes
    <2> QED BY <1>1, <1>2, <2>1, AppendOne
  <1>4. posted' \in Seq(PaymentIds) /\ posted' = Append(posted, current[w].payment_id)
    <2>1. posted' = Append(posted, current[w].payment_id) /\ current[w].payment_id \in PaymentIds
      BY <1>1 DEF Completes, Served
    <2> QED BY <1>1, <2>1, AppendOne
  <1>5. EndsWork(w, now)
    BY <1>1, <1>3, <1>4 DEF EndsWork, Completes
  <1>6. busyTime' \in [workers -> Nat]
    <2>1. busyTime \in [workers -> Nat] /\ busyTime[w] + ProcessingTime \in Nat
      BY <1>0, <1>1, PoolInputs DEF PoolType
    <2> QED BY <2>1 DEF Completes
  <1>7. depthArea' \in Nat /\ depthChanged' \in Nat
    <2>1. CASE waiting = <<>>
      BY <2>1, <1>0 DEF Completes, PoolType
    <2>2. CASE waiting # <<>>
      BY <2>2, <1>0, DepthGrows DEF Completes
    <2> QED BY <2>1, <2>2
  <1> DEFINE others == Others(w)
  <1>8. /\ others = [v \in DOMAIN others |-> others[v]] /\ DOMAIN others = DOMAIN current \ {w}
        /\ \A v \in DOMAIN current \ {w} : others[v] = current[v]
    BY DEF Others
  <1>9. /\ Dispatch(waiting, others, now)
        /\ UNCHANGED <<workload, workers, nextArrival>>
        /\ IF waiting = <<>> THEN UNCHANGED <<depthArea, depthChanged>>
                             ELSE RecordDepth(now)
    BY DEF Completes
  <1> HIDE DEF others
  <1>10. ASSUME waiting = <<>>
         PROVE  /\ PoolType' /\ Finishes(w, now)
                /\ Pushes(Completions(waiting, others, now), {}, now)
    <2>1. Takers(waiting, others) = {}
      BY <1>0, <1>1, <1>10, NoneTaken
    <2>2. Completions(waiting, others, now) = <<>> /\ current' = others /\ waiting' = waiting
      BY <2>1, <1>1, <1>8, <1>9, DispatchNone
    <2>3. Finishes(w, now)
      BY <2>2, <1>5, <1>8, <1>9, <1>10 DEF Finishes
    <2>4. /\ DOMAIN current' \subseteq workers /\ current' = [v \in DOMAIN current' |-> current'[v]]
          /\ \A v \in DOMAIN current' : current'[v] \in Served
      BY <2>2, <1>0, <1>8, Parts
    <2>5. PoolType'
      BY <2>2, <2>4, <1>0, <1>3, <1>4, <1>6, <1>7, <1>9 DEF PoolType
    <2> QED BY <2>2, <2>3, <2>5 DEF Pushes
  <1>11. ASSUME waiting # <<>>
         PROVE  /\ PoolType' /\ MovesOn(w, now)
                /\ Pushes(Completions(waiting, others, now), {DueAt(w, now)}, now)
    <2>1. DOMAIN current = workers /\ workers \ DOMAIN others = {w}
      BY <1>0, <1>1, <1>8, <1>11 DEF LineInOrder
    <2>2. Takers(waiting, others) = {w} /\ Rank(w, others) = 1
      <3>1. workers \ DOMAIN others # {} /\ \A u, v \in workers \ DOMAIN others : u = v
        BY <2>1
      <3>2. \E v \in workers \ DOMAIN others :
               Takers(waiting, others) = {v} /\ Rank(v, others) = 1
        BY <1>0, <1>1, <1>11, <3>1, OneTaken
      <3> QED BY <2>1, <3>2
    <2>3. /\ Completions(waiting, others, now)
               = <<[time |-> now + ProcessingTime, callback |-> <<"complete", w>>]>>
          /\ current' = [v \in DOMAIN others \cup {w} |->
                           IF v \in DOMAIN others THEN others[v]
                           ELSE Taken(waiting[1], now)]
          /\ waiting' = SubSeq(waiting, 2, Len(waiting))
      <3>1. w \notin DOMAIN others
        BY <1>8
      <3>2. OneStarts(waiting, others, now, w)
        BY <2>2, <3>1, <1>9, DispatchOne
      <3> QED BY <3>2 DEF OneStarts
    <2>4. Len(waiting) # 0
      BY <1>1, <1>11, EmptySeq
    <2>5. /\ waiting' \in Seq(Queued) /\ Len(waiting') = Len(waiting) - 1
          /\ DOMAIN waiting' = 1..(Len(waiting) - 1)
          /\ \A i \in 1..(Len(waiting) - 1) : waiting'[i] = waiting[i + 1]
      <3>1. waiting \in Seq(Queued) /\ 1 \in 0..Len(waiting)
        BY <1>1, <2>4
      <3>2. PICK k, s : k = 1 /\ s = waiting
        OBVIOUS
      <3>3. s \in Seq(Queued) /\ k \in 0..Len(s)
        BY <3>1, <3>2
      <3>4. LET t == SubSeq(s, k + 1, Len(s))
            IN  /\ t \in Seq(Queued) /\ Len(t) = Len(s) - k
                /\ DOMAIN t = 1..(Len(s) - k)
                /\ \A i \in 1..(Len(s) - k) : t[i] = s[i + k]
        BY ONLY <3>3, Suffix
      <3> QED BY <2>3, <3>2, <3>4
    <2>6. waiting[1] \in Queued
      BY <1>0, <1>1, <2>4, Parts
    <2>7. Taken(waiting[1], now) \in Served
      BY <2>6 DEF Taken, Queued, Served
    <2>8. /\ DOMAIN current' = workers /\ current' = [v \in DOMAIN current' |-> current'[v]]
          /\ \A v \in workers \ {w} : current'[v] = current[v]
          /\ current'[w] = Taken(waiting[1], now)
      BY <2>1, <2>3, <1>1, <1>8
    <2>9. \A v \in DOMAIN current' : current'[v] \in Served
      BY <2>1, <2>7, <2>8, <1>0, Parts
    <2>10. MovesOn(w, now)
      BY <2>1, <2>5, <2>8, <1>5, <1>9, <1>11 DEF MovesOn
    <2>11. PoolType'
      BY <2>5, <2>8, <2>9, <1>0, <1>3, <1>4, <1>6, <1>7, <1>9 DEF PoolType
    <2> QED BY <2>3, <2>10, <2>11, <1>1 DEF Pushes
  <1>12. CASE waiting = <<>>
    BY <1>10, <1>12 DEF others
  <1>13. CASE waiting # <<>>
    BY <1>11, <1>13 DEF others
  <1> QED BY <1>12, <1>13
-----------------------------------------------------------------------------
(***************************************************************************)
(* The completions that a step leaves queued and lost.                     *)
(***************************************************************************)
\* What becomes of the completions when only w's change.
EndsBecome(w, due, gone) ==
  /\ \A v \in workers \ {w} : Due(v)' = Due(v) /\ Gone(v)' = Gone(v)
  /\ Due(w)' = due /\ Gone(w)' = gone
  /\ \A e \in queue' : e.callback[1] = "complete" => e.callback[2] \in workers

EndsStay ==
  /\ \A v \in workers : Due(v)' = Due(v) /\ Gone(v)' = Gone(v)
  /\ \A e \in queue' : e.callback[1] = "complete" => e.callback[2] \in workers

\* An event e leaves the heap by SchedStep, or none does.
NoCompletion(gone) == \A e \in gone : e.callback[1] # "complete"

LEMMA QuietEnds ==
  ASSUME OneEnd, NEW now, NEW gone, NEW fresh, SchedStep(now, gone, fresh),
         NoCompletion(gone), NoCompletion(fresh),
         lost \subseteq lost', \A l \in lost' : l \in lost \/ l.event \in gone
  PROVE  EndsStay
  <1>1. ASSUME NEW v \in workers PROVE Due(v)' = Due(v)
    <2>1. <<"complete", v>>[1] = "complete"
      OBVIOUS
    <2>2. \A g : g \in Due(v)' <=> g \in Due(v)
      BY <2>1 DEF Due, SchedStep, NoCompletion
    <2> QED BY <2>2 DEF Due
  <1>2. ASSUME NEW v \in workers PROVE Gone(v)' = Gone(v)
    <2>1. \A l : l \in Gone(v)' <=> l \in Gone(v)
      BY DEF Gone, NoCompletion
    <2> QED BY <2>1 DEF Gone
  <1>3. \A e \in queue' : e.callback[1] = "complete" => e.callback[2] \in workers
    BY DEF SchedStep, NoCompletion, OneEnd
  <1> QED BY <1>1, <1>2, <1>3 DEF EndsStay

LEMMA StartEnds ==
  ASSUME OneEnd, NEW w \in workers, NEW now, NEW gone,
         SchedStep(now, gone, {DueAt(w, now)}), NoCompletion(gone), lost' = lost, w \notin DOMAIN current
  PROVE  EndsBecome(w, {DueAt(w, now)}, {}) /\ Gone(w) = {}
  <1>1. ASSUME NEW v \in workers \ {w} PROVE Due(v)' = Due(v) /\ Gone(v)' = Gone(v)
    <2>1. <<"complete", v>>[1] = "complete" /\ DueAt(w, now).callback # <<"complete", v>>
      BY DEF DueAt
    <2>2. \A g : g \in Due(v)' <=> g \in Due(v)
      BY <2>1 DEF Due, SchedStep, NoCompletion
    <2> QED BY <2>2 DEF Due, Gone
  <1>2. Due(w) = {} /\ Gone(w) = {}
    BY DEF OneEnd
  <1>3. Due(w)' = {DueAt(w, now)}
    <2>1. DueAt(w, now).callback = <<"complete", w>>
      BY DEF DueAt
    <2>2. \A g : g \in Due(w)' <=> g = DueAt(w, now)
      BY <1>2, <2>1 DEF Due, SchedStep
    <2> QED BY <2>2 DEF Due
  <1>4. \A e \in queue' : e.callback[1] = "complete" => e.callback[2] \in workers
    BY DEF SchedStep, NoCompletion, OneEnd, DueAt
  <1> QED BY <1>1, <1>2, <1>3, <1>4 DEF EndsBecome, Gone

\* The completion of w is run or dropped.
LEMMA CompletionEnds ==
  ASSUME SchedInv, OneEnd, NEW w, NEW now, NEW fresh, NEW e \in queue,
         e.callback = <<"complete", w>>, SchedStep(now, {e}, fresh), fresh \in {{}, {DueAt(w, now)}}, lost' = lost
  PROVE  /\ w \in workers /\ w \in DOMAIN current /\ Due(w) = {e} /\ Gone(w) = {}
         /\ EndsBecome(w, fresh, {})
  <1>1. w \in workers /\ Due(w) = {e} /\ Gone(w) = {} /\ w \in DOMAIN current
    BY DEF OneEnd, Due
  <1>2. ASSUME NEW v \in workers \ {w} PROVE Due(v)' = Due(v) /\ Gone(v)' = Gone(v)
    <2>1. e.callback # <<"complete", v>> /\ DueAt(w, now).callback # <<"complete", v>>
      BY DEF DueAt
    <2>2. \A g : g \in Due(v)' <=> g \in Due(v)
      BY <2>1 DEF Due, SchedStep
    <2> QED BY <2>2 DEF Due, Gone
  <1>3. Due(w)' = fresh
    <2>1. DueAt(w, now).callback = <<"complete", w>>
      BY DEF DueAt
    <2>2. \A g : g \in Due(w)' <=> g \in fresh
      BY <1>1, <2>1 DEF Due, SchedStep
    <2> QED BY <2>2 DEF Due
  <1>4. \A f \in queue' : f.callback[1] = "complete" => f.callback[2] \in workers
    BY <1>1 DEF SchedStep, OneEnd, DueAt
  <1> QED BY <1>1, <1>2, <1>3, <1>4 DEF EndsBecome, Gone

LEMMA LostEnds ==
  ASSUME SchedInv, OneEnd, NEW w, NEW now, NEW e \in queue,
         e.callback = <<"complete", w>>, SchedStep(now, {e}, {}), NEW cause,
         lost' = lost \cup {[event |-> e, cause |-> cause]}
  PROVE  /\ w \in workers /\ w \in DOMAIN current /\ Due(w) = {e} /\ Gone(w) = {}
         /\ EndsBecome(w, {}, {[event |-> e, cause |-> cause]})
  <1>1. w \in workers /\ Due(w) = {e} /\ Gone(w) = {} /\ w \in DOMAIN current
    BY DEF OneEnd, Due
  <1> DEFINE l == [event |-> e, cause |-> cause]
  <1>2. lost' = lost \cup {l} /\ l.event = e
    OBVIOUS
  <1> HIDE DEF l
  <1>3. ASSUME NEW v \in workers \ {w} PROVE Due(v)' = Due(v) /\ Gone(v)' = Gone(v)
    <2>1. e.callback # <<"complete", v>>
      OBVIOUS
    <2>2. \A g : g \in Due(v)' <=> g \in Due(v)
      BY <2>1 DEF Due, SchedStep
    <2>3. \A m : m \in Gone(v)' <=> m \in Gone(v)
      BY <1>2, <2>1 DEF Gone
    <2> QED BY <2>2, <2>3 DEF Due, Gone
  <1>4. Due(w)' = {}
    BY <1>1 DEF Due, SchedStep
  <1>5. Gone(w)' = {l}
    <2>1. \A m : m \in Gone(w)' <=> m = l
      BY <1>1, <1>2 DEF Gone
    <2> QED BY <2>1 DEF Gone
  <1>6. \A f \in queue' : f.callback[1] = "complete" => f.callback[2] \in workers
    BY <1>1 DEF SchedStep, OneEnd
  <1> QED BY <1>1, <1>3, <1>4, <1>5, <1>6 DEF EndsBecome, l
-----------------------------------------------------------------------------
(***************************************************************************)
(* What each change of the pool keeps.                                     *)
(***************************************************************************)
LEMMA LineKept ==
  ASSUME PoolType, LineInOrder,
         \/ \E id \in PaymentIds, now \in Nat :
              Joins(id, now) \/ \E w \in workers : Starts(id, w, now)
         \/ \E w, now : Finishes(w, now) \/ MovesOn(w, now)
  PROVE  LineInOrder'
  <1> USE DEF Left
  <1>0. /\ Len(waiting) \in Nat /\ DOMAIN waiting = 1..Len(waiting) /\ nextArrival \in Nat
        /\ waiting = <<>> => Len(waiting) = 0
    BY Parts
  <1>1. ASSUME NEW id, NEW now, Joins(id, now) PROVE LineInOrder'
    <2>1. /\ DOMAIN current' = workers' /\ Left' = Left
          /\ DOMAIN waiting' = 1..(Len(waiting) + 1)
      BY <1>0, <1>1 DEF Joins
    <2>2. \A i \in 1..Len(waiting) : waiting'[i].arrival_order = Left + i - 1
      BY <1>0, <1>1 DEF Joins, LineInOrder
    <2>3. waiting'[Len(waiting) + 1].arrival_order = Left + (Len(waiting) + 1) - 1
      BY <1>0, <1>1 DEF Joins, Newcomer
    <2>4. \A i \in DOMAIN waiting' : i \in 1..Len(waiting) \/ i = Len(waiting) + 1
      BY <1>0, <2>1
    <2>5. \A i \in DOMAIN waiting' : waiting'[i].arrival_order = Left' + i - 1
      BY <2>1, <2>2, <2>3, <2>4
    <2> QED BY <2>1, <2>5 DEF LineInOrder
  <1>2. ASSUME NEW id, NEW w, NEW now, Starts(id, w, now) PROVE LineInOrder'
    BY <1>0, <1>2 DEF Starts, LineInOrder
  <1>3. ASSUME NEW w, NEW now, Finishes(w, now) PROVE LineInOrder'
    BY <1>0, <1>3 DEF Finishes, EndsWork, LineInOrder
  <1>4. ASSUME NEW w, NEW now, MovesOn(w, now) PROVE LineInOrder'
    <2>1. /\ DOMAIN current' = workers' /\ Left' = Left + 1 /\ Left' \in Nat
          /\ DOMAIN waiting' = 1..(Len(waiting) - 1)
      BY <1>0, <1>4 DEF MovesOn, EndsWork, LineInOrder
    <2>2. ASSUME NEW i \in DOMAIN waiting'
          PROVE  waiting'[i].arrival_order = Left' + i - 1
      <3>1. waiting'[i] = waiting[i + 1] /\ i + 1 \in DOMAIN waiting /\ i \in Nat
        BY <1>0, <1>4, <2>1 DEF MovesOn
      <3>2. waiting[i + 1].arrival_order = Left + (i + 1) - 1
        BY <3>1 DEF LineInOrder
      <3> QED BY <1>0, <2>1, <3>1, <3>2 DEF LineInOrder
    <2> QED BY <2>1, <2>2 DEF LineInOrder
  <1> QED BY <1>1, <1>2, <1>3, <1>4

\* A newcomer is taken.
LEMMA TakenKeptStarts ==
  ASSUME PoolType, LineInOrder, TakenInOrder, NEW id, NEW w, NEW now, Starts(id, w, now)
  PROVE  TakenInOrder'
  <1>0. /\ Len(waiting) = 0 /\ nextArrival \in Nat /\ Left = nextArrival
        /\ Left' = Left + 1 /\ completed' = completed /\ w \notin DOMAIN current
        /\ DOMAIN current' = DOMAIN current \cup {w}
        /\ \A v \in DOMAIN current : current'[v].arrival_order = current[v].arrival_order
        /\ current'[w].arrival_order = Left
        /\ \A v \in DOMAIN current : current[v].arrival_order \in Nat
        /\ \A i \in DOMAIN completed : completed[i].arrival_order \in Nat
    BY Parts DEF Starts, Left, Taken, Newcomer, Served, Done
  <1>1. \A v \in DOMAIN current' : current'[v].arrival_order < Left'
    BY <1>0 DEF TakenInOrder
  <1>2. \A i \in DOMAIN completed' : completed'[i].arrival_order < Left'
    BY <1>0 DEF TakenInOrder
  <1>3. ASSUME NEW o \in 0..(Left' - 1)
        PROVE  \/ \E i \in DOMAIN completed' : completed'[i].arrival_order = o
               \/ \E v \in DOMAIN current' : current'[v].arrival_order = o
    <2>1. o = Left \/ o \in 0..(Left - 1)
      BY <1>0
    <2> QED BY <1>0, <2>1 DEF TakenInOrder
  <1>4. \A u, v \in DOMAIN current' :
          current'[u].arrival_order = current'[v].arrival_order => u = v
    BY <1>0 DEF TakenInOrder
  <1>5. \A i \in DOMAIN completed', v \in DOMAIN current' :
          completed'[i].arrival_order # current'[v].arrival_order
    BY <1>0 DEF TakenInOrder
  <1>6. \A i, j \in DOMAIN completed' :
          i < j => completed'[i].arrival_order < completed'[j].arrival_order
    BY <1>0 DEF TakenInOrder
  <1>7. Len(completed') + Cardinality(DOMAIN current') = Left'
    <2>1. IsFiniteSet(DOMAIN current)
      BY Workers, FS_Subset DEF PoolType
    <2>2. Cardinality(DOMAIN current') = Cardinality(DOMAIN current) + 1
      BY <1>0, <2>1, FS_AddElement
    <2>3. Cardinality(DOMAIN current) \in Nat /\ Len(completed) \in Nat
      BY <2>1, FS_CardinalityType, Parts
    <2>4. Len(completed) + Cardinality(DOMAIN current) = Left
      BY DEF TakenInOrder
    <2>5. Len(completed') = Len(completed) /\ Left' = Left + 1 /\ Left \in Nat
      BY <1>0
    <2> QED BY <2>2, <2>3, <2>4, <2>5
  <1> QED BY <1>1, <1>2, <1>3, <1>4, <1>5, <1>6, <1>7 DEF TakenInOrder

\* A payment is completed, and perhaps the next is taken.
LEMMA TakenKeptEnds ==
  ASSUME PoolType, LineInOrder, TakenInOrder, NEW w, NEW now,
         Finishes(w, now) \/ MovesOn(w, now),
         \A i \in DOMAIN completed : completed[i].arrival_order < current[w].arrival_order
  PROVE  TakenInOrder'
  <1> DEFINE n == Len(completed)
             c(v) == current[v].arrival_order
             d(i) == completed[i].arrival_order
  <1>0. /\ n \in Nat /\ DOMAIN completed = 1..n /\ w \in DOMAIN current /\ Left \in Nat
        /\ DOMAIN completed' = 1..(n + 1) /\ Len(completed') = n + 1
        /\ \A i \in 1..n : completed'[i].arrival_order = d(i)
        /\ completed'[n + 1].arrival_order = c(w)
        /\ \A v \in DOMAIN current : c(v) \in Nat
        /\ \A i \in DOMAIN completed : d(i) \in Nat
        /\ \A v \in DOMAIN current \ {w} : current'[v].arrival_order = c(v)
    <2>1. EndsWork(w, now) /\ \A v \in DOMAIN current \ {w} : current'[v] = current[v]
      <3>1. CASE Finishes(w, now)
        BY <3>1 DEF Finishes
      <3>2. CASE MovesOn(w, now)
        BY <3>2 DEF MovesOn
      <3> QED BY <3>1, <3>2
    <2>2. Finished(w, now).arrival_order = c(w)
      BY DEF Finished
    <2>3. /\ \A v \in DOMAIN current : c(v) \in Nat
          /\ \A i \in DOMAIN completed : d(i) \in Nat
          /\ n \in Nat /\ DOMAIN completed = 1..n /\ Left \in Nat
      BY Parts DEF Served, Done, LineInOrder
    <2>4. /\ w \in DOMAIN current
          /\ DOMAIN completed' = 1..(n + 1) /\ Len(completed') = n + 1
          /\ \A i \in 1..n : completed'[i] = completed[i]
          /\ completed'[n + 1] = Finished(w, now)
      BY <2>1 DEF EndsWork
    <2> QED BY <2>1, <2>2, <2>3, <2>4
  <1>1. \/ DOMAIN current' = DOMAIN current \ {w} /\ Left' = Left
        \/ /\ DOMAIN current' = DOMAIN current /\ Left' = Left + 1
           /\ current'[w].arrival_order = Left
    <2>1. CASE Finishes(w, now)
      BY <2>1 DEF Finishes, EndsWork, Left
    <2>2. CASE MovesOn(w, now)
      <3>1. Len(waiting) \in Nat /\ Len(waiting) # 0 /\ nextArrival \in Nat
        BY <2>2, Parts, EmptySeq DEF MovesOn, PoolType
      <3>2. waiting[1].arrival_order = Left
        BY <3>1, <1>0, Parts DEF LineInOrder
      <3> QED BY <2>2, <3>1, <3>2 DEF MovesOn, EndsWork, Taken, Left
    <2> QED BY <2>1, <2>2
  <1>i. \A i \in DOMAIN completed' : i \in 1..n \/ i = n + 1
    BY <1>0
  <1>t. /\ \A i \in DOMAIN completed : d(i) < Left /\ d(i) < c(w)
        /\ \A v \in DOMAIN current : c(v) < Left
        /\ \A o \in 0..(Left - 1) : \/ \E i \in DOMAIN completed : d(i) = o
                                    \/ \E v \in DOMAIN current : c(v) = o
        /\ \A u, v \in DOMAIN current : c(u) = c(v) => u = v
        /\ \A i \in DOMAIN completed, v \in DOMAIN current : d(i) # c(v)
        /\ \A i, j \in DOMAIN completed : i < j => d(i) < d(j)
        /\ n + Cardinality(DOMAIN current) = Left
    BY DEF TakenInOrder
  <1> HIDE DEF n, c, d
  <1>2. \A v \in DOMAIN current' : current'[v].arrival_order < Left'
    BY <1>0, <1>1, <1>t
  <1>3. \A i \in DOMAIN completed' : completed'[i].arrival_order < Left'
    BY <1>0, <1>1, <1>i, <1>t
  <1>4. ASSUME NEW o \in 0..(Left' - 1)
        PROVE  \/ \E i \in DOMAIN completed' : completed'[i].arrival_order = o
               \/ \E v \in DOMAIN current' : current'[v].arrival_order = o
    <2>1. \/ o \in 0..(Left - 1)
          \/ o = Left /\ Left' = Left + 1
      BY <1>0, <1>1
    <2>2. CASE o = Left /\ Left' = Left + 1
      BY <1>0, <1>1, <2>2
    <2>3. ASSUME NEW i \in DOMAIN completed, d(i) = o
          PROVE  \E k \in DOMAIN completed' : completed'[k].arrival_order = o
      BY <1>0, <2>3
    <2>4. ASSUME NEW v \in DOMAIN current, c(v) = o
          PROVE  \/ \E k \in DOMAIN completed' : completed'[k].arrival_order = o
                 \/ \E u \in DOMAIN current' : current'[u].arrival_order = o
      <3>1. CASE v = w
        <4>1. n + 1 \in DOMAIN completed'
          BY <1>0
        <4> QED BY <1>0, <2>4, <3>1, <4>1
      <3>2. CASE v # w
        BY <1>0, <1>1, <2>4, <3>2
      <3> QED BY <3>1, <3>2
    <2> QED BY <2>1, <2>2, <2>3, <2>4, <1>t
  <1>5. \A u, v \in DOMAIN current' :
          current'[u].arrival_order = current'[v].arrival_order => u = v
    BY <1>0, <1>1, <1>t
  <1>6. ASSUME NEW i \in DOMAIN completed', NEW v \in DOMAIN current'
        PROVE  completed'[i].arrival_order # current'[v].arrival_order
    BY <1>0, <1>1, <1>i, <1>t
  <1>7. ASSUME NEW i \in DOMAIN completed', NEW j \in DOMAIN completed', i < j
        PROVE  completed'[i].arrival_order < completed'[j].arrival_order
    BY <1>0, <1>i, <1>t, <1>7
  <1>8. n + 1 + Cardinality(DOMAIN current') = Left'
    <2>1. IsFiniteSet(DOMAIN current)
      BY Workers, FS_Subset DEF PoolType
    <2>2. Cardinality(DOMAIN current \ {w}) = Cardinality(DOMAIN current) - 1
      BY <1>0, <2>1, FS_RemoveElement
    <2>3. Cardinality(DOMAIN current) \in Nat
      BY <2>1, FS_CardinalityType
    <2>4. /\ Left \in Nat /\ n \in Nat /\ n + Cardinality(DOMAIN current) = Left
          /\ \/ DOMAIN current' = DOMAIN current \ {w} /\ Left' = Left
             \/ DOMAIN current' = DOMAIN current /\ Left' = Left + 1
      BY <1>0, <1>1, <1>t
    <2> QED BY <2>2, <2>3, <2>4
  <1> QED BY <1>0, <1>2, <1>3, <1>4, <1>5, <1>6, <1>7, <1>8 DEF TakenInOrder
-----------------------------------------------------------------------------
LEMMA EndsKeptStay ==
  ASSUME OneEnd, EndsStay, UNCHANGED <<workers, current>>
  PROVE  OneEnd'
  BY DEF OneEnd, EndsStay

\* The three ways in which the completions of one worker change.
LEMMA EndsKept ==
  ASSUME OneEnd, NEW w \in workers, NEW due, NEW gone, EndsBecome(w, due, gone),
         workers' = workers,
         DOMAIN current' \ {w} = DOMAIN current \ {w},
         \A v \in DOMAIN current \ {w} : current'[v] = current[v],
         \/ due = {} /\ gone = {} /\ w \notin DOMAIN current'
         \/ /\ w \in DOMAIN current' /\ gone = {}
            /\ \E e : /\ due = {e}
                      /\ e.time = current'[w].processing_started_at + ProcessingTime
         \/ due = {} /\ w \in DOMAIN current' /\ \E l : gone = {l}
  PROVE  OneEnd'
  <1>1. ASSUME NEW v \in workers, v # w
        PROVE  /\ \A e, f \in Due(v)' : e = f
               /\ \A l, m \in Gone(v)' : l = m
               /\ Due(v)' = {} \/ Gone(v)' = {}
               /\ v \in DOMAIN current' <=> Due(v)' # {} \/ Gone(v)' # {}
               /\ \A e \in Due(v)' :
                    e.time = current'[v].processing_started_at + ProcessingTime
    <2>1. Due(v)' = Due(v) /\ Gone(v)' = Gone(v)
      BY <1>1 DEF EndsBecome
    <2>2. v \in DOMAIN current' <=> v \in DOMAIN current
      BY <1>1
    <2>3. v \in DOMAIN current => current'[v] = current[v]
      BY <1>1
    <2>4. /\ \A e, f \in Due(v) : e = f
          /\ \A l, m \in Gone(v) : l = m
          /\ Due(v) = {} \/ Gone(v) = {}
          /\ v \in DOMAIN current <=> Due(v) # {} \/ Gone(v) # {}
          /\ \A e \in Due(v) :
               e.time = current[v].processing_started_at + ProcessingTime
      BY DEF OneEnd
    <2> QED BY <2>1, <2>2, <2>3, <2>4
  <1>2. /\ \A e, f \in Due(w)' : e = f
        /\ \A l, m \in Gone(w)' : l = m
        /\ Due(w)' = {} \/ Gone(w)' = {}
        /\ w \in DOMAIN current' <=> Due(w)' # {} \/ Gone(w)' # {}
        /\ \A e \in Due(w)' :
             e.time = current'[w].processing_started_at + ProcessingTime
    <2>1. Due(w)' = due /\ Gone(w)' = gone
      BY DEF EndsBecome
    <2> QED BY <2>1
  <1>3. \A e \in queue' : e.callback[1] = "complete" => e.callback[2] \in workers'
    BY DEF EndsBecome
  <1> QED BY <1>1, <1>2, <1>3 DEF OneEnd
-----------------------------------------------------------------------------
\* No completion that is due is before w's.
Earliest(w) == \A v \in DOMAIN current \ {w} :
                 Due(v) # {} => current[w].arrival_order < current[v].arrival_order

LEMMA LeastDue ==
  ASSUME SchedInv, PoolType, TakenInOrder, OneEnd, DueInOrder, NEW w \in DOMAIN current,
         NEW e \in queue, Due(w) = {e}, \A f \in queue \ {e} : Sched!Before(e, f)
  PROVE  /\ Earliest(w)
         /\ \A i \in DOMAIN completed :
              completed[i].arrival_order < current[w].arrival_order
  <1>1. ASSUME NEW v \in DOMAIN current \ {w}, Due(v) # {}
        PROVE  current[w].arrival_order < current[v].arrival_order
    <2>1. PICK f \in Due(v) : TRUE
      BY <1>1
    <2>2. f \in queue /\ e \in queue /\ f # e /\ e \in Due(w)
      BY <2>1 DEF Due
    <2>3. Sched!Before(e, f) /\ ~Sched!Before(f, e)
      BY <2>2, Schedule DEF Sched!Before
    <2>4. ~(current[v].arrival_order < current[w].arrival_order)
      BY <2>1, <2>2, <2>3 DEF DueInOrder
    <2>5. current[v].arrival_order # current[w].arrival_order
      BY DEF TakenInOrder
    <2>6. current[v].arrival_order \in Nat /\ current[w].arrival_order \in Nat
      BY Parts DEF Served
    <2> QED BY <2>4, <2>5, <2>6
  <1>2. Due(w) # {}
    OBVIOUS
  <1> QED BY <1>1, <1>2 DEF Earliest, DueInOrder

LEMMA OrderKeptStay ==
  ASSUME DueInOrder, EndsStay, UNCHANGED <<workers, current, completed>>, PoolType
  PROVE  DueInOrder'
  <1>1. \A v \in DOMAIN current : Due(v)' = Due(v)
    BY Parts DEF EndsStay
  <1> QED BY <1>1 DEF DueInOrder

\* What w does next comes after all that is under way.
Latest(w, due) ==
  /\ \A v \in DOMAIN current' \ {w} :
       /\ current'[v].arrival_order < current'[w].arrival_order
       /\ \A e \in Due(v), f \in due : Sched!Before(e, f)
  /\ \A i \in DOMAIN completed' :
       completed'[i].arrival_order < current'[w].arrival_order

\* The completions stay in order: w is idle, or has stuck, or starts the latest
\* payment; what was completed in the step is w's, and was the earliest due.
LEMMA OrderKept ==
  ASSUME DueInOrder, PoolType, PoolType', NEW w \in workers, NEW due, NEW gone,
         EndsBecome(w, due, gone),
         DOMAIN current' \ {w} = DOMAIN current \ {w},
         \A v \in DOMAIN current \ {w} : current'[v] = current[v],
         completed' = completed \/
           /\ Earliest(w)
           /\ \A i \in DOMAIN completed' :
                \/ i \in DOMAIN completed /\ completed'[i] = completed[i]
                \/ completed'[i].arrival_order = current[w].arrival_order,
         \/ due = {} /\ w \notin DOMAIN current'
         \/ w \in DOMAIN current' /\ Latest(w, due) /\ \E e : due = {e}
         \/ due = {} /\ w \in DOMAIN current /\ current' = current /\ Earliest(w)
  PROVE  DueInOrder'
  <1> DEFINE c(v) == current[v].arrival_order
             p(v) == current'[v].arrival_order
  <1>1. /\ \A v \in DOMAIN current' : v # w => v \in DOMAIN current /\ v \in workers
        /\ \A v \in DOMAIN current' : v # w => Due(v)' = Due(v) /\ p(v) = c(v)
        /\ Due(w)' = due
    BY Parts DEF EndsBecome
  <1>t. \A v \in DOMAIN current' : p(v) \in Nat
    <2>1. \A v \in DOMAIN current' : current'[v] \in Served
      BY DEF PoolType
    <2> QED BY <2>1 DEF Served
  <1>2. ASSUME NEW u \in DOMAIN current', NEW v \in DOMAIN current',
               NEW e \in Due(u)', NEW f \in Due(v)', p(u) < p(v)
        PROVE  Sched!Before(e, f)
    <2>1. CASE u # w /\ v # w
      BY <1>1, <1>2, <2>1 DEF DueInOrder
    <2>2. CASE u = w
      <3>1. v # w /\ due # {}
        BY <1>1, <1>2, <1>t, <2>2
      <3>2. p(v) < p(w)
        BY <3>1 DEF Latest
      <3> QED BY <3>2, <1>2, <1>t, <2>2
    <2>3. CASE u # w /\ v = w
      <3>1. f \in due /\ e \in Due(u)
        BY <1>1, <2>3
      <3> QED BY <3>1, <2>3 DEF Latest
    <2> QED BY <2>1, <2>2, <2>3
  <1>3. ASSUME NEW u \in DOMAIN current', NEW v \in DOMAIN current',
               Due(u)' = {}, Due(v)' # {}
        PROVE  p(u) < p(v)
    <2>1. CASE u # w /\ v # w
      BY <1>1, <1>3, <2>1 DEF DueInOrder
    <2>2. CASE u = w
      BY <1>1, <1>3, <2>2 DEF Earliest
    <2>3. CASE u # w /\ v = w
      BY <1>1, <1>3, <2>3 DEF Latest
    <2> QED BY <2>1, <2>2, <2>3
  <1>4. ASSUME NEW i \in DOMAIN completed', NEW v \in DOMAIN current', Due(v)' # {}
        PROVE  completed'[i].arrival_order < p(v)
    <2>1. CASE v = w
      BY <1>1, <1>4, <2>1 DEF Latest
    <2>2. CASE v # w
      <3>1. Due(v) # {} /\ p(v) = c(v) /\ v \in DOMAIN current
        BY <1>1, <1>4, <2>2
      <3>2. CASE i \in DOMAIN completed /\ completed'[i] = completed[i]
        BY <3>1, <3>2 DEF DueInOrder
      <3>3. CASE Earliest(w) /\ completed'[i].arrival_order = current[w].arrival_order
        BY <2>2, <3>1, <3>3 DEF Earliest
      <3> QED BY <3>2, <3>3
    <2> QED BY <2>1, <2>2
  <1> QED BY <1>2, <1>3, <1>4 DEF DueInOrder
-----------------------------------------------------------------------------
LEMMA PostedKeptStay ==
  ASSUME PostedOnce, EndsStay, UNCHANGED <<workers, current, completed, posted>>, PoolType
  PROVE  PostedOnce'
  <1>1. \A v \in DOMAIN current : Gone(v)' = Gone(v)
    BY Parts DEF EndsStay
  <1> QED BY <1>1 DEF PostedOnce

\* What completes was not posted before, and what raises was.
LEMMA PostedKept ==
  ASSUME PostedOnce, PoolType, NEW w \in workers, NEW due, NEW gone,
         EndsBecome(w, due, gone),
         DOMAIN current' \ {w} = DOMAIN current \ {w},
         \A v \in DOMAIN current \ {w} : current'[v] = current[v],
         UNCHANGED <<completed, posted>> \/ \E now : EndsWork(w, now),
         \A l \in gone : l.cause = "raised" =>
           /\ UNCHANGED <<current, completed>>
           /\ \E i \in DOMAIN completed :
                /\ completed[i].payment_id = current[w].payment_id
                /\ completed[i].arrival_order < current[w].arrival_order
  PROVE  PostedOnce'
  <1>0. DOMAIN completed = 1..Len(completed) /\ Len(completed) \in Nat
    BY Parts
  <1>1. \A i \in DOMAIN completed : i \in DOMAIN completed' /\ completed'[i] = completed[i]
    <2>1. ASSUME NEW now, EndsWork(w, now)
          PROVE  \A i \in DOMAIN completed : i \in DOMAIN completed' /\ completed'[i] = completed[i]
      BY <1>0, <2>1 DEF EndsWork
    <2> QED BY <2>1
  <1>2. ASSUME NEW v \in DOMAIN current', NEW l \in Gone(v)', l.cause = "raised"
        PROVE  \E i \in DOMAIN completed' :
                 /\ completed'[i].payment_id = current'[v].payment_id
                 /\ completed'[i].arrival_order < current'[v].arrival_order
    <2>1. CASE v = w
      <3>1. l \in gone
        BY <2>1, <1>2 DEF EndsBecome
      <3> QED BY <2>1, <3>1, <1>2
    <2>2. CASE v # w
      <3>1. v \in DOMAIN current /\ v \in workers /\ current'[v] = current[v]
        BY <2>2, Parts
      <3>2. l \in Gone(v)
        BY <2>2, <3>1 DEF EndsBecome
      <3>3. PICK i \in DOMAIN completed :
              /\ completed[i].payment_id = current[v].payment_id
              /\ completed[i].arrival_order < current[v].arrival_order
        BY <3>1, <3>2, <1>2 DEF PostedOnce
      <3> QED BY <3>1, <3>3, <1>1
    <2> QED BY <2>1, <2>2
  <1>3. CASE UNCHANGED <<completed, posted>>
    BY <1>2, <1>3 DEF PostedOnce
  <1>4. ASSUME NEW now, EndsWork(w, now)
        PROVE  PostedOnce'
    <2> DEFINE n == Len(completed)
               new == Finished(w, now)
    <2>1. /\ DOMAIN completed' = 1..(n + 1) /\ n \in Nat
          /\ \A i \in 1..n : completed'[i] = completed[i]
          /\ completed'[n + 1] = new
          /\ posted' = Append(posted, current[w].payment_id)
          /\ current[w].payment_id \notin Range(posted)
          /\ new.payment_id = current[w].payment_id
      BY <1>0, <1>4 DEF EndsWork, Finished
    <2>2. /\ posted = [i \in 1..n |-> completed[i].payment_id]
          /\ posted \in Seq(PaymentIds)
      BY <1>0 DEF PostedOnce, PoolType
    <2> HIDE DEF n, new
    <2>3. Len(posted) = n /\ DOMAIN posted = 1..n
      BY <2>1, <2>2, LenProperties
    <2>4. \A i \in 1..n : completed[i].payment_id # new.payment_id
      BY <2>1, <2>2, <2>3 DEF Range
    <2>5. posted' = [i \in 1..(n + 1) |-> completed'[i].payment_id]
      <3>1. posted' = [i \in 1..(n + 1) |-> IF i <= n THEN posted[i] ELSE new.payment_id]
        BY <2>1, <2>2, <2>3
      <3>2. \A i \in 1..(n + 1) : /\ i <= n => posted[i] = completed'[i].payment_id
                                  /\ ~(i <= n) => new.payment_id = completed'[i].payment_id
        BY <2>1, <2>2
      <3> QED BY <3>1, <3>2
    <2>6. ASSUME NEW i \in 1..(n + 1), NEW j \in 1..(n + 1),
                 completed'[i].payment_id = completed'[j].payment_id
          PROVE  i = j
      <3>1. \A k \in 1..(n + 1) : k \in 1..n \/ k = n + 1
        BY <2>1
      <3>2. \A k \in 1..n, m \in 1..n : completed[k].payment_id = completed[m].payment_id => k = m
        BY <1>0 DEF PostedOnce, n
      <3> QED BY <3>1, <3>2, <2>1, <2>4, <2>6
    <2> QED BY <1>2, <2>1, <2>5, <2>6 DEF PostedOnce
  <1> QED BY <1>3, <1>4
-----------------------------------------------------------------------------
\* The first two parts of OnTime, about the scheduler.
Punctual == /\ jumped <= clock
            /\ jumped = 0 => /\ \A e \in queue : e.time >= clock
                             /\ \A l \in lost : l.cause = "raised"

LEMMA PunctualKept ==
  ASSUME SchedInv, OnTime, NEW now, NEW gone, NEW fresh, SchedStep(now, gone, fresh),
         \A g \in fresh : g.time \in Nat /\ g.time >= now,
         \A l \in lost' : l \in lost \/ l.cause = "raised" \/ jumped # 0
  PROVE  Punctual'
  <1>1. jumped' = jumped /\ clock' = now /\ clock <= now /\ now \in Nat /\ jumped <= clock
        /\ clock \in Nat /\ jumped \in Nat
    BY Schedule DEF SchedStep, OnTime
  <1>2. ASSUME jumped = 0, NEW e \in queue' PROVE e.time >= now
    <2>1. e \in fresh \/ e \in queue
      BY <1>2 DEF SchedStep
    <2>2. CASE e \in queue
      <3>1. e.time >= clock /\ e.time \in Nat
        BY <1>2, <2>2, Schedule DEF OnTime
      <3>2. now = clock \/ now <= e.time
        BY <2>2 DEF SchedStep
      <3> QED BY <1>1, <3>1, <3>2
    <2> QED BY <2>1, <2>2
  <1>3. \A l \in lost' : jumped = 0 => l.cause = "raised"
    BY DEF OnTime
  <1> QED BY <1>1, <1>2, <1>3 DEF Punctual

\* The rest of OnTime when the pool stands still.
LEMMA TimesStay ==
  ASSUME OnTime, PoolType, clock \in Nat, clock' \in Nat, clock <= clock', Punctual',
         UNCHANGED <<depthChanged, waiting, current, completed>>
  PROVE  OnTime'
  <1>1. /\ depthChanged \in Nat
        /\ \A w \in DOMAIN current : current[w].processing_started_at \in Nat
        /\ \A i \in DOMAIN completed : completed[i].completed_at \in Nat
    BY Parts DEF PoolType, Served, Done
  <1> QED BY <1>1 DEF OnTime, Punctual

LEMMA TimesJoin ==
  ASSUME OnTime, PoolType, clock \in Nat, NEW id, NEW w, NEW now \in Nat, clock' = now,
         clock <= now, Punctual', RecordDepth(now), Joins(id, now) \/ Starts(id, w, now)
  PROVE  OnTime'
  <1>1. /\ depthChanged \in Nat /\ depthChanged' = now
        /\ \A v \in DOMAIN current : current[v].processing_started_at \in Nat
        /\ \A i \in DOMAIN completed : completed[i].completed_at \in Nat
        /\ Len(waiting) \in Nat /\ DOMAIN waiting = 1..Len(waiting)
        /\ \A i \in DOMAIN waiting : waiting[i].queued_at \in Nat
    BY Parts DEF PoolType, Served, Done, Queued, RecordDepth
  <1>2. \A i \in DOMAIN waiting : waiting[i].queued_at <= now
    BY <1>1 DEF OnTime
  <1>3. \A i \in DOMAIN completed' :
          /\ completed'[i].completed_at = completed'[i].processing_started_at + ProcessingTime
          /\ completed'[i].completed_at <= now
    BY <1>1 DEF OnTime, Joins, Starts
  <1>4. CASE Joins(id, now)
    <2>1. \A i \in DOMAIN waiting' : waiting'[i].queued_at <= now
      <3>1. \A i \in DOMAIN waiting' : i \in DOMAIN waiting \/ i = Len(waiting) + 1
        BY <1>1, <1>4 DEF Joins
      <3>2. waiting'[Len(waiting) + 1].queued_at = now
        BY <1>4 DEF Joins, Newcomer
      <3> QED BY <1>1, <1>2, <1>4, <3>1, <3>2 DEF Joins
    <2>2. \A v \in DOMAIN current' : current'[v].processing_started_at <= now
      BY <1>1, <1>4 DEF Joins, OnTime
    <2> QED BY <1>1, <1>3, <2>1, <2>2 DEF OnTime, Punctual
  <1>5. CASE Starts(id, w, now)
    <2>1. DOMAIN waiting' = {}
      BY <1>5 DEF Starts
    <2>2. \A v \in DOMAIN current' : current'[v].processing_started_at <= now
      BY <1>1, <1>5 DEF Starts, OnTime, Taken
    <2> QED BY <1>1, <1>3, <2>1, <2>2 DEF OnTime, Punctual
  <1> QED BY <1>4, <1>5

LEMMA TimesEnd ==
  ASSUME OnTime, PoolType, clock \in Nat, NEW w, NEW now \in Nat, clock' = now,
         clock <= now, Punctual', Finishes(w, now) \/ MovesOn(w, now),
         now = current[w].processing_started_at + ProcessingTime
  PROVE  OnTime'
  <1>1. /\ depthChanged \in Nat /\ depthChanged <= clock
        /\ \A v \in DOMAIN current : current[v].processing_started_at \in Nat
        /\ \A i \in DOMAIN completed : completed[i].completed_at \in Nat
        /\ Len(waiting) \in Nat /\ DOMAIN waiting = 1..Len(waiting)
        /\ \A i \in DOMAIN waiting : waiting[i].queued_at \in Nat
        /\ Len(completed) \in Nat /\ DOMAIN completed = 1..Len(completed)
    BY Parts DEF PoolType, Served, Done, Queued, OnTime
  <1>2. \A i \in DOMAIN completed' :
          /\ completed'[i].completed_at = completed'[i].processing_started_at + ProcessingTime
          /\ completed'[i].completed_at <= now
    <2>1. EndsWork(w, now)
      BY DEF Finishes, MovesOn
    <2>2. \A i \in DOMAIN completed' : i \in DOMAIN completed \/ i = Len(completed) + 1
      BY <1>1, <2>1 DEF EndsWork
    <2>3. \A i \in DOMAIN completed : completed'[i] = completed[i]
      BY <1>1, <2>1 DEF EndsWork
    <2>4. /\ completed'[Len(completed) + 1].completed_at = now
          /\ completed'[Len(completed) + 1].processing_started_at
               = current[w].processing_started_at
      BY <2>1 DEF EndsWork, Finished
    <2>5. \A i \in DOMAIN completed :
            /\ completed[i].completed_at = completed[i].processing_started_at + ProcessingTime
            /\ completed[i].completed_at <= now
      BY <1>1 DEF OnTime
    <2> QED BY <2>2, <2>3, <2>4, <2>5
  <1>3. CASE Finishes(w, now)
    <2>1. DOMAIN waiting' = {} /\ depthChanged' <= now
      BY <1>1, <1>3 DEF Finishes
    <2>2. \A v \in DOMAIN current' : current'[v].processing_started_at <= now
      BY <1>1, <1>3 DEF Finishes, OnTime
    <2> QED BY <1>2, <2>1, <2>2 DEF OnTime, Punctual
  <1>4. CASE MovesOn(w, now)
    <2>1. depthChanged' = now
      BY <1>4 DEF MovesOn, RecordDepth
    <2>2. \A i \in DOMAIN waiting : waiting[i].queued_at <= now
      BY <1>1 DEF OnTime
    <2>3. \A i \in DOMAIN waiting' : waiting'[i].queued_at <= now
      <3>1. /\ DOMAIN waiting' = 1..(Len(waiting) - 1)
            /\ \A i \in 1..(Len(waiting) - 1) : waiting'[i] = waiting[i + 1]
        BY <1>4 DEF MovesOn
      <3>2. \A i \in 1..(Len(waiting) - 1) : i + 1 \in DOMAIN waiting
        BY <1>1
      <3> QED BY <2>2, <3>1, <3>2
    <2>4. \A v \in DOMAIN current' : current'[v].processing_started_at <= now
      <3>1. /\ DOMAIN current = workers /\ DOMAIN current' = workers
            /\ \A v \in workers \ {w} : current'[v] = current[v]
            /\ current'[w].processing_started_at = now
        BY <1>4 DEF MovesOn, Taken
      <3>2. \A v \in workers : current[v].processing_started_at <= now
        BY <1>1, <3>1 DEF OnTime
      <3> QED BY <3>1, <3>2
    <2> QED BY <1>2, <2>1, <2>3, <2>4 DEF OnTime, Punctual
  <1> QED BY <1>3, <1>4
-----------------------------------------------------------------------------
(***************************************************************************)
(* The steps.                                                              *)
(***************************************************************************)
LEMMA InvParts ==
  Inv <=> /\ SchedInv /\ PoolType /\ LineInOrder /\ TakenInOrder
          /\ OneEnd /\ DueInOrder /\ PostedOnce /\ OnTime
  BY DEF Inv

\* The payment of the last arrival that is taken comes after all the others, and
\* so does its completion.
LEMMA NewIsLatest ==
  ASSUME SchedInv, PoolType, OnTime, OneEnd, LineInOrder, TakenInOrder,
         NEW now \in Nat, clock <= now, NEW w \in workers,
         DOMAIN current' \ {w} = DOMAIN current \ {w},
         \A v \in DOMAIN current \ {w} : current'[v] = current[v],
         current'[w].arrival_order = Left,
         \A i \in DOMAIN completed' : completed'[i].arrival_order < Left
  PROVE  Latest(w, {DueAt(w, now)})
  <1>1. ASSUME NEW v \in DOMAIN current \ {w}, NEW e \in Due(v)
        PROVE  Sched!Before(e, DueAt(w, now))
    <2>1. /\ e.time = current[v].processing_started_at + ProcessingTime
          /\ e \in queue /\ v \in workers
      BY Parts DEF OneEnd, Due
    <2>2. e.order < nextOrder /\ e.order \in Nat /\ nextOrder \in Nat /\ clock \in Nat
      BY <2>1, Schedule
    <2>3. current[v].processing_started_at <= clock /\ current[v].processing_started_at \in Nat
      BY Parts DEF OnTime, Served
    <2>4. e.time <= now + ProcessingTime
      BY <2>1, <2>2, <2>3, PoolInputs
    <2>5. e.time \in Nat
      BY <2>1, Schedule
    <2> QED BY <2>2, <2>4, <2>5, PoolInputs DEF DueAt, Sched!Before
  <1>2. \A v \in DOMAIN current \ {w} : current[v].arrival_order < Left
    BY DEF TakenInOrder
  <1> QED BY <1>1, <1>2 DEF Latest

\* What a step does to the pool: nothing, an arrival, or the end of the earliest
\* work that is due.  A stuck worker stays stuck.
Moves ==
  /\ Stuck \subseteq Stuck' /\ clock <= clock'
  /\ \/ UNCHANGED poolVars
     \/ \E id \in PaymentIds, now \in Nat :
          /\ clock' = now /\ RecordDepth(now)
          /\ Joins(id, now) \/ \E w \in workers : Starts(id, w, now)
     \/ \E w \in DOMAIN current, now \in Nat :
          /\ clock' = now /\ Earliest(w)
          /\ Finishes(w, now) \/ MovesOn(w, now)
          /\ now = current[w].processing_started_at + ProcessingTime

LEMMA StuckStays ==
  ASSUME PoolType, EndsStay, current' = current
  PROVE  Stuck \subseteq Stuck'
  <1>1. ASSUME NEW v \in Stuck PROVE v \in Stuck'
    <2>1. v \in DOMAIN current /\ v \in workers /\ Due(v) = {}
      BY Parts DEF Stuck
    <2> QED BY <2>1 DEF Stuck, EndsStay
  <1> QED BY <1>1

LEMMA StuckKept ==
  ASSUME PoolType, NEW w, NEW due, NEW gone, EndsBecome(w, due, gone), w \notin Stuck,
         DOMAIN current' \ {w} = DOMAIN current \ {w}
  PROVE  Stuck \subseteq Stuck'
  <1>1. ASSUME NEW v \in Stuck PROVE v \in Stuck'
    <2>1. v \in DOMAIN current /\ v \in workers /\ Due(v) = {} /\ v # w
      BY Parts DEF Stuck
    <2>2. Due(v)' = {} /\ v \in DOMAIN current'
      BY <2>1 DEF EndsBecome
    <2> QED BY <2>2 DEF Stuck
  <1> QED BY <1>1

LEMMA ArrivalStep ==
  ASSUME Inv, PoolType', SchedInv', NEW id \in PaymentIds, NEW now \in Nat,
         RecordDepth(now), NEW gone, NoCompletion(gone), NEW fresh,
         SchedStep(now, gone, fresh), lost' = lost,
         \/ Joins(id, now) /\ fresh = {}
         \/ \E w \in workers : Starts(id, w, now) /\ fresh = {DueAt(w, now)}
  PROVE  Inv' /\ Moves
  <1>0. /\ SchedInv /\ PoolType /\ LineInOrder /\ TakenInOrder /\ OneEnd /\ DueInOrder
        /\ PostedOnce /\ OnTime /\ clock \in Nat /\ clock' = now /\ clock <= now
    BY Schedule DEF Inv, SchedStep
  <1>1. LineInOrder'
    BY <1>0, LineKept
  <1>2. \A g \in fresh : g.time \in Nat /\ g.time >= now
    BY PoolInputs DEF DueAt
  <1>3. Punctual'
    BY <1>0, <1>2, PunctualKept
  <1>4. OnTime'
    BY <1>0, <1>3, TimesJoin
  <1>5. ASSUME Joins(id, now), fresh = {} PROVE Inv' /\ Moves
    <2>1. UNCHANGED <<workers, current, completed, posted>>
      BY <1>5 DEF Joins
    <2>2. NoCompletion(fresh)
      BY <1>5 DEF NoCompletion
    <2>3. EndsStay
      BY <1>0, <2>2, QuietEnds
    <2>4. OneEnd' /\ DueInOrder' /\ PostedOnce'
      BY <1>0, <2>1, <2>3, EndsKeptStay, OrderKeptStay, PostedKeptStay
    <2>5. Left' = Left
      BY <1>0, <1>5, Parts DEF Joins, Left
    <2>6. TakenInOrder'
      BY <1>0, <2>1, <2>5 DEF TakenInOrder
    <2>7. Stuck \subseteq Stuck'
      BY <1>0, <2>1, <2>3, StuckStays
    <2> QED BY <1>0, <1>1, <1>4, <1>5, <2>4, <2>6, <2>7 DEF Inv, Moves
  <1>6. ASSUME NEW w \in workers, Starts(id, w, now), fresh = {DueAt(w, now)}
        PROVE  Inv' /\ Moves
    <2>1. /\ w \notin DOMAIN current /\ workers' = workers
          /\ DOMAIN current' = DOMAIN current \cup {w}
          /\ \A v \in DOMAIN current \ {w} : current'[v] = current[v]
          /\ UNCHANGED <<completed, posted>> /\ Left = nextArrival
          /\ current'[w].arrival_order = nextArrival
          /\ current'[w].processing_started_at = now
      BY <1>0, <1>6, Parts DEF Starts, Left, Taken, Newcomer
    <2>2. EndsBecome(w, {DueAt(w, now)}, {})
      BY <1>0, <1>6, <2>1, StartEnds
    <2>3. TakenInOrder'
      BY <1>0, <1>6, TakenKeptStarts
    <2>4. DOMAIN current' \ {w} = DOMAIN current \ {w}
      BY <2>1
    <2>5. Latest(w, {DueAt(w, now)})
      <3>1. \A i \in DOMAIN completed' : completed'[i].arrival_order < Left
        BY <1>0, <2>1 DEF TakenInOrder
      <3>2. current'[w].arrival_order = Left
        BY <2>1
      <3> QED BY <1>0, <2>1, <2>4, <3>1, <3>2, NewIsLatest
    <2>6. DueInOrder'
      <3>1. w \in DOMAIN current' /\ Latest(w, {DueAt(w, now)}) /\ \E e : {DueAt(w, now)} = {e}
        BY <2>1, <2>5
      <3> QED BY <1>0, <2>1, <2>2, <2>4, <3>1, OrderKept
    <2>7. OneEnd'
      <3>1. DueAt(w, now).time = current'[w].processing_started_at + ProcessingTime
        BY <2>1 DEF DueAt
      <3>2. w \in DOMAIN current'
        BY <2>1
      <3> QED BY <1>0, <2>1, <2>2, <2>4, <3>1, <3>2, EndsKept
    <2>8. PostedOnce'
      BY <1>0, <2>1, <2>2, <2>4, PostedKept
    <2>9. Stuck \subseteq Stuck'
      BY <1>0, <2>1, <2>2, <2>4, StuckKept DEF Stuck
    <2>10. Moves
      BY <1>0, <1>6, <2>9 DEF Moves
    <2> QED BY <1>1, <1>4, <2>3, <2>6, <2>7, <2>8, <2>10 DEF Inv
  <1> QED BY <1>5, <1>6

LEMMA CompletionStep ==
  ASSUME Inv, PoolType', SchedInv', NEW w, NEW e \in queue,
         e.callback = <<"complete", w>>, NEW fresh,
         SchedStep(e.time, {e}, fresh), \A f \in queue \ {e} : Sched!Before(e, f),
         lost' = lost,
         \/ Finishes(w, e.time) /\ fresh = {}
         \/ MovesOn(w, e.time) /\ fresh = {DueAt(w, e.time)}
  PROVE  Inv' /\ Moves
  <1> DEFINE now == e.time
  <1>0. /\ SchedInv /\ PoolType /\ LineInOrder /\ TakenInOrder /\ OneEnd /\ DueInOrder
        /\ PostedOnce /\ OnTime /\ clock \in Nat /\ clock' = now /\ clock <= now /\ now \in Nat
    BY Schedule DEF Inv, SchedStep
  <1>1. LineInOrder'
    BY <1>0, LineKept
  <1>2. \A g \in fresh : g.time \in Nat /\ g.time >= now
    BY <1>0, PoolInputs DEF DueAt
  <1>3. Punctual'
    BY <1>0, <1>2, PunctualKept
  <1>4. /\ w \in workers /\ w \in DOMAIN current /\ Due(w) = {e}
        /\ EndsBecome(w, fresh, {})
    <2>1. fresh \in {{}, {DueAt(w, e.time)}}
      OBVIOUS
    <2> QED BY <1>0, <2>1, CompletionEnds
  <1>5. now = current[w].processing_started_at + ProcessingTime
    BY <1>0, <1>4 DEF OneEnd
  <1> HIDE DEF now
  <1>6. OnTime'
    BY <1>0, <1>3, <1>5, TimesEnd DEF now
  <1>7. /\ Earliest(w)
        /\ \A i \in DOMAIN completed : completed[i].arrival_order < current[w].arrival_order
    BY <1>0, <1>4, LeastDue
  <1>8. TakenInOrder'
    BY <1>0, <1>7, TakenKeptEnds
  <1>9. EndsWork(w, e.time)
    BY DEF Finishes, MovesOn
  <1>10. workers' = workers
    BY <1>9 DEF EndsWork
  <1>11. \A i \in DOMAIN completed' :
           \/ i \in DOMAIN completed /\ completed'[i] = completed[i]
           \/ completed'[i].arrival_order = current[w].arrival_order
    <2>1. \A i \in DOMAIN completed' : i \in 1..Len(completed) \/ i = Len(completed) + 1
      BY <1>0, <1>9, Parts DEF EndsWork
    <2> QED BY <1>0, <1>9, <2>1, Parts DEF EndsWork, Finished
  <1>12. /\ DOMAIN current' \ {w} = DOMAIN current \ {w}
         /\ \A v \in DOMAIN current \ {w} : current'[v] = current[v]
    BY DEF Finishes, MovesOn
  <1>13. PostedOnce'
    BY <1>0, <1>4, <1>9, <1>12, PostedKept
  <1>m. Moves
    <2>1. w \notin Stuck
      BY <1>4 DEF Stuck
    <2>2. Stuck \subseteq Stuck'
      BY <1>0, <1>4, <1>12, <2>1, StuckKept
    <2> QED BY <1>0, <1>4, <1>5, <1>7, <2>2 DEF Moves, now
  <1>14. ASSUME Finishes(w, e.time), fresh = {} PROVE Inv'
    <2>1. w \notin DOMAIN current' /\ EndsBecome(w, {}, {})
      BY <1>4, <1>14 DEF Finishes
    <2>2. OneEnd'
      BY <1>0, <1>4, <1>10, <1>12, <2>1, EndsKept
    <2>3. DueInOrder'
      BY <1>0, <1>4, <1>7, <1>11, <1>12, <2>1, OrderKept
    <2> QED BY <1>1, <1>6, <1>8, <1>13, <2>2, <2>3 DEF Inv
  <1>15. ASSUME MovesOn(w, e.time), fresh = {DueAt(w, e.time)} PROVE Inv'
    <2>1. /\ w \in DOMAIN current' /\ EndsBecome(w, {DueAt(w, now)}, {})
          /\ current'[w] = Taken(waiting[1], now) /\ waiting # <<>>
      BY <1>4, <1>15 DEF MovesOn, now
    <2>2. OneEnd'
      <3>1. DueAt(w, now).time = current'[w].processing_started_at + ProcessingTime
        BY <2>1 DEF DueAt, Taken
      <3> QED BY <1>0, <1>4, <1>10, <1>12, <2>1, <3>1, EndsKept
    <2>3. current'[w].arrival_order = Left
      <3>1. Left \in Nat
        BY <1>0 DEF LineInOrder
      <3>2. 1 \in DOMAIN waiting
        <4>1. DOMAIN waiting = 1..Len(waiting) /\ Len(waiting) \in Nat
          BY <1>0, Parts
        <4>2. Len(waiting) # 0
          BY <1>0, <2>1, EmptySeq DEF PoolType
        <4> QED BY ONLY <4>1, <4>2
      <3>3. waiting[1].arrival_order = Left + 1 - 1
        BY <1>0, <3>2 DEF LineInOrder
      <3>4. waiting[1].arrival_order = Left
        BY ONLY <3>1, <3>3
      <3> QED BY <2>1, <3>4 DEF Taken
    <2>4. \A i \in DOMAIN completed' : completed'[i].arrival_order < Left
      BY <1>0, <1>4, <1>11 DEF TakenInOrder
    <2>5. Latest(w, {DueAt(w, now)})
      BY <1>0, <1>4, <1>12, <2>3, <2>4, NewIsLatest
    <2>6. DueInOrder'
      <3>1. w \in DOMAIN current' /\ Latest(w, {DueAt(w, now)}) /\ \E f : {DueAt(w, now)} = {f}
        BY <2>1, <2>5
      <3> QED BY <1>0, <1>4, <1>7, <1>11, <1>12, <2>1, <3>1, OrderKept
    <2> QED BY <1>1, <1>6, <1>8, <1>13, <2>2, <2>6 DEF Inv
  <1> QED BY <1>14, <1>15, <1>m

LEMMA LostStep ==
  ASSUME Inv, SchedInv', NEW w, NEW e \in queue, e.callback = <<"complete", w>>,
         NEW now, SchedStep(now, {e}, {}), \A f \in queue \ {e} : Sched!Before(e, f),
         UNCHANGED poolVars, NEW cause, lost' = lost \cup {[event |-> e, cause |-> cause]},
         \/ cause = "raised" /\ ~WorkReturns(w)
         \/ cause = "overdue" /\ e.time < clock
  PROVE  Inv' /\ Moves
  <1>0. /\ SchedInv /\ PoolType /\ LineInOrder /\ TakenInOrder /\ OneEnd /\ DueInOrder
        /\ PostedOnce /\ OnTime /\ clock \in Nat /\ clock' = now /\ clock <= now /\ now \in Nat
        /\ clock' \in Nat
    BY Schedule DEF Inv, SchedStep
  <1>1. /\ UNCHANGED <<depthChanged, waiting, current, completed, workers, posted>>
        /\ PoolType' /\ LineInOrder' /\ TakenInOrder'
    BY <1>0 DEF poolVars, PoolType, LineInOrder, TakenInOrder, Left
  <1> DEFINE l == [event |-> e, cause |-> cause]
  <1>2. /\ w \in workers /\ w \in DOMAIN current /\ Due(w) = {e}
        /\ EndsBecome(w, {}, {l})
    BY <1>0, LostEnds
  <1>3. cause = "overdue" => jumped # 0
    BY <1>0, Schedule DEF OnTime
  <1>4. Punctual'
    <2>1. l.cause = cause
      OBVIOUS
    <2>2. \A m \in lost' : m \in lost \/ m.cause = "raised" \/ jumped # 0
      BY <1>3, <2>1
    <2> QED BY <1>0, <2>2, PunctualKept
  <1>5. OnTime'
    BY <1>0, <1>1, <1>4, TimesStay
  <1>6. /\ Earliest(w)
        /\ \A i \in DOMAIN completed : completed[i].arrival_order < current[w].arrival_order
    BY <1>0, <1>2, LeastDue
  <1>7. OneEnd'
    <2>1. \E m : {l} = {m}
      OBVIOUS
    <2> HIDE DEF l
    <2> QED BY <1>0, <1>1, <1>2, <2>1, EndsKept
  <1>8. DueInOrder'
    BY <1>0, <1>1, <1>2, <1>6, OrderKept
  <1>9. PostedOnce'
    <2>1. ASSUME cause = "raised"
          PROVE  \E i \in DOMAIN completed :
                   /\ completed[i].payment_id = current[w].payment_id
                   /\ completed[i].arrival_order < current[w].arrival_order
      <3>1. current[w].payment_id \in Range(posted)
        BY <1>2, <2>1 DEF WorkReturns
      <3> QED BY <1>0, <1>6, <3>1 DEF PostedOnce, Range
    <2>2. l.cause = cause
      OBVIOUS
    <2> HIDE DEF l
    <2> QED BY <1>0, <1>1, <1>2, <2>1, <2>2, PostedKept
  <1>10. Stuck \subseteq Stuck'
    <2>1. w \notin Stuck
      BY <1>2 DEF Stuck
    <2>2. DOMAIN current' \ {w} = DOMAIN current \ {w}
      BY <1>1
    <2> HIDE DEF l
    <2> QED BY <1>0, <1>2, <2>1, <2>2, StuckKept
  <1> QED BY <1>0, <1>1, <1>5, <1>7, <1>8, <1>9, <1>10 DEF Inv, Moves

LEMMA QuietStep ==
  ASSUME Inv, SchedInv', clock <= clock', Punctual', EndsStay, UNCHANGED poolVars
  PROVE  Inv' /\ Moves
  <1>0. /\ SchedInv /\ PoolType /\ LineInOrder /\ TakenInOrder /\ OneEnd /\ DueInOrder
        /\ PostedOnce /\ OnTime /\ clock \in Nat
    BY Schedule DEF Inv
  <1>1. clock' \in Nat
    BY DEF SchedInv, Sched!TypeOK
  <1>2. /\ UNCHANGED <<depthChanged, waiting, current, completed, workers, posted>>
        /\ PoolType' /\ LineInOrder' /\ TakenInOrder'
    BY <1>0 DEF poolVars, PoolType, LineInOrder, TakenInOrder, Left
  <1>3. OnTime'
    BY <1>0, <1>1, <1>2, TimesStay
  <1>4. OneEnd' /\ DueInOrder' /\ PostedOnce'
    BY <1>0, <1>2, EndsKeptStay, OrderKeptStay, PostedKeptStay
  <1>5. Stuck \subseteq Stuck'
    BY <1>0, <1>2, StuckStays
  <1> QED BY <1>2, <1>3, <1>4, <1>5 DEF Inv, Moves
-----------------------------------------------------------------------------
\* The payment that comes next is one of the workload's.
LEMMA NextIdType ==
  ASSUME SchedInv, PoolType, MayArrive
  PROVE  NextId \in PaymentIds
  <1> DEFINE Of(l) == l.event
             S == {e \in queue \cup {Of(l) : l \in lost} : e.callback[1] = "arrive"}
  <1>1. IsFiniteSet({Of(l) : l \in lost})
    <2> DEFINE f == [l \in lost |-> Of(l)]
               T == {Of(l) : l \in lost}
    <2>1. f \in Surjection(lost, T)
      BY DEF Surjection
    <2> HIDE DEF f, T
    <2>2. IsFiniteSet(T)
      BY <2>1, FS_Surjection DEF SchedInv
    <2> QED BY <2>2 DEF T
  <1>2. IsFiniteSet(S)
    BY <1>1, FS_Union, FS_Subset DEF SchedInv
  <1>3. Cardinality(S) \in Nat
    BY <1>2, FS_CardinalityType
  <1>4. Submitted \in Nat
    BY <1>3 DEF Submitted, PoolType
  <1>5. workload \in Seq(PaymentIds)
    BY WorkloadsAreLists DEF PoolType
  <1> QED BY <1>4, <1>5, LenProperties, ElementOfSeq DEF MayArrive, NextId

LEMMA EnqueueStep ==
  ASSUME Inv, enqueue
  PROVE  Inv' /\ Moves
  <1> DEFINE due == Completions(Arrived(NextId, clock), current, clock)
             id == NextId
  <1>0. SchedInv /\ PoolType /\ OnTime /\ clock \in Nat
    BY Schedule DEF Inv
  <1>1. id \in PaymentIds
    BY <1>0, NextIdType DEF enqueue
  <1>2. /\ EnqueueAt(id, clock)
        /\ IF due = <<>> THEN UNCHANGED schedVars
                         ELSE Sched!ScheduleAt(due[1].time, due[1].callback)
    BY DEF enqueue
  <1> HIDE DEF id
  <1>3. /\ PoolType' /\ RecordDepth(clock)
        /\ \E fresh :
             /\ Pushes(Completions(Arrived(id, clock), current, clock), fresh, clock)
             /\ \/ Joins(id, clock) /\ fresh = {}
                \/ \E w \in workers : Starts(id, w, clock) /\ fresh = {DueAt(w, clock)}
    <2>1. clock <= clock
      BY <1>0
    <2> QED BY <1>0, <1>1, <1>2, <2>1, EnqueueEffect
  <1>4. PICK fresh :
          /\ Pushes(due, fresh, clock)
          /\ \/ Joins(id, clock) /\ fresh = {}
             \/ \E w \in workers : Starts(id, w, clock) /\ fresh = {DueAt(w, clock)}
    BY <1>3 DEF id
  <1> HIDE DEF due
  <1>5. SchedInv' /\ SchedStep(clock, {}, fresh) /\ lost' = lost
    <2>1. CASE due = <<>> /\ fresh = {}
      <3>1. UNCHANGED schedVars
        BY <1>2, <2>1
      <3>2. SchedInv'
        BY <1>0, <3>1 DEF schedVars, SchedInv, Sched!TypeOK
      <3> QED BY <1>0, <2>1, <3>1, <3>2 DEF schedVars, SchedStep
    <2>2. ASSUME NEW w \in workers,
                 due = <<[time |-> clock + ProcessingTime, callback |-> <<"complete", w>>]>>,
                 fresh = {DueAt(w, clock)}
          PROVE  SchedInv' /\ SchedStep(clock, {}, fresh) /\ lost' = lost
      <3>1. /\ due # <<>> /\ due[1].time = clock + ProcessingTime
            /\ due[1].callback = <<"complete", w>>
        BY <2>2
      <3>2. Sched!ScheduleAt(clock + ProcessingTime, <<"complete", w>>)
        BY <1>2, <3>1
      <3>3. DueAt(w, clock) \in Sched!Event
        BY <1>0, DueIsEvent
      <3>4. <<"complete", w>> \in Callback /\ clock + ProcessingTime \in Nat
        BY <3>3, <1>0, PoolInputs DEF DueAt, Sched!Event
      <3> QED BY <1>0, <2>2, <3>2, <3>4, ScheduleEffect DEF DueAt
    <2> QED BY <1>4, <2>1, <2>2 DEF Pushes
  <1>6. NoCompletion({})
    BY DEF NoCompletion
  <1> QED BY <1>0, <1>1, <1>3, <1>4, <1>5, <1>6, ArrivalStep

LEMMA ScheduleStep ==
  ASSUME Inv, NEW time \in 0..MaxArrivalTime, ScheduleArrival(time)
  PROVE  Inv' /\ Moves
  <1>0. SchedInv /\ PoolType /\ OnTime /\ OneEnd /\ clock \in Nat
    BY Schedule DEF Inv
  <1>1. time \in Nat /\ <<"arrive", NextId>> \in Callback
    BY <1>0, PoolInputs, NextIdType DEF ScheduleArrival, Callback
  <1>2. /\ SchedInv' /\ lost' = lost /\ clock <= time
        /\ SchedStep(clock, {}, {[time |-> time, order |-> nextOrder,
                                  callback |-> <<"arrive", NextId>>]})
    BY <1>0, <1>1, ScheduleEffect DEF ScheduleArrival
  <1> DEFINE e == [time |-> time, order |-> nextOrder, callback |-> <<"arrive", NextId>>]
  <1>3. NoCompletion({e}) /\ NoCompletion({}) /\ e.time \in Nat /\ e.time >= clock
    BY <1>0, <1>1, <1>2 DEF NoCompletion
  <1> HIDE DEF e
  <1>4. SchedStep(clock, {}, {e})
    BY <1>2 DEF e
  <1>5. EndsStay
    BY <1>0, <1>2, <1>3, <1>4, QuietEnds
  <1>6. Punctual'
    BY <1>0, <1>2, <1>3, <1>4, PunctualKept
  <1>7. clock <= clock' /\ UNCHANGED poolVars
    BY <1>0, <1>4 DEF SchedStep, ScheduleArrival
  <1> QED BY <1>2, <1>5, <1>6, <1>7, QuietStep

LEMMA JumpStep ==
  ASSUME Inv, NEW time \in JumpTimes, Jump(time)
  PROVE  Inv' /\ Moves
  <1>0. SchedInv /\ PoolType /\ OnTime /\ OneEnd /\ clock \in Nat
    BY Schedule DEF Inv
  <1>1. /\ time \in Nat /\ clock <= time /\ clock' = time /\ jumped' = time
        /\ UNCHANGED <<queue, nextOrder, history, lost>> /\ UNCHANGED poolVars
    BY <1>0 DEF Jump, Sched!AdvanceTo
  <1>2. SchedInv'
    BY <1>0, <1>1 DEF SchedInv, Sched!TypeOK
  <1>3. workers' = workers
    BY <1>1 DEF poolVars
  <1>4. EndsStay
    BY <1>0, <1>1, <1>3 DEF EndsStay, Due, Gone, OneEnd
  <1>5. Punctual'
    <2>1. \A l \in lost' : jumped' = 0 => l.cause = "raised"
      BY <1>0, <1>1, Schedule DEF OnTime
    <2>2. \A e \in queue' : jumped' = 0 => e.time >= clock'
      BY <1>0, <1>1, Schedule
    <2> QED BY <1>1, <2>1, <2>2 DEF Punctual
  <1> QED BY <1>1, <1>2, <1>4, <1>5, QuietStep

LEMMA RunArrivalStep ==
  ASSUME Inv, NEW e \in queue, RunArrival(e)
  PROVE  Inv' /\ Moves
  <1> DEFINE id == e.callback[2]
             now == e.time
  <1>0. SchedInv /\ PoolType /\ OnTime /\ clock \in Nat
    BY Schedule DEF Inv
  <1>1. id \in PaymentIds /\ now \in Nat /\ clock <= now /\ e.callback[1] = "arrive"
    BY <1>0, Kinds, Schedule DEF RunArrival, Sched!RunEvent
  <1>2. EnqueueAt(id, now) /\ Sched!RunEvent(e, Completions(Arrived(id, now), current, now), TRUE)
    BY DEF RunArrival
  <1> HIDE DEF id, now
  <1>3. /\ PoolType' /\ RecordDepth(now)
        /\ \E fresh :
             /\ Pushes(Completions(Arrived(id, now), current, now), fresh, now)
             /\ \/ Joins(id, now) /\ fresh = {}
                \/ \E w \in workers : Starts(id, w, now) /\ fresh = {DueAt(w, now)}
    BY <1>0, <1>1, <1>2, EnqueueEffect
  <1>4. PICK fresh :
          /\ Pushes(Completions(Arrived(id, now), current, now), fresh, now)
          /\ \/ Joins(id, now) /\ fresh = {}
             \/ \E w \in workers : Starts(id, w, now) /\ fresh = {DueAt(w, now)}
    BY <1>3
  <1>5. SchedInv' /\ SchedStep(now, {e}, fresh) /\ lost' = lost
    BY <1>0, <1>2, <1>4, RunEffect DEF now
  <1>6. NoCompletion({e})
    BY <1>1 DEF NoCompletion
  <1> QED BY <1>0, <1>1, <1>3, <1>4, <1>5, <1>6, ArrivalStep

LEMMA RunCompleteStep ==
  ASSUME Inv, NEW e \in queue, RunComplete(e)
  PROVE  Inv' /\ Moves
  <1> DEFINE w == e.callback[2]
             now == e.time
  <1>0. SchedInv /\ PoolType /\ OnTime /\ clock \in Nat
    BY Schedule DEF Inv
  <1>1. /\ now \in Nat /\ clock <= now /\ e.callback = <<"complete", w>>
    BY <1>0, Kinds, Schedule DEF RunComplete, Sched!RunEvent
  <1>2. /\ Completes(w, now)
        /\ Sched!RunEvent(e, Completions(waiting, Others(w), now), TRUE)
    BY DEF RunComplete, Completes
  <1> HIDE DEF w, now
  <1>3. /\ PoolType'
        /\ \E fresh :
             /\ Pushes(Completions(waiting, Others(w), now), fresh, now)
             /\ \/ Finishes(w, now) /\ fresh = {}
                \/ MovesOn(w, now) /\ fresh = {DueAt(w, now)}
    BY <1>0, <1>1, <1>2, CompleteEffect
  <1>4. PICK fresh :
          /\ Pushes(Completions(waiting, Others(w), now), fresh, now)
          /\ \/ Finishes(w, now) /\ fresh = {}
             \/ MovesOn(w, now) /\ fresh = {DueAt(w, now)}
    BY <1>3
  <1>5. /\ SchedInv' /\ SchedStep(e.time, {e}, fresh) /\ lost' = lost
        /\ \A f \in queue \ {e} : Sched!Before(e, f)
    BY <1>0, <1>2, <1>4, RunEffect DEF now
  <1>6. \/ Finishes(w, e.time) /\ fresh = {}
        \/ MovesOn(w, e.time) /\ fresh = {DueAt(w, e.time)}
    BY <1>4 DEF now
  <1> QED BY <1>1, <1>3, <1>5, <1>6, CompletionStep

LEMMA RunRaisesStep ==
  ASSUME Inv, NEW e \in queue, RunCompleteRaises(e)
  PROVE  Inv' /\ Moves
  <1>0. SchedInv /\ PoolType
    BY DEF Inv
  <1>1. /\ e.callback = <<"complete", e.callback[2]>> /\ ~WorkReturns(e.callback[2])
        /\ Sched!RunEvent(e, <<>>, FALSE) /\ UNCHANGED poolVars
    BY <1>0, Kinds DEF RunCompleteRaises
  <1>2. Pushes(<<>>, {}, e.time)
    BY DEF Pushes
  <1>3. /\ SchedInv' /\ SchedStep(e.time, {e}, {})
        /\ \A f \in queue \ {e} : Sched!Before(e, f)
        /\ lost' = lost \cup {[event |-> e, cause |-> "raised"]}
    BY <1>0, <1>1, <1>2, RunEffect
  <1> QED BY <1>1, <1>3, LostStep

LEMMA DropStep ==
  ASSUME Inv, NEW e \in queue, Sched!DropOverdue(e), UNCHANGED poolVars
  PROVE  Inv' /\ Moves
  <1>0. SchedInv /\ PoolType /\ OnTime /\ OneEnd /\ clock \in Nat
    BY Schedule DEF Inv
  <1>1. /\ SchedInv' /\ SchedStep(clock, {e}, {}) /\ e.time < clock
        /\ \A f \in queue \ {e} : Sched!Before(e, f)
        /\ lost' = lost \cup {[event |-> e, cause |-> "overdue"]}
    BY <1>0, DropEffect
  <1>2. CASE e.callback = <<"complete", e.callback[2]>>
    BY <1>1, <1>2, LostStep
  <1>3. CASE e.callback[1] = "arrive"
    <2>1. NoCompletion({e}) /\ NoCompletion({})
      BY <1>3 DEF NoCompletion
    <2>2. /\ lost \subseteq lost' /\ \A l \in lost' : l \in lost \/ l.event \in {e}
          /\ jumped # 0
      BY <1>0, <1>1, Schedule DEF OnTime
    <2>3. EndsStay
      BY <1>0, <1>1, <2>1, <2>2, QuietEnds
    <2>4. Punctual'
      BY <1>0, <1>1, <2>2, PunctualKept
    <2>5. clock <= clock'
      BY <1>0, <1>1 DEF SchedStep
    <2> QED BY <1>1, <2>3, <2>4, <2>5, QuietStep
  <1> QED BY <1>0, <1>2, <1>3, Kinds

LEMMA InvInit == Init => Inv
  <1> SUFFICES ASSUME Init PROVE Inv
    OBVIOUS
  <1>1. /\ clock = 0 /\ queue = {} /\ nextOrder = 0 /\ history = <<>> /\ lost = {}
        /\ jumped = 0 /\ workload \in Workloads /\ current = <<>> /\ waiting = <<>>
        /\ completed = <<>> /\ nextArrival = 0 /\ depthArea = 0 /\ depthChanged = 0
        /\ posted = <<>> /\ busyTime = [w \in workers |-> 0]
        /\ \E n \in WorkerCounts : workers = 1..n
    BY DEF Init, Sched!Init
  <1>2. SchedInv
    BY <1>1, FS_EmptySet DEF SchedInv, Sched!TypeOK
  <1>3. PoolType
    BY <1>1 DEF PoolType
  <1>4. DOMAIN current = {} /\ Cardinality(DOMAIN current) = 0 /\ Left = 0
    <2>1. DOMAIN current = {} /\ Len(waiting) = 0
      BY <1>1
    <2>2. Cardinality({}) = 0
      BY FS_EmptySet
    <2>3. Cardinality(DOMAIN current) = 0
      BY <2>1, <2>2
    <2>4. nextArrival = 0
      BY <1>1
    <2> QED BY <2>1, <2>3, <2>4 DEF Left
  <1>5. LineInOrder /\ TakenInOrder
    BY <1>1, <1>4 DEF LineInOrder, TakenInOrder
  <1>6. OneEnd /\ DueInOrder /\ PostedOnce /\ OnTime
    BY <1>1, <1>4 DEF OneEnd, DueInOrder, PostedOnce, OnTime, Due, Gone
  <1> QED BY <1>2, <1>3, <1>5, <1>6 DEF Inv

LEMMA InvStep == Inv /\ [Next]_vars => Inv' /\ Moves
  <1> SUFFICES ASSUME Inv, [Next]_vars PROVE Inv' /\ Moves
    OBVIOUS
  <1>1. CASE enqueue
    BY <1>1, EnqueueStep
  <1>2. ASSUME NEW time \in 0..MaxArrivalTime, ScheduleArrival(time) PROVE Inv' /\ Moves
    BY <1>2, ScheduleStep
  <1>3. ASSUME NEW time \in JumpTimes, Jump(time) PROVE Inv' /\ Moves
    BY <1>3, JumpStep
  <1>4. ASSUME NEW e \in queue, RunArrival(e) PROVE Inv' /\ Moves
    BY <1>4, RunArrivalStep
  <1>5. ASSUME NEW e \in queue, RunComplete(e) PROVE Inv' /\ Moves
    BY <1>5, RunCompleteStep
  <1>6. ASSUME NEW e \in queue, RunCompleteRaises(e) PROVE Inv' /\ Moves
    BY <1>6, RunRaisesStep
  <1>7. ASSUME NEW e \in queue, Sched!DropOverdue(e), UNCHANGED poolVars PROVE Inv' /\ Moves
    BY <1>7, DropStep
  <1>8. CASE UNCHANGED vars
    <2>0. SchedInv /\ OnTime /\ clock \in Nat
      BY Schedule DEF Inv
    <2>1. UNCHANGED schedVars /\ UNCHANGED poolVars
      BY <1>8 DEF vars
    <2>2. SchedInv' /\ Punctual' /\ clock <= clock'
      BY <2>0, <2>1 DEF schedVars, SchedInv, Sched!TypeOK, Punctual, OnTime
    <2>3. EndsStay
      BY <2>1 DEF Inv, schedVars, poolVars, EndsStay, Due, Gone, OneEnd
    <2> QED BY <2>1, <2>2, <2>3, QuietStep
  <1> QED BY <1>1, <1>2, <1>3, <1>4, <1>5, <1>6, <1>7, <1>8 DEF Next, RunNext

\* Every state of the pool satisfies the inductive invariant.
THEOREM Invariant == Spec => []Inv
  <1>1. Init => Inv
    BY InvInit
  <1>2. Inv /\ [Next]_vars => Inv'
    BY InvStep
  <1> QED BY <1>1, <1>2, PTL DEF Spec

\* The pool's and the scheduler's state keep their types: above all, a worker is
\* busy only with a payment that arrived, and the area under the depth never
\* shrinks below zero.
THEOREM TypeCorrect == Spec => []TypeOK
  <1>1. Inv => TypeOK
    BY DEF Inv, TypeOK
  <1> QED BY <1>1, Invariant, PTL
-----------------------------------------------------------------------------
(***************************************************************************)
(* What the invariant says.                                                *)
(***************************************************************************)
LEMMA OneEach ==
  ASSUME NEW S, \A x, y \in S : x = y
  PROVE  Cardinality(S) = IF S = {} THEN 0 ELSE 1
  <1>1. CASE S = {}
    BY <1>1, FS_EmptySet
  <1>2. CASE S # {}
    <2>1. PICK x \in S : TRUE
      BY <1>2
    <2>2. S = {x}
      BY <2>1
    <2> QED BY <1>2, <2>2, FS_Singleton
  <1> QED BY <1>1, <1>2

\* A busy worker has one completion, queued or the last to be lost; an idle one
\* has none; no worker is idle while a payment waits (enqueue, _dispatch, _complete).
THEOREM OneCompletion == Spec => []OneCompletionPerBusyWorker
  <1>1. ASSUME Inv PROVE OneCompletionPerBusyWorker
    <2>0. OneEnd /\ LineInOrder
      BY <1>1 DEF Inv
    <2>1. ASSUME NEW w \in workers
          PROVE  /\ Cardinality(Due(w)) + Cardinality(Gone(w))
                      = (IF w \in DOMAIN current THEN 1 ELSE 0)
                 /\ \A e \in Due(w) :
                      e.time = current[w].processing_started_at + ProcessingTime
      <3>1. /\ \A e, f \in Due(w) : e = f
            /\ \A l, m \in Gone(w) : l = m
            /\ Due(w) = {} \/ Gone(w) = {}
            /\ w \in DOMAIN current <=> Due(w) # {} \/ Gone(w) # {}
            /\ \A e \in Due(w) : e.time = current[w].processing_started_at + ProcessingTime
        BY <2>0 DEF OneEnd
      <3>2. /\ Cardinality(Due(w)) = IF Due(w) = {} THEN 0 ELSE 1
            /\ Cardinality(Gone(w)) = IF Gone(w) = {} THEN 0 ELSE 1
        BY <3>1, OneEach
      <3> QED BY <3>1, <3>2
    <2> QED BY <2>0, <2>1 DEF OneCompletionPerBusyWorker, LineInOrder, Gone
  <1>2. Inv => OneCompletionPerBusyWorker
    BY <1>1
  <1> QED BY <1>2, Invariant, PTL

\* A payment is completed, with a worker, or in line.
LEMMA WherePayments ==
  ASSUME PoolType
  PROVE  \A p : p \in Payments <=> \/ \E i \in DOMAIN completed : p = completed[i]
                                   \/ \E w \in DOMAIN current : p = current[w]
                                   \/ \E i \in DOMAIN waiting : p = waiting[i]
  BY DEF Payments, Range

\* The arrival orders of the payments are those given out.
LEMMA OrdersGivenOut ==
  ASSUME PoolType, LineInOrder, TakenInOrder
  PROVE  {p.arrival_order : p \in Payments} = 0..(nextArrival - 1)
  <1>0. /\ DOMAIN waiting = 1..Len(waiting) /\ Len(waiting) \in Nat /\ nextArrival \in Nat
        /\ Left \in Nat /\ nextArrival = Left + Len(waiting)
        /\ \A i \in DOMAIN waiting : waiting[i].arrival_order = Left + i - 1
        /\ \A w \in DOMAIN current : current[w].arrival_order \in Nat
        /\ \A i \in DOMAIN completed : completed[i].arrival_order \in Nat
    BY Parts DEF LineInOrder, Left, Served, Done
  <1>1. ASSUME NEW p \in Payments PROVE p.arrival_order \in 0..(nextArrival - 1)
    <2>1. CASE \E i \in DOMAIN completed : p = completed[i]
      BY <1>0, <2>1 DEF TakenInOrder
    <2>2. CASE \E w \in DOMAIN current : p = current[w]
      BY <1>0, <2>2 DEF TakenInOrder
    <2>3. CASE \E i \in DOMAIN waiting : p = waiting[i]
      BY <1>0, <2>3
    <2> QED BY <2>1, <2>2, <2>3, WherePayments
  <1>2. ASSUME NEW o \in 0..(nextArrival - 1)
        PROVE  \E p \in Payments : p.arrival_order = o
    <2>1. CASE o \in 0..(Left - 1)
      BY <2>1, WherePayments DEF TakenInOrder
    <2>2. CASE o \notin 0..(Left - 1)
      <3>1. o - Left + 1 \in DOMAIN waiting
        BY <1>0, <2>2
      <3>2. waiting[o - Left + 1].arrival_order = o
        BY <1>0, <3>1
      <3> QED BY <3>1, <3>2, WherePayments
    <2> QED BY <2>1, <2>2
  <1> QED BY <1>1, <1>2

\* Without a jump, a completed payment is the first of its identifier, and comes
\* before every other first that is not completed.
LEMMA FirstsFirst ==
  ASSUME Inv, jumped = 0, NEW i \in DOMAIN completed, NEW q \in Payments
  PROVE  /\ q.payment_id = completed[i].payment_id
              => q.arrival_order >= completed[i].arrival_order
         /\ q \in FirstOfTheirId /\ q \notin Range(completed)
              => completed[i].arrival_order < q.arrival_order
  <1>0. /\ SchedInv /\ PoolType /\ LineInOrder /\ TakenInOrder /\ OneEnd /\ DueInOrder
        /\ PostedOnce /\ OnTime
    BY DEF Inv
  <1>t. /\ \A w \in DOMAIN current : current[w].arrival_order \in Nat /\ w \in workers
        /\ \A j \in DOMAIN completed : completed[j].arrival_order \in Nat
        /\ \A j \in DOMAIN waiting : j \in Nat \ {0}
    BY <1>0, Parts DEF Served, Done
  <1>1. ASSUME NEW j \in DOMAIN completed, q = completed[j]
        PROVE  /\ q.payment_id = completed[i].payment_id
                    => q.arrival_order >= completed[i].arrival_order
               /\ q \in Range(completed)
    BY <1>0, <1>t, <1>1 DEF PostedOnce, Range
  <1>2. ASSUME NEW w \in DOMAIN current, q = current[w], Due(w) # {}
        PROVE  completed[i].arrival_order < q.arrival_order
    BY <1>0, <1>2 DEF DueInOrder
  <1>3. ASSUME NEW w \in DOMAIN current, q = current[w], Due(w) = {}
        PROVE  /\ q.payment_id = completed[i].payment_id
                    => q.arrival_order >= completed[i].arrival_order
               /\ q \notin FirstOfTheirId
    <2>1. PICK l \in Gone(w) : TRUE
      BY <1>0, <1>t, <1>3 DEF OneEnd
    <2>2. l.cause = "raised"
      BY <1>0, <2>1 DEF OnTime, Gone
    <2>3. PICK k \in DOMAIN completed :
            /\ completed[k].payment_id = q.payment_id
            /\ completed[k].arrival_order < q.arrival_order
      BY <1>0, <1>3, <2>1, <2>2 DEF PostedOnce
    <2>4. completed[k] \in Payments
      BY <1>0, WherePayments
    <2>5. q \notin FirstOfTheirId
      <3>1. ~(completed[k].arrival_order >= q.arrival_order)
        BY <1>t, <1>3, <2>3
      <3> QED BY <2>3, <2>4, <3>1 DEF FirstOfTheirId
    <2>6. q.payment_id = completed[i].payment_id => k = i
      BY <1>0, <2>3 DEF PostedOnce
    <2> QED BY <1>t, <1>3, <2>3, <2>5, <2>6
  <1>4. ASSUME NEW j \in DOMAIN waiting, q = waiting[j]
        PROVE  completed[i].arrival_order < q.arrival_order
    <2>1. completed[i].arrival_order < Left /\ Left \in Nat
      BY <1>0 DEF TakenInOrder, LineInOrder
    <2>2. q.arrival_order = Left + j - 1
      BY <1>0, <1>4 DEF LineInOrder
    <2> QED BY <1>t, <2>1, <2>2
  <1>5. completed[i].arrival_order \in Nat /\ q.arrival_order \in Nat
    <2>1. /\ completed[i].arrival_order \in Nat /\ nextArrival \in Nat
          /\ {p.arrival_order : p \in Payments} = 0..(nextArrival - 1)
      BY <1>0, <1>t, OrdersGivenOut DEF PoolType
    <2> QED BY <2>1
  <1> QED BY <1>0, <1>1, <1>2, <1>3, <1>4, <1>5, WherePayments

\* Every payment that arrived is in one place, and the ledger holds, in the order
\* of arrival, what it would hold had each been posted on arrival, whatever the
\* number of workers (enqueue, _dispatch, _complete, run_worker_capacity).
THEOREM LedgerInArrivalOrder == Spec => []LedgerFollowsArrivals
  <1>1. ASSUME Inv PROVE LedgerFollowsArrivals
    <2>0. PoolType /\ LineInOrder /\ TakenInOrder /\ PostedOnce
      BY <1>1 DEF Inv
    <2>1. Len(completed) + Cardinality(DOMAIN current) + Len(waiting) = nextArrival
      <3>1. Len(completed) + Cardinality(DOMAIN current) = nextArrival - Len(waiting)
        BY <2>0 DEF TakenInOrder, Left
      <3>2. Len(waiting) \in Nat /\ nextArrival \in Nat
        BY <2>0, Parts
      <3> QED BY <3>1, <3>2
    <2>2. {p.arrival_order : p \in Payments} = 0..(nextArrival - 1)
      BY <2>0, OrdersGivenOut
    <2>3. posted = [i \in DOMAIN completed |-> completed[i].payment_id]
      BY <2>0 DEF PostedOnce
    <2>4. ASSUME jumped = 0
          PROVE  /\ Range(completed) \subseteq FirstOfTheirId
                 /\ \A i, j \in DOMAIN completed :
                      i < j => completed[i].arrival_order < completed[j].arrival_order
                 /\ \A i \in DOMAIN completed, p \in FirstOfTheirId \ Range(completed) :
                      completed[i].arrival_order < p.arrival_order
      <3>1. ASSUME NEW i \in DOMAIN completed PROVE completed[i] \in FirstOfTheirId
        <4>1. completed[i] \in Payments
          BY <2>0, WherePayments
        <4> QED BY <1>1, <2>4, <4>1, FirstsFirst DEF FirstOfTheirId
      <3>2. Range(completed) \subseteq FirstOfTheirId
        BY <3>1 DEF Range
      <3>3. \A i, j \in DOMAIN completed :
              i < j => completed[i].arrival_order < completed[j].arrival_order
        BY <2>0 DEF TakenInOrder
      <3>4. ASSUME NEW i \in DOMAIN completed, NEW p \in FirstOfTheirId \ Range(completed)
            PROVE  completed[i].arrival_order < p.arrival_order
        <4>1. p \in Payments
          BY DEF FirstOfTheirId
        <4> QED BY <1>1, <2>4, <4>1, FirstsFirst
      <3> QED BY <3>2, <3>3, <3>4
    <2> QED BY <2>1, <2>2, <2>3, <2>4 DEF LedgerFollowsArrivals
  <1>2. Inv => LedgerFollowsArrivals
    BY <1>1
  <1> QED BY <1>2, Invariant, PTL
-----------------------------------------------------------------------------
(***************************************************************************)
(* The FIFO line before equal servers.                                     *)
(***************************************************************************)
\* The payments that a worker has taken.
Taking == Range(completed) \cup Range(current)

\* p starts on arrival or with the end of the payment as many places before it as
\* there are workers, whichever is later.
InFifo(p) ==
  LET before == {q \in Taking : q.arrival_order = p.arrival_order - Cardinality(workers)}
  IN  /\ p.queued_at <= p.processing_started_at
      /\ \A q \in before :
           q.processing_started_at + ProcessingTime <= p.processing_started_at
      /\ \/ p.processing_started_at = p.queued_at
         \/ \E q \in before :
              p.processing_started_at = q.processing_started_at + ProcessingTime

\* As long as no worker is stuck, payments end in the order of arrival and each
\* starts when the line says.
FifoStarts ==
  Stuck = {} => /\ \A i \in DOMAIN completed : completed[i].arrival_order = i - 1
                /\ \A p \in Taking : InFifo(p)

\* Two records of one payment, before and after its completion.
SamePayment(p, q) == /\ p.arrival_order = q.arrival_order
                     /\ p.queued_at = q.queued_at
                     /\ p.processing_started_at = q.processing_started_at

LEMMA TakingIs ==
  \A p : p \in Taking <=> \/ \E i \in DOMAIN completed : p = completed[i]
                          \/ \E w \in DOMAIN current : p = current[w]
  BY DEF Taking, Range

LEMMA TakingType ==
  ASSUME PoolType, NEW p \in Taking
  PROVE  p.arrival_order \in Nat /\ p.queued_at \in Nat /\ p.processing_started_at \in Nat
  BY TakingIs, Parts DEF Served, Done

\* The payments with a worker are the last that were taken.
LEMMA CurrentLast ==
  ASSUME PoolType, LineInOrder, TakenInOrder,
         \A i \in DOMAIN completed : completed[i].arrival_order = i - 1
  PROVE  /\ \A w \in DOMAIN current : current[w].arrival_order >= Len(completed)
         /\ Cardinality(DOMAIN current) \in Nat
         /\ Len(completed) = Left - Cardinality(DOMAIN current)
         /\ DOMAIN current # workers => Cardinality(DOMAIN current) < Cardinality(workers)
         /\ DOMAIN current = workers => Cardinality(DOMAIN current) = Cardinality(workers)
  <1>0. /\ Len(completed) \in Nat /\ DOMAIN completed = 1..Len(completed) /\ Left \in Nat
        /\ \A w \in DOMAIN current : current[w].arrival_order \in Nat
    BY Parts DEF LineInOrder, Served
  <1>1. ASSUME NEW w \in DOMAIN current PROVE current[w].arrival_order >= Len(completed)
    <2> DEFINE o == current[w].arrival_order
    <2>1. SUFFICES ASSUME o < Len(completed) PROVE FALSE
      BY <1>0
    <2>2. o + 1 \in DOMAIN completed /\ completed[o + 1].arrival_order = o
      BY <1>0, <2>1
    <2> QED BY <2>2 DEF TakenInOrder
  <1>2. IsFiniteSet(workers) /\ DOMAIN current \subseteq workers
    BY Workers DEF PoolType
  <1>3. Cardinality(DOMAIN current) \in Nat
    BY <1>2, FS_Subset, FS_CardinalityType
  <1>4. Len(completed) + Cardinality(DOMAIN current) = Left
    BY DEF TakenInOrder
  <1>5. DOMAIN current # workers => Cardinality(DOMAIN current) < Cardinality(workers)
    <2>1. /\ Cardinality(DOMAIN current) <= Cardinality(workers)
          /\ Cardinality(DOMAIN current) = Cardinality(workers) => DOMAIN current = workers
      BY <1>2, FS_Subset
    <2>2. Cardinality(workers) \in Nat
      BY Workers
    <2> QED BY <1>3, <2>1, <2>2
  <1> QED BY <1>0, <1>1, <1>3, <1>4, <1>5

\* The first to end is the next in the order of arrival.
LEMMA EarliestNext ==
  ASSUME PoolType, LineInOrder, TakenInOrder, Stuck = {}, NEW w \in DOMAIN current,
         Earliest(w),
         \A i \in DOMAIN completed : completed[i].arrival_order = i - 1
  PROVE  current[w].arrival_order = Len(completed)
  <1>0. /\ Len(completed) \in Nat /\ DOMAIN completed = 1..Len(completed) /\ Left \in Nat
        /\ \A v \in DOMAIN current : current[v].arrival_order \in Nat
    BY Parts DEF LineInOrder, Served
  <1>1. /\ \A v \in DOMAIN current : current[v].arrival_order >= Len(completed)
        /\ current[w].arrival_order < Left
    BY CurrentLast DEF TakenInOrder
  <1>2. Len(completed) \in 0..(Left - 1)
    BY <1>0, <1>1
  <1>3. PICK v \in DOMAIN current : current[v].arrival_order = Len(completed)
    <2>1. ~\E i \in DOMAIN completed : completed[i].arrival_order = Len(completed)
      BY <1>0
    <2> QED BY <1>2, <2>1 DEF TakenInOrder
  <1>4. Due(v) # {}
    BY DEF Stuck
  <1>5. v # w => current[w].arrival_order < Len(completed)
    BY <1>3, <1>4 DEF Earliest
  <1> QED BY <1>0, <1>1, <1>3, <1>5

\* What was in the FIFO order stays so when payments are taken after it.
LEMMA FifoStays ==
  ASSUME PoolType, NEW p \in Taking, NEW q, SamePayment(p, q), InFifo(p),
         workers' = workers,
         \A r \in Taking : \E s \in Taking' : SamePayment(r, s),
         \A s \in Taking' : \/ \E r \in Taking : SamePayment(r, s)
                            \/ s.arrival_order >= p.arrival_order
  PROVE  InFifo(q)'
  <1> DEFINE n == Cardinality(workers)
  <1>0. n \in Nat \ {0} /\ p.arrival_order \in Nat
    BY Workers, TakingType
  <1>1. /\ q.arrival_order = p.arrival_order /\ q.queued_at = p.queued_at
        /\ q.processing_started_at = p.processing_started_at
    BY DEF SamePayment
  <1> HIDE DEF n
  <1>2. ASSUME NEW s \in Taking', s.arrival_order = p.arrival_order - n
        PROVE  s.processing_started_at + ProcessingTime <= p.processing_started_at
    <2>1. ~(s.arrival_order >= p.arrival_order)
      BY <1>0, <1>2
    <2>2. PICK r \in Taking : SamePayment(r, s)
      BY <2>1
    <2> QED BY <1>2, <2>2 DEF SamePayment, InFifo, n
  <1>3. ASSUME NEW r \in Taking, r.arrival_order = p.arrival_order - n,
               p.processing_started_at = r.processing_started_at + ProcessingTime
        PROVE  \E s \in Taking' :
                 /\ s.arrival_order = p.arrival_order - n
                 /\ p.processing_started_at = s.processing_started_at + ProcessingTime
    BY <1>3 DEF SamePayment
  <1>4. p.queued_at <= p.processing_started_at
    BY DEF InFifo
  <1>5. \/ p.processing_started_at = p.queued_at
        \/ \E r \in Taking :
             /\ r.arrival_order = p.arrival_order - n
             /\ p.processing_started_at = r.processing_started_at + ProcessingTime
    BY DEF InFifo, n
  <1> QED BY <1>1, <1>2, <1>3, <1>4, <1>5 DEF InFifo, n
\* A payment that joins a line nobody waits in starts at once, after the end of
\* the payment that many places before it.
LEMMA FifoNewcomer ==
  ASSUME Inv, NEW id, NEW w, NEW now \in Nat, clock <= now, Starts(id, w, now),
         \A i \in DOMAIN completed : completed[i].arrival_order = i - 1
  PROVE  LET new == Taken(Newcomer(id, now), now)
         IN  /\ Taking' = Taking \cup {new} /\ \A p : p = new => InFifo(p)'
             /\ \A p \in Taking : p.arrival_order < new.arrival_order
  <1> DEFINE new == Taken(Newcomer(id, now), now)
             n == Cardinality(workers)
  <1>0. SchedInv /\ PoolType /\ LineInOrder /\ TakenInOrder /\ OnTime /\ clock \in Nat
    BY Schedule DEF Inv
  <1>1. /\ DOMAIN current' = DOMAIN current \cup {w} /\ w \in workers \ DOMAIN current
        /\ \A v \in DOMAIN current : current'[v] = current[v]
        /\ current'[w] = new /\ completed' = completed /\ workers' = workers
        /\ waiting = <<>>
    BY DEF Starts
  <1>2. /\ new.arrival_order = nextArrival /\ new.queued_at = now
        /\ new.processing_started_at = now
    BY DEF Taken, Newcomer
  <1> HIDE DEF new
  <1>3. Left = nextArrival /\ nextArrival \in Nat
    BY <1>0, <1>1, Parts DEF Left
  <1>4. Taking' = Taking \cup {new}
    <2>1. \A p : p \in Taking' <=> \/ \E i \in DOMAIN completed' : p = completed'[i]
                                   \/ \E v \in DOMAIN current' : p = current'[v]
      BY DEF Taking, Range
    <2>2. \A p : p \in Taking' <=> p \in Taking \/ p = new
      BY <1>1, <2>1, TakingIs
    <2> QED BY <2>2
  <1>5. \A p \in Taking : p.arrival_order < nextArrival
    BY <1>0, <1>3, TakingIs DEF TakenInOrder
  <1>6. ASSUME NEW s \in Taking', s.arrival_order = nextArrival - n
        PROVE  s.processing_started_at + ProcessingTime <= now
    <2>1. n \in Nat \ {0}
      BY <1>0, Workers
    <2>2. s \in Taking
      BY <1>2, <1>3, <1>4, <1>6, <2>1
    <2>3. /\ \A v \in DOMAIN current : current[v].arrival_order >= Len(completed)
          /\ Cardinality(DOMAIN current) \in Nat
          /\ Len(completed) = nextArrival - Cardinality(DOMAIN current)
          /\ Cardinality(DOMAIN current) < n
      BY <1>0, <1>1, <1>3, CurrentLast
    <2>4. \A v \in DOMAIN current : s # current[v]
      BY <1>3, <1>6, <2>1, <2>3
    <2>5. PICK i \in DOMAIN completed : s = completed[i]
      BY <2>2, <2>4, TakingIs
    <2>6. completed[i].completed_at = s.processing_started_at + ProcessingTime
      BY <1>0, <2>5 DEF OnTime
    <2>7. completed[i].completed_at <= clock /\ completed[i].completed_at \in Nat
      BY <1>0, Parts DEF OnTime, Done
    <2> QED BY <1>0, <2>6, <2>7
  <1>7. ASSUME NEW p, p = new PROVE InFifo(p)'
    <2>1. \A s \in Taking' : s.arrival_order = p.arrival_order - Cardinality(workers') =>
            s.processing_started_at + ProcessingTime <= p.processing_started_at
      BY <1>1, <1>2, <1>6, <1>7 DEF n
    <2>2. p.queued_at = p.processing_started_at /\ p.queued_at <= p.processing_started_at
      BY <1>2, <1>7
    <2> QED BY <2>1, <2>2 DEF InFifo
  <1> QED BY <1>2, <1>4, <1>5, <1>7 DEF new

\* The records of the payments that were taken when the work of w ends.
LEMMA TakingEnds ==
  ASSUME PoolType, NEW w \in DOMAIN current, NEW now, EndsWork(w, now),
         DOMAIN current \ {w} \subseteq DOMAIN current',
         \A v \in DOMAIN current \ {w} : current'[v] = current[v]
  PROVE  /\ \A r \in Taking : \E s \in Taking' : SamePayment(r, s)
         /\ Finished(w, now) \in Taking' /\ SamePayment(current[w], Finished(w, now))
         /\ \A s \in Taking' : \/ \E r \in Taking : SamePayment(r, s)
                               \/ w \in DOMAIN current' /\ s = current'[w]
                               \/ \E v \in DOMAIN current' \ DOMAIN current : s = current'[v]
  <1> DEFINE n == Len(completed)
  <1>0. /\ n \in Nat /\ DOMAIN completed = 1..n /\ DOMAIN completed' = 1..(n + 1)
        /\ \A i \in 1..n : completed'[i] = completed[i]
        /\ completed'[n + 1] = Finished(w, now)
    BY Parts DEF EndsWork
  <1>1. \A p : p \in Taking' <=> \/ \E i \in DOMAIN completed' : p = completed'[i]
                                 \/ \E v \in DOMAIN current' : p = current'[v]
    BY DEF Taking, Range
  <1>2. SamePayment(current[w], Finished(w, now)) /\ \A p : SamePayment(p, p)
    BY DEF SamePayment, Finished
  <1>3. n + 1 \in DOMAIN completed'
    BY <1>0
  <1>4. Finished(w, now) \in Taking'
    BY <1>0, <1>1, <1>3
  <1>5. ASSUME NEW r \in Taking PROVE \E s \in Taking' : SamePayment(r, s)
    <2>1. ASSUME NEW i \in DOMAIN completed, r = completed[i] PROVE r \in Taking'
      <3>1. i \in DOMAIN completed' /\ completed'[i] = r
        BY <1>0, <2>1
      <3> QED BY <1>1, <3>1
    <2>2. ASSUME NEW v \in DOMAIN current, r = current[v], v # w PROVE r \in Taking'
      BY <1>1, <2>2
    <2> QED BY <1>2, <1>4, <2>1, <2>2, TakingIs
  <1>6. ASSUME NEW s \in Taking'
        PROVE  \/ \E r \in Taking : SamePayment(r, s)
               \/ w \in DOMAIN current' /\ s = current'[w]
               \/ \E v \in DOMAIN current' \ DOMAIN current : s = current'[v]
    <2>1. ASSUME NEW i \in DOMAIN completed', s = completed'[i]
          PROVE  \E r \in Taking : SamePayment(r, s)
      <3>1. i \in 1..n \/ i = n + 1
        BY <1>0
      <3>2. current[w] \in Taking
        BY TakingIs
      <3>3. CASE i \in 1..n
        BY <1>0, <1>2, <2>1, <3>3, TakingIs
      <3>4. CASE i = n + 1
        BY <1>0, <1>2, <2>1, <3>2, <3>4
      <3> QED BY <3>1, <3>3, <3>4
    <2>2. ASSUME NEW v \in DOMAIN current', s = current'[v], v \in DOMAIN current, v # w
          PROVE  \E r \in Taking : SamePayment(r, s)
      BY <1>2, <2>2, TakingIs
    <2> QED BY <1>1, <2>1, <2>2
  <1> QED BY <1>2, <1>4, <1>5, <1>6

LEMMA FifoKept ==
  ASSUME Inv, FifoStarts, Inv', Moves
  PROVE  FifoStarts'
  <1>0. SchedInv /\ PoolType /\ LineInOrder /\ TakenInOrder /\ OnTime /\ clock \in Nat
    BY Schedule DEF Inv
  <1> SUFFICES ASSUME Stuck' = {}
               PROVE  /\ \A i \in DOMAIN completed' : completed'[i].arrival_order = i - 1
                      /\ \A q \in Taking' : InFifo(q)'
    BY DEF FifoStarts
  <1>1. /\ Stuck = {}
        /\ \A i \in DOMAIN completed : completed[i].arrival_order = i - 1
        /\ \A p \in Taking : InFifo(p)
    BY DEF Moves, FifoStarts
  <1>2. CASE UNCHANGED <<workers, current, completed>>
    BY <1>1, <1>2 DEF Taking, InFifo
  <1>3. ASSUME NEW id, NEW w, NEW now \in Nat, clock <= now, Starts(id, w, now)
        PROVE  /\ \A i \in DOMAIN completed' : completed'[i].arrival_order = i - 1
               /\ \A q \in Taking' : InFifo(q)'
    <2> DEFINE new == Taken(Newcomer(id, now), now)
    <2>1. /\ Taking' = Taking \cup {new} /\ \A p : p = new => InFifo(p)'
          /\ \A p \in Taking : p.arrival_order < new.arrival_order
      BY <1>1, <1>3, FifoNewcomer
    <2> HIDE DEF new
    <2>2. workers' = workers /\ completed' = completed
      BY <1>3 DEF Starts
    <2>3. ASSUME NEW p \in Taking PROVE InFifo(p)'
      <3>1. SamePayment(p, p) /\ \A r : SamePayment(r, r)
        BY DEF SamePayment
      <3>2. \A r \in Taking : \E s \in Taking' : SamePayment(r, s)
        BY <2>1, <3>1
      <3>3. new.arrival_order >= p.arrival_order
        <4>1. new \in Taking' /\ new.arrival_order \in Nat
          BY <2>1, <1>0, <1>3 DEF new, Taken, Newcomer, PoolType
        <4> QED BY <1>0, <2>1, <4>1, TakingType
      <3>4. \A s \in Taking' : \/ \E r \in Taking : SamePayment(r, s)
                               \/ s.arrival_order >= p.arrival_order
        BY <2>1, <3>1, <3>3
      <3> QED BY <1>0, <1>1, <2>2, <3>1, <3>2, <3>4, FifoStays
    <2> QED BY <1>1, <2>1, <2>2, <2>3
  <1>4. ASSUME NEW w \in DOMAIN current, NEW now \in Nat, clock <= now, Earliest(w),
               Finishes(w, now) \/ MovesOn(w, now),
               now = current[w].processing_started_at + ProcessingTime
        PROVE  /\ \A i \in DOMAIN completed' : completed'[i].arrival_order = i - 1
               /\ \A q \in Taking' : InFifo(q)'
    <2> DEFINE n == Len(completed)
               m == Cardinality(workers)
    <2>1. EndsWork(w, now) /\ workers' = workers
      BY <1>4 DEF Finishes, MovesOn, EndsWork
    <2>2. current[w].arrival_order = n
      BY <1>0, <1>1, <1>4, EarliestNext
    <2>3. \A i \in DOMAIN completed' : completed'[i].arrival_order = i - 1
      <3>1. /\ n \in Nat /\ DOMAIN completed = 1..n /\ DOMAIN completed' = 1..(n + 1)
            /\ \A i \in 1..n : completed'[i] = completed[i]
            /\ completed'[n + 1].arrival_order = n
        BY <1>0, <2>1, <2>2, Parts DEF EndsWork, Finished
      <3>2. \A i \in DOMAIN completed' : i \in 1..n \/ i = n + 1
        BY <3>1
      <3> QED BY <1>1, <3>1, <3>2
    <2>4. /\ \A r \in Taking : \E s \in Taking' : SamePayment(r, s)
          /\ Finished(w, now) \in Taking' /\ SamePayment(current[w], Finished(w, now))
          /\ \A s \in Taking' : \/ \E r \in Taking : SamePayment(r, s)
                                \/ w \in DOMAIN current' /\ s = current'[w]
                                \/ \E v \in DOMAIN current' \ DOMAIN current : s = current'[v]
      <3>1. /\ DOMAIN current \ {w} \subseteq DOMAIN current'
            /\ \A v \in DOMAIN current \ {w} : current'[v] = current[v]
        BY <1>4 DEF Finishes, MovesOn
      <3> QED BY <1>0, <2>1, <3>1, TakingEnds
    <2>5. CASE Finishes(w, now)
      <3>1. \A s \in Taking' : \E r \in Taking : SamePayment(r, s)
        BY <2>4, <2>5 DEF Finishes
      <3>2. ASSUME NEW q \in Taking' PROVE InFifo(q)'
        <4>1. PICK p \in Taking : SamePayment(p, q)
          BY <3>1
        <4> QED BY <1>0, <1>1, <2>1, <2>4, <3>1, <4>1, FifoStays
      <3> QED BY <2>3, <3>2
    <2>6. CASE MovesOn(w, now)
      <3> DEFINE new == Taken(waiting[1], now)
      <3>1. /\ DOMAIN current = workers /\ DOMAIN current' = workers
            /\ current'[w] = new /\ waiting # <<>>
        BY <2>6 DEF MovesOn
      <3>2. /\ 1 \in DOMAIN waiting /\ waiting[1].arrival_order = Left
            /\ waiting[1].queued_at <= now /\ Left \in Nat
        <4>1. 1 \in DOMAIN waiting /\ Left \in Nat
          BY <1>0, <3>1, Parts, EmptySeq DEF PoolType, LineInOrder
        <4>2. waiting[1].arrival_order = Left
          BY <1>0, <4>1 DEF LineInOrder
        <4>3. /\ waiting[1].queued_at <= depthChanged /\ depthChanged <= clock
              /\ depthChanged \in Nat /\ waiting[1].queued_at \in Nat
          BY <1>0, <4>1, Parts DEF OnTime, PoolType, Queued
        <4> QED BY <1>0, <1>4, <4>1, <4>2, <4>3
      <3>3. /\ new.arrival_order = Left /\ new.queued_at <= now
            /\ new.processing_started_at = now
        BY <3>2 DEF Taken
      <3> HIDE DEF new
      <3>4. \A s \in Taking' : (\E r \in Taking : SamePayment(r, s)) \/ s = new
        BY <2>4, <3>1
      <3>5. ASSUME NEW q \in Taking', NEW p \in Taking, SamePayment(p, q) PROVE InFifo(q)'
        <4>1. p.arrival_order < Left /\ p.arrival_order \in Nat
          BY <1>0, TakingIs, TakingType DEF TakenInOrder
        <4>2. new.arrival_order >= p.arrival_order
          BY <3>2, <3>3, <4>1
        <4>3. \A s \in Taking' : \/ \E r \in Taking : SamePayment(r, s)
                                 \/ s.arrival_order >= p.arrival_order
          BY <3>4, <4>2
        <4> QED BY <1>0, <1>1, <2>1, <2>4, <3>5, <4>3, FifoStays
      <3>6. m \in Nat \ {0} /\ n = Left - m /\ n \in Nat
        BY <1>0, <1>1, <3>1, CurrentLast, Workers, Parts
      <3>7. ASSUME NEW s \in Taking', s.arrival_order = Left - m
            PROVE  s.processing_started_at + ProcessingTime = now
        <4>1. PICK r \in Taking : SamePayment(r, s)
          BY <3>2, <3>3, <3>4, <3>6, <3>7
        <4>2. r.arrival_order = current[w].arrival_order
          BY <2>2, <3>6, <3>7, <4>1 DEF SamePayment
        <4>3. r = current[w]
          BY <1>0, <4>2, TakingIs DEF TakenInOrder
        <4> QED BY <1>4, <4>1, <4>3 DEF SamePayment
      <3>8. /\ Finished(w, now).arrival_order = Left - m
            /\ Finished(w, now) \in Taking'
        BY <2>2, <2>4, <3>6 DEF SamePayment
      <3>9. ASSUME NEW q \in Taking', q = new PROVE InFifo(q)'
        <4>1. /\ now = Finished(w, now).processing_started_at + ProcessingTime
          BY <3>7, <3>8
        <4>2. \A s \in Taking' : s.arrival_order = Left - m =>
                s.processing_started_at + ProcessingTime <= now
          BY <1>4, <3>7
        <4>3. /\ q.arrival_order = Left /\ q.queued_at <= q.processing_started_at
              /\ q.processing_started_at = now /\ Cardinality(workers') = m
          BY <2>1, <3>3, <3>9
        <4> QED BY <3>8, <4>1, <4>2, <4>3 DEF InFifo
      <3>10. ASSUME NEW q \in Taking' PROVE InFifo(q)'
        BY <3>4, <3>5, <3>9
      <3> QED BY <2>3, <3>10
    <2> QED BY <1>4, <2>5, <2>6
  <1>5. CASE UNCHANGED poolVars
    BY <1>2, <1>5 DEF poolVars
  <1>6. ASSUME NEW id, NEW now, Joins(id, now) PROVE UNCHANGED <<workers, current, completed>>
    BY <1>6 DEF Joins
  <1> QED BY <1>2, <1>3, <1>4, <1>5, <1>6 DEF Moves

LEMMA FifoInit == Init => FifoStarts
  <1> SUFFICES ASSUME Init PROVE FifoStarts
    OBVIOUS
  <1>1. completed = <<>> /\ current = <<>>
    BY DEF Init
  <1>2. DOMAIN completed = {} /\ DOMAIN current = {}
    BY <1>1
  <1> QED BY <1>2, TakingIs DEF FifoStarts

\* What does not wait has been taken.
LEMMA StartedAreTaken ==
  ASSUME PoolType, LineInOrder, TakenInOrder
  PROVE  {p \in Payments : p \notin Range(waiting)} = Taking
  <1>1. ASSUME NEW p \in Taking, NEW i \in DOMAIN waiting, p = waiting[i] PROVE FALSE
    <2>1. p.arrival_order < Left /\ Left \in Nat
      BY TakingIs DEF TakenInOrder, LineInOrder
    <2>2. p.arrival_order = Left + i - 1 /\ i >= 1 /\ i \in Nat
      BY <1>1, Parts DEF LineInOrder
    <2> QED BY <2>1, <2>2
  <1> QED BY <1>1 DEF Payments, Taking, Range

\* While no worker is stuck, every payment starts when a FIFO line before equal
\* servers says: on arrival, or with the end of the payment that many places
\* before it, whichever is later (_dispatch, _complete).
THEOREM StartsInFifo == Spec => []StartsAsInFifoPool
  <1>1. ASSUME Inv, FifoStarts PROVE StartsAsInFifoPool
    <2> DEFINE started == {p \in Payments : p \notin Range(waiting)}
               n == Cardinality(workers)
               ends(p) == {q.processing_started_at + ProcessingTime :
                             q \in {r \in started : r.arrival_order = p.arrival_order - n}}
               starts(p) == {p.queued_at} \cup ends(p)
    <2>0. PoolType /\ started = Taking
      BY <1>1, StartedAreTaken DEF Inv
    <2>1. ASSUME Stuck = {}, NEW p \in started
          PROVE  p.processing_started_at = Max(starts(p))
      <3> DEFINE s == p.processing_started_at
                 S == starts(p)
      <3>1. InFifo(p) /\ p \in Taking
        BY <1>1, <2>0, <2>1 DEF FifoStarts
      <3>2. \A q \in Taking : /\ q.processing_started_at \in Nat /\ q.queued_at \in Nat
                              /\ q.processing_started_at + ProcessingTime \in Int
        BY <2>0, TakingType, PoolInputs
      <3>3. S \subseteq Int /\ s \in Int /\ \A x \in S : x <= s
        BY <2>0, <3>1, <3>2 DEF InFifo
      <3>4. s \in S
        <4>1. CASE s = p.queued_at
          BY <4>1
        <4>2. ASSUME NEW q \in Taking, q.arrival_order = p.arrival_order - n,
                     s = q.processing_started_at + ProcessingTime
              PROVE  s \in S
          BY <2>0, <4>2
        <4> QED BY <3>1, <4>1, <4>2 DEF InFifo
      <3> HIDE DEF S, s
      <3>5. Max(S) \in S /\ \A x \in S : x <= Max(S)
        BY <3>3, <3>4, MaxOfBounded
      <3>6. Max(S) = s
        <4>1. Max(S) <= s /\ s <= Max(S) /\ Max(S) \in Int
          BY <3>3, <3>4, <3>5
        <4> QED BY <3>3, <4>1
      <3> QED BY <3>6 DEF S, s
    <2> HIDE DEF starts
    <2>2. Stuck = {} => \A p \in started : p.processing_started_at = Max(starts(p))
      BY <2>1
    <2> QED BY <2>2 DEF StartsAsInFifoPool, starts
  <1>2. Inv /\ FifoStarts => StartsAsInFifoPool
    BY <1>1
  <1>3. Init => Inv /\ FifoStarts
    BY InvInit, FifoInit
  <1>4. Inv /\ FifoStarts /\ [Next]_vars => (Inv /\ FifoStarts)'
    BY InvStep, FifoKept
  <1> QED BY <1>2, <1>3, <1>4, PTL DEF Spec
-----------------------------------------------------------------------------
(***************************************************************************)
(* The metrics.                                                            *)
(***************************************************************************)
Orders == 0..(nextArrival - 1)

\* area is the sum over the payments of how long each has waited at time when.
AreaIs(area, when) ==
  \E g \in [Orders -> Int] :
    /\ area = SumFunction(g)
    /\ \A i \in DOMAIN waiting :
         g[waiting[i].arrival_order] = when - waiting[i].queued_at
    /\ \A p \in Taking : g[p.arrival_order] = p.processing_started_at - p.queued_at

AreaExplained == AreaIs(depthArea, depthChanged)

\* The orders of the payments.
LEMMA OrderTypes ==
  ASSUME PoolType, LineInOrder, TakenInOrder
  PROVE  /\ nextArrival \in Nat /\ Left \in Nat /\ Left + Len(waiting) = nextArrival
         /\ DOMAIN waiting = 1..Len(waiting) /\ Len(waiting) \in Nat
         /\ \A i \in DOMAIN waiting : /\ waiting[i].arrival_order = Left + i - 1
                                      /\ waiting[i].arrival_order \in Orders
                                      /\ waiting[i].queued_at \in Nat
         /\ \A p \in Taking : /\ p.arrival_order \in Orders /\ p.arrival_order < Left
                              /\ p.queued_at \in Nat /\ p.processing_started_at \in Nat
  <1>1. /\ nextArrival \in Nat /\ Left \in Nat /\ Left + Len(waiting) = nextArrival
        /\ DOMAIN waiting = 1..Len(waiting) /\ Len(waiting) \in Nat
    BY Parts DEF LineInOrder, Left
  <1>2. ASSUME NEW i \in DOMAIN waiting
        PROVE  /\ waiting[i].arrival_order = Left + i - 1
               /\ waiting[i].arrival_order \in Orders
               /\ waiting[i].queued_at \in Nat
    <2>1. waiting[i].arrival_order = Left + i - 1 /\ waiting[i].queued_at \in Nat
      BY Parts DEF LineInOrder, Queued
    <2> QED BY <1>1, <2>1 DEF Orders
  <1>3. ASSUME NEW p \in Taking
        PROVE  /\ p.arrival_order \in Orders /\ p.arrival_order < Left
               /\ p.queued_at \in Nat /\ p.processing_started_at \in Nat
    <2>1. p.arrival_order < Left
      BY TakingIs DEF TakenInOrder
    <2> QED BY <1>1, <2>1, TakingType DEF Orders
  <1> QED BY <1>1, <1>2, <1>3

\* _record_depth_until_now: every payment in line has waited since the last time.
LEMMA AreaRecorded ==
  ASSUME PoolType, LineInOrder, TakenInOrder, AreaExplained, NEW now \in Nat,
         RecordDepth(now), NEW area, area = depthArea'
  PROVE  AreaIs(area, now)
  <1> DEFINE n == nextArrival
             k == Len(waiting)
             d == now - depthChanged
  <1>1. /\ n \in Nat /\ Left \in Nat /\ Left + k = n /\ k \in Nat
        /\ \A i \in DOMAIN waiting : /\ waiting[i].arrival_order = Left + i - 1
                                     /\ waiting[i].arrival_order \in Orders
                                     /\ waiting[i].queued_at \in Nat /\ i \in 1..k
        /\ \A p \in Taking : p.arrival_order \in Orders /\ p.arrival_order < Left
        /\ depthChanged \in Nat /\ d \in Int
    BY OrderTypes DEF PoolType
  <1>2. PICK g \in [Orders -> Int] :
          /\ depthArea = SumFunction(g)
          /\ \A i \in DOMAIN waiting :
               g[waiting[i].arrival_order] = depthChanged - waiting[i].queued_at
          /\ \A p \in Taking : g[p.arrival_order] = p.processing_started_at - p.queued_at
    BY DEF AreaExplained, AreaIs
  <1>3. area = depthArea + k * d
    BY DEF RecordDepth
  <1>d. depthChanged + d = now
    BY <1>1
  <1> HIDE DEF d, k
  <1> DEFINE f == [o \in Orders |-> IF Left <= o /\ o < Left + k THEN g[o] + d ELSE g[o]]
  <1>4. f \in [Orders -> Int]
    BY <1>1
  <1>5. Raises(g, f, n, Left, k, d)
    BY <1>1, <1>2, <1>4 DEF Raises, Orders
  <1>6. \A i \in DOMAIN waiting : f[waiting[i].arrival_order] = now - waiting[i].queued_at
    <2>1. \A i \in DOMAIN waiting :
            f[waiting[i].arrival_order] = (depthChanged - waiting[i].queued_at) + d
      BY <1>1, <1>2
    <2> QED BY <1>1, <1>d, <2>1
  <1>7. ASSUME NEW p \in Taking
        PROVE  f[p.arrival_order] = p.processing_started_at - p.queued_at
    <2>1. p.arrival_order \in Orders /\ ~(Left <= p.arrival_order)
      BY <1>1 DEF Orders
    <2>2. f[p.arrival_order] = g[p.arrival_order]
      BY <2>1
    <2> QED BY <1>2, <2>2
  <1> HIDE DEF f
  <1>8. SumFunction(f) = SumFunction(g) + k * d
    BY <1>5, SumRaises
  <1>9. area = SumFunction(f)
    BY <1>2, <1>3, <1>8
  <1> QED BY <1>4, <1>6, <1>7, <1>9 DEF AreaIs

\* A payment that has not waited adds nothing.
LEMMA AreaAdds ==
  ASSUME NEW n \in Nat, NEW g \in [0..(n - 1) -> Int]
  PROVE  \E f \in [0..n -> Int] : /\ f[n] = 0
                                  /\ \A o \in 0..(n - 1) : f[o] = g[o]
                                  /\ SumFunction(f) = SumFunction(g)
  <1> DEFINE S == 0..(n - 1)
             f == [o \in 0..n |-> IF o = n THEN 0 ELSE g[o]]
  <1>1. /\ IsFiniteSet(S) /\ n \notin S /\ S \cup {n} = 0..n
        /\ \A o \in 0..n : o \in S \/ o = n
    BY FS_Interval
  <1>2. f \in [0..n -> Int] /\ f[n] = 0
    BY <1>1
  <1>3. \A o \in S : f[o] = g[o]
    BY <1>1
  <1>4. Grows(g, f, n)
    BY <1>1, <1>2, <1>3 DEF Grows
  <1> HIDE DEF f
  <1>5. SumFunction(g) \in Int /\ SumFunction(f) = SumFunction(g) + 0
    BY <1>2, <1>4, SumGrows
  <1>6. SumFunction(f) = SumFunction(g)
    BY <1>5
  <1> QED BY <1>2, <1>3, <1>6

LEMMA AreaKept ==
  ASSUME Inv, AreaExplained, Moves, Inv'
  PROVE  AreaExplained'
  <1>0. PoolType /\ LineInOrder /\ TakenInOrder
    BY DEF Inv
  <1> DEFINE n == nextArrival
  <1>t. /\ n \in Nat /\ Left \in Nat /\ Left + Len(waiting) = n
        /\ DOMAIN waiting = 1..Len(waiting) /\ Len(waiting) \in Nat
        /\ \A i \in DOMAIN waiting : /\ waiting[i].arrival_order = Left + i - 1
                                     /\ waiting[i].arrival_order \in 0..(n - 1)
                                     /\ waiting[i].queued_at \in Nat
        /\ \A p \in Taking : /\ p.arrival_order \in 0..(n - 1)
                             /\ p.queued_at \in Nat /\ p.processing_started_at \in Nat
    BY <1>0, OrderTypes DEF Orders
  <1>1. CASE UNCHANGED poolVars
    BY <1>1 DEF AreaExplained, AreaIs, Taking, Orders, poolVars
  <1>2. ASSUME NEW id, NEW now \in Nat, RecordDepth(now),
               Joins(id, now) \/ \E w \in workers : Starts(id, w, now)
        PROVE  AreaExplained'
    <2>1. /\ nextArrival' = n + 1 /\ depthChanged' = now
      BY <1>2 DEF Joins, Starts, RecordDepth
    <2>2. PICK area : area = depthArea'
      OBVIOUS
    <2>3. AreaIs(area, now)
      BY <1>0, <1>2, <2>2, AreaRecorded
    <2>4. PICK g \in [0..(n - 1) -> Int] :
            /\ area = SumFunction(g)
            /\ \A i \in DOMAIN waiting :
                 g[waiting[i].arrival_order] = now - waiting[i].queued_at
            /\ \A p \in Taking : g[p.arrival_order] = p.processing_started_at - p.queued_at
      BY <2>3 DEF AreaIs, Orders
    <2>5. PICK f \in [0..n -> Int] : /\ f[n] = 0
                                     /\ \A o \in 0..(n - 1) : f[o] = g[o]
                                     /\ SumFunction(f) = SumFunction(g)
      BY <1>t, AreaAdds
    <2>6. 0..n = 0..(nextArrival' - 1)
      BY <1>t, <2>1
    <2>7. ASSUME Joins(id, now) PROVE AreaExplained'
      <3>1. /\ Taking' = Taking
            /\ DOMAIN waiting' = 1..(Len(waiting) + 1)
            /\ \A i \in 1..Len(waiting) : waiting'[i] = waiting[i]
            /\ waiting'[Len(waiting) + 1].arrival_order = n
            /\ waiting'[Len(waiting) + 1].queued_at = now
        BY <2>7 DEF Joins, Taking, Newcomer
      <3>2. \A i \in DOMAIN waiting' : i \in 1..Len(waiting) \/ i = Len(waiting) + 1
        BY <1>t, <3>1
      <3>3. \A i \in DOMAIN waiting' :
              f[waiting'[i].arrival_order] = now - waiting'[i].queued_at
        <4>1. now - now = 0
          BY <1>2
        <4>2. \A i \in DOMAIN waiting :
                f[waiting[i].arrival_order] = now - waiting[i].queued_at
          BY <1>t, <2>4, <2>5
        <4> QED BY <1>t, <2>5, <3>1, <3>2, <4>1, <4>2
      <3>4. \A p \in Taking' : f[p.arrival_order] = p.processing_started_at - p.queued_at
        BY <1>t, <2>4, <2>5, <3>1
      <3>5. f \in [0..(nextArrival' - 1) -> Int] /\ depthArea' = SumFunction(f)
        BY <2>2, <2>4, <2>5, <2>6
      <3> QED BY <2>1, <3>3, <3>4, <3>5 DEF AreaExplained, AreaIs, Orders
    <2>8. ASSUME NEW w \in workers, Starts(id, w, now) PROVE AreaExplained'
      <3> DEFINE new == Taken(Newcomer(id, now), now)
      <3>1. /\ DOMAIN current' = DOMAIN current \cup {w} /\ completed' = completed
            /\ \A v \in DOMAIN current : current'[v] = current[v]
            /\ current'[w] = new /\ DOMAIN waiting' = {}
        BY <2>8 DEF Starts
      <3>2. /\ new.arrival_order = n /\ new.queued_at = now /\ new.processing_started_at = now
        BY DEF Taken, Newcomer
      <3> HIDE DEF new
      <3>3. \A p \in Taking' : p \in Taking \/ p = new
        <4>1. \A p : p \in Taking' <=> \/ \E i \in DOMAIN completed' : p = completed'[i]
                                       \/ \E v \in DOMAIN current' : p = current'[v]
          BY DEF Taking, Range
        <4> QED BY <3>1, <4>1, TakingIs
      <3>4. \A p \in Taking' : f[p.arrival_order] = p.processing_started_at - p.queued_at
        <4>1. now - now = 0
          BY <1>2
        <4>2. \A p \in Taking : f[p.arrival_order] = p.processing_started_at - p.queued_at
          BY <1>t, <2>4, <2>5
        <4> QED BY <2>5, <3>2, <3>3, <4>1, <4>2
      <3>5. f \in [0..(nextArrival' - 1) -> Int] /\ depthArea' = SumFunction(f)
        BY <2>2, <2>4, <2>5, <2>6
      <3>6. \A i \in DOMAIN waiting' :
              f[waiting'[i].arrival_order] = depthChanged' - waiting'[i].queued_at
        BY <3>1
      <3> QED BY <3>4, <3>5, <3>6 DEF AreaExplained, AreaIs, Orders
    <2> QED BY <1>2, <2>7, <2>8
  <1>3. ASSUME NEW w \in DOMAIN current, NEW now \in Nat, Finishes(w, now) \/ MovesOn(w, now)
        PROVE  AreaExplained'
    <2>1. EndsWork(w, now) /\ nextArrival' = n
      BY <1>3 DEF Finishes, MovesOn, EndsWork
    <2>2. /\ Finished(w, now) \in Taking' /\ SamePayment(current[w], Finished(w, now))
          /\ \A s \in Taking' : \/ \E r \in Taking : SamePayment(r, s)
                                \/ w \in DOMAIN current' /\ s = current'[w]
                                \/ \E v \in DOMAIN current' \ DOMAIN current : s = current'[v]
      <3>1. /\ DOMAIN current \ {w} \subseteq DOMAIN current'
            /\ \A v \in DOMAIN current \ {w} : current'[v] = current[v]
        BY <1>3 DEF Finishes, MovesOn
      <3> QED BY <1>0, <2>1, <3>1, TakingEnds
    <2>3. CASE Finishes(w, now)
      <3>1. \A s \in Taking' : \E r \in Taking : SamePayment(r, s)
        BY <2>2, <2>3 DEF Finishes
      <3>2. DOMAIN waiting' = {} /\ UNCHANGED <<depthArea, depthChanged>>
        BY <2>3 DEF Finishes
      <3>3. PICK g \in [0..(n - 1) -> Int] :
              /\ depthArea = SumFunction(g)
              /\ \A p \in Taking : g[p.arrival_order] = p.processing_started_at - p.queued_at
        BY DEF AreaExplained, AreaIs, Orders
      <3>4. \A p \in Taking' : g[p.arrival_order] = p.processing_started_at - p.queued_at
        BY <3>1, <3>3 DEF SamePayment
      <3>5. g \in [0..(nextArrival' - 1) -> Int] /\ depthArea' = SumFunction(g)
        BY <2>1, <3>2, <3>3
      <3>6. \A i \in DOMAIN waiting' :
              g[waiting'[i].arrival_order] = depthChanged' - waiting'[i].queued_at
        BY <3>2
      <3> QED BY <3>4, <3>5, <3>6 DEF AreaExplained, AreaIs, Orders
    <2>4. CASE MovesOn(w, now)
      <3> DEFINE new == Taken(waiting[1], now)
      <3>1. /\ DOMAIN current = workers /\ DOMAIN current' = workers
            /\ current'[w] = new /\ waiting # <<>> /\ RecordDepth(now) /\ depthChanged' = now
            /\ DOMAIN waiting' = 1..(Len(waiting) - 1)
            /\ \A i \in 1..(Len(waiting) - 1) : waiting'[i] = waiting[i + 1]
        BY <2>4 DEF MovesOn, RecordDepth
      <3>2. 1 \in DOMAIN waiting
        BY <1>0, <1>t, <3>1, EmptySeq DEF PoolType
      <3>3. PICK area : area = depthArea'
        OBVIOUS
      <3>4. AreaIs(area, now)
        BY <1>0, <3>1, <3>3, AreaRecorded
      <3>5. PICK g \in [0..(n - 1) -> Int] :
              /\ area = SumFunction(g)
              /\ \A i \in DOMAIN waiting :
                   g[waiting[i].arrival_order] = now - waiting[i].queued_at
              /\ \A p \in Taking : g[p.arrival_order] = p.processing_started_at - p.queued_at
        BY <3>4 DEF AreaIs, Orders
      <3>6. \A i \in DOMAIN waiting' :
              g[waiting'[i].arrival_order] = now - waiting'[i].queued_at
        <4>1. \A i \in 1..(Len(waiting) - 1) : i + 1 \in DOMAIN waiting
          BY <1>t
        <4> QED BY <3>1, <3>5, <4>1
      <3>7. /\ new.arrival_order = waiting[1].arrival_order
            /\ new.queued_at = waiting[1].queued_at /\ new.processing_started_at = now
        BY DEF Taken
      <3> HIDE DEF new
      <3>8. g[new.arrival_order] = new.processing_started_at - new.queued_at
        BY <3>2, <3>5, <3>7
      <3>9. \A s \in Taking' : (\E r \in Taking : SamePayment(r, s)) \/ s = new
        BY <2>2, <3>1
      <3>10. \A p \in Taking' : g[p.arrival_order] = p.processing_started_at - p.queued_at
        BY <3>5, <3>8, <3>9 DEF SamePayment
      <3> QED BY <2>1, <3>1, <3>3, <3>5, <3>6, <3>10 DEF AreaExplained, AreaIs, Orders
    <2> QED BY <1>3, <2>3, <2>4
  <1> QED BY <1>1, <1>2, <1>3 DEF Moves
-----------------------------------------------------------------------------
\* The first payment arrived at time t.
FirstAt(t) == \E p \in Payments : p.arrival_order = 0 /\ p.queued_at = t

\* Since time t no worker was busy for longer than the time that has passed, up to
\* the start of what it does now or the end of what is completed.
BusySince(t) ==
  /\ t <= clock
  /\ \A w \in DOMAIN current : busyTime[w] <= current[w].processing_started_at - t
  /\ \A w \in workers : busyTime[w] # 0 =>
       \E i \in DOMAIN completed : busyTime[w] <= completed[i].completed_at - t
  /\ \A i \in DOMAIN completed : t <= completed[i].completed_at

BusyWithin ==
  /\ SumFunction(busyTime) = ProcessingTime * Len(completed)
  /\ nextArrival # 0 => \E t \in Nat : FirstAt(t) /\ BusySince(t)
  /\ nextArrival = 0 => busyTime = [w \in workers |-> 0]

LEMMA PaymentsSplit ==
  ASSUME PoolType
  PROVE  \A p : p \in Payments <=> p \in Taking \/ \E i \in DOMAIN waiting : p = waiting[i]
  BY DEF Payments, Taking, Range

LEMMA FirstStays ==
  ASSUME PoolType, NEW t, FirstAt(t),
         \A r \in Payments : \E s \in Payments' : /\ s.arrival_order = r.arrival_order
                                                  /\ s.queued_at = r.queued_at
  PROVE  FirstAt(t)'
  BY DEF FirstAt

\* No payment is forgotten.
LEMMA PaymentsKept ==
  ASSUME Inv, Inv', Moves
  PROVE  \A r \in Payments : \E s \in Payments' : /\ s.arrival_order = r.arrival_order
                                                  /\ s.queued_at = r.queued_at
  <1>0. PoolType /\ PoolType'
    BY DEF Inv
  <1>p. /\ \A p : p \in Payments <=> p \in Taking \/ \E i \in DOMAIN waiting : p = waiting[i]
        /\ \A p : p \in Payments' <=> p \in Taking' \/ \E i \in DOMAIN waiting' : p = waiting'[i]
    BY PaymentsSplit DEF Payments, Taking, Range
  <1>1. CASE UNCHANGED poolVars
    BY <1>1 DEF poolVars, Payments
  <1>2. ASSUME NEW id, NEW now, Joins(id, now) PROVE Payments \subseteq Payments'
    <2>1. Taking' = Taking /\ DOMAIN waiting' = 1..(Len(waiting) + 1)
          /\ \A i \in 1..Len(waiting) : waiting'[i] = waiting[i]
      BY <1>2 DEF Joins, Taking
    <2>2. DOMAIN waiting = 1..Len(waiting) /\ Len(waiting) \in Nat
      BY <1>0, Parts
    <2>3. \A i \in DOMAIN waiting : i \in DOMAIN waiting' /\ waiting'[i] = waiting[i]
      BY <2>1, <2>2
    <2> QED BY <1>p, <2>1, <2>3
  <1>3. ASSUME NEW id, NEW w, NEW now, Starts(id, w, now) PROVE Payments \subseteq Payments'
    <2>1. /\ DOMAIN waiting = {} /\ DOMAIN current \subseteq DOMAIN current'
          /\ \A v \in DOMAIN current : current'[v] = current[v]
          /\ completed' = completed
      BY <1>3 DEF Starts
    <2>2. Taking \subseteq Taking'
      BY <2>1 DEF Taking, Range
    <2> QED BY <1>p, <2>1, <2>2
  <1>4. ASSUME NEW w \in DOMAIN current, NEW now, Finishes(w, now) \/ MovesOn(w, now),
               NEW r \in Payments
        PROVE  \E s \in Payments' : /\ s.arrival_order = r.arrival_order
                                    /\ s.queued_at = r.queued_at
    <2>1. CASE r \in Taking
      <3>1. /\ EndsWork(w, now) /\ DOMAIN current \ {w} \subseteq DOMAIN current'
            /\ \A v \in DOMAIN current \ {w} : current'[v] = current[v]
        BY <1>4 DEF Finishes, MovesOn
      <3>2. \E s \in Taking' : SamePayment(r, s)
        BY <1>0, <2>1, <3>1, TakingEnds
      <3> QED BY <1>p, <3>2 DEF SamePayment
    <2>2. ASSUME NEW i \in DOMAIN waiting, r = waiting[i]
          PROVE  \E s \in Payments' : /\ s.arrival_order = r.arrival_order
                                      /\ s.queued_at = r.queued_at
      <3>1. waiting # <<>>
        BY <2>2
      <3>2. /\ DOMAIN waiting' = 1..(Len(waiting) - 1)
            /\ \A j \in 1..(Len(waiting) - 1) : waiting'[j] = waiting[j + 1]
            /\ current'[w] = Taken(waiting[1], now) /\ w \in DOMAIN current'
        BY <1>4, <3>1 DEF Finishes, MovesOn
      <3>3. i \in 1..Len(waiting) /\ Len(waiting) \in Nat
        BY <1>0, Parts
      <3>4. CASE i = 1
        <4>1. current'[w] \in Taking'
          BY <3>2 DEF Taking, Range
        <4> QED BY <1>p, <2>2, <3>2, <3>4, <4>1 DEF Taken
      <3>5. CASE i # 1
        <4>1. i - 1 \in DOMAIN waiting' /\ waiting'[i - 1] = waiting[(i - 1) + 1]
              /\ (i - 1) + 1 = i
          BY <3>2, <3>3, <3>5
        <4> QED BY <1>p, <2>2, <4>1
      <3> QED BY <3>4, <3>5
    <2> QED BY <1>p, <2>1, <2>2
  <1> QED BY <1>1, <1>2, <1>3, <1>4 DEF Moves

\* The busy time of a worker whose work ends.
LEMMA BusyAdds ==
  ASSUME PoolType, NEW w \in workers, NEW now, EndsWork(w, now),
         SumFunction(busyTime) = ProcessingTime * Len(completed)
  PROVE  /\ busyTime'[w] = busyTime[w] + ProcessingTime
         /\ \A v \in workers \ {w} : busyTime'[v] = busyTime[v]
         /\ SumFunction(busyTime') = ProcessingTime * Len(completed')
  <1>1. /\ busyTime \in [workers -> Nat] /\ busyTime' = [busyTime EXCEPT ![w] = @ + ProcessingTime]
        /\ IsFiniteSet(workers) /\ ProcessingTime \in Nat
        /\ Len(completed') = Len(completed) + 1 /\ Len(completed) \in Nat
    BY Workers, Parts, PoolInputs DEF PoolType, EndsWork
  <1>2. PICK b : b = busyTime'
    OBVIOUS
  <1>3. PICK a : a = busyTime
    OBVIOUS
  <1>4. PICK S : S = workers
    OBVIOUS
  <1>5. /\ a \in [S -> Int] /\ b \in [S -> Int] /\ w \in S /\ IsFiniteSet(S)
        /\ b[w] = a[w] + ProcessingTime /\ a[w] \in Int
        /\ \A v \in S \ {w} : b[v] = a[v]
    BY <1>1, <1>2, <1>3, <1>4
  <1>6. ChangesAt(a, b, w)
    BY <1>5 DEF ChangesAt
  <1>7. SumFunction(a) \in Int /\ SumFunction(b) = SumFunction(a) + (b[w] - a[w])
    BY <1>6, SumChanges
  <1>8. SumFunction(b) = ProcessingTime * Len(completed) + ProcessingTime
    BY <1>1, <1>3, <1>5, <1>7
  <1>9. ProcessingTime * Len(completed) + ProcessingTime = ProcessingTime * (Len(completed) + 1)
    BY <1>1
  <1> QED BY <1>1, <1>2, <1>3, <1>4, <1>5, <1>8, <1>9

LEMMA BusyKept ==
  ASSUME Inv, BusyWithin, Moves, Inv'
  PROVE  BusyWithin'
  <1>0. PoolType /\ LineInOrder /\ TakenInOrder /\ OnTime /\ PoolType' /\ SchedInv'
    BY DEF Inv
  <1>c. clock \in Nat /\ clock' \in Nat /\ clock <= clock'
    <2>1. clock \in Nat
      BY Schedule DEF Inv
    <2> QED BY <1>0, <2>1 DEF Moves, SchedInv, Sched!TypeOK
  <1>f. \A t : FirstAt(t) => FirstAt(t)'
    <2>1. ASSUME NEW t, FirstAt(t) PROVE FirstAt(t)'
      <3>1. \A r \in Payments : \E s \in Payments' : /\ s.arrival_order = r.arrival_order
                                                     /\ s.queued_at = r.queued_at
        BY PaymentsKept
      <3> QED BY <1>0, <2>1, <3>1, FirstStays
    <2> QED BY <2>1
  <1>t. /\ nextArrival \in Nat
        /\ \A w \in DOMAIN current : /\ current[w].processing_started_at \in Nat
                                     /\ current[w].arrival_order \in Nat
                                     /\ current[w].arrival_order < Left
                                     /\ w \in workers
        /\ \A i \in DOMAIN completed : /\ completed[i].completed_at \in Nat
                                       /\ completed[i].completed_at <= clock
                                       /\ completed[i].arrival_order \in Nat
                                       /\ completed[i].arrival_order < Left
        /\ \A w \in workers : busyTime[w] \in Nat
        /\ Left <= nextArrival /\ Left \in Nat
        /\ DOMAIN completed = 1..Len(completed) /\ Len(completed) \in Nat
    <2>1. Len(waiting) \in Nat /\ nextArrival \in Nat
      BY <1>0, Parts
    <2>2. Left <= nextArrival /\ Left \in Nat
      BY <1>0, <2>1 DEF Left, LineInOrder
    <2> QED BY <1>0, <2>1, <2>2, Parts DEF TakenInOrder, OnTime, Served, Done, PoolType
  <1>b. SumFunction(busyTime) = ProcessingTime * Len(completed)
    BY DEF BusyWithin
  <1>1. CASE UNCHANGED <<workers, current, busyTime, completed>> /\ nextArrival # 0
                /\ nextArrival' # 0
    <2>1. PICK t \in Nat : FirstAt(t) /\ BusySince(t)
      BY <1>1 DEF BusyWithin
    <2>2. BusySince(t)'
      BY <1>1, <1>c, <2>1 DEF BusySince
    <2> QED BY <1>1, <1>b, <1>f, <2>1, <2>2 DEF BusyWithin
  <1>2. CASE UNCHANGED poolVars
    <2>1. UNCHANGED <<workers, current, busyTime, completed>> /\ nextArrival' = nextArrival
      BY <1>2 DEF poolVars
    <2>2. CASE nextArrival # 0
      BY <1>1, <2>1, <2>2
    <2>3. CASE nextArrival = 0
      BY <2>1, <2>3 DEF BusyWithin
    <2> QED BY <2>2, <2>3
  <1>3. ASSUME NEW id, NEW now, Joins(id, now) PROVE BusyWithin'
    <2>1. UNCHANGED <<workers, current, busyTime, completed>> /\ nextArrival' = nextArrival + 1
          /\ DOMAIN current = workers
      BY <1>3 DEF Joins
    <2>2. nextArrival # 0
      <3>1. PICK w \in workers : TRUE
        BY <1>0, Workers
      <3> QED BY <1>t, <2>1, <3>1
    <2> QED BY <1>1, <1>t, <2>1, <2>2
  <1>4. ASSUME NEW id, NEW w \in workers, NEW now \in Nat, clock' = now, Starts(id, w, now)
        PROVE  BusyWithin'
    <2>1. /\ UNCHANGED <<workers, busyTime, completed>> /\ nextArrival' = nextArrival + 1
          /\ DOMAIN current' = DOMAIN current \cup {w}
          /\ \A v \in DOMAIN current : current'[v] = current[v]
          /\ current'[w].processing_started_at = now
          /\ current'[w].arrival_order = nextArrival /\ current'[w].queued_at = now
      BY <1>4 DEF Starts, Taken, Newcomer
    <2>2. CASE nextArrival # 0
      <3>1. PICK t \in Nat : FirstAt(t) /\ BusySince(t)
        BY <2>2 DEF BusyWithin
      <3>2. busyTime[w] <= now - t
        <4>1. CASE busyTime[w] = 0
          BY <4>1, <1>c, <1>4, <3>1 DEF BusySince
        <4>2. CASE busyTime[w] # 0
          <5>1. PICK i \in DOMAIN completed : busyTime[w] <= completed[i].completed_at - t
            BY <3>1, <4>2 DEF BusySince
          <5> QED BY <5>1, <1>c, <1>4, <1>t
        <4> QED BY <4>1, <4>2
      <3>3. t <= now
        BY <3>1, <1>c, <1>4 DEF BusySince
      <3>4. BusySince(t)'
        BY <2>1, <3>1, <3>2, <3>3, <1>4 DEF BusySince
      <3> QED BY <1>b, <1>f, <1>t, <2>1, <2>2, <3>1, <3>4 DEF BusyWithin
    <2>3. CASE nextArrival = 0
      <3>1. DOMAIN current = {} /\ DOMAIN completed = {}
        <4>1. ASSUME NEW v \in DOMAIN current PROVE FALSE
          BY <1>t, <2>3
        <4>2. ASSUME NEW i \in DOMAIN completed PROVE FALSE
          BY <1>t, <2>3
        <4> QED BY <4>1, <4>2
      <3>2. \A v \in workers : busyTime[v] = 0
        BY <2>3 DEF BusyWithin
      <3>3. DOMAIN current' = {w} /\ DOMAIN completed' = {}
        BY <2>1, <3>1
      <3>4. BusySince(now)'
        BY <1>4, <2>1, <3>2, <3>3 DEF BusySince
      <3>5. FirstAt(now)'
        <4>1. current'[w] \in Payments'
          BY <2>1 DEF Payments, Range
        <4> QED BY <2>1, <2>3, <4>1 DEF FirstAt
      <3> QED BY <1>4, <1>b, <1>t, <2>1, <2>3, <3>4, <3>5 DEF BusyWithin
    <2> QED BY <2>2, <2>3
  <1>5. ASSUME NEW w \in DOMAIN current, NEW now \in Nat, clock' = now,
               Finishes(w, now) \/ MovesOn(w, now),
               now = current[w].processing_started_at + ProcessingTime
        PROVE  BusyWithin'
    <2> DEFINE n == Len(completed)
    <2>1. /\ EndsWork(w, now) /\ workers' = workers /\ w \in workers
          /\ nextArrival' = nextArrival
          /\ DOMAIN completed' = 1..(n + 1)
          /\ \A i \in 1..n : completed'[i] = completed[i]
          /\ completed'[n + 1].completed_at = now
      BY <1>t, <1>5 DEF Finishes, MovesOn, EndsWork, Finished
    <2>2. /\ busyTime'[w] = busyTime[w] + ProcessingTime
          /\ \A v \in workers \ {w} : busyTime'[v] = busyTime[v]
          /\ SumFunction(busyTime') = ProcessingTime * Len(completed')
      BY <1>0, <1>b, <2>1, BusyAdds
    <2>3. nextArrival # 0
      BY <1>t
    <2>4. PICK t \in Nat : FirstAt(t) /\ BusySince(t)
      BY <2>3 DEF BusyWithin
    <2>5. /\ \A v \in DOMAIN current' \ {w} : v \in DOMAIN current /\ current'[v] = current[v]
          /\ w \in DOMAIN current' => current'[w].processing_started_at = now
      BY <1>5, <1>t DEF Finishes, MovesOn, Taken
    <2>6. t <= now /\ busyTime'[w] <= now - t
      <3>1. busyTime[w] <= current[w].processing_started_at - t /\ t <= clock
        BY <2>4 DEF BusySince
      <3>2. PICK a, b, c, d : /\ a = busyTime[w] /\ b = current[w].processing_started_at
                              /\ c = clock /\ d = busyTime'[w]
        OBVIOUS
      <3>3. /\ a \in Nat /\ b \in Nat /\ c \in Nat /\ c <= now /\ ProcessingTime \in Nat
            /\ now = b + ProcessingTime /\ d = a + ProcessingTime /\ a <= b - t /\ t <= c
        BY <1>5, <1>c, <1>t, <2>1, <2>2, <3>1, <3>2, PoolInputs
      <3>4. t <= now /\ d <= now - t
        BY ONLY <3>3, t \in Nat, now \in Nat
      <3> QED BY <3>2, <3>4
    <2>i. \A i \in DOMAIN completed' : i \in 1..n \/ i = n + 1
      BY <1>t, <2>1
    <2>n. n + 1 \in DOMAIN completed' /\ \A i \in 1..n : i \in DOMAIN completed'
      BY <1>t, <2>1
    <2>7. \A v \in DOMAIN current' : busyTime'[v] <= current'[v].processing_started_at - t
      <3>1. ASSUME NEW v \in DOMAIN current', v # w
            PROVE  busyTime'[v] <= current'[v].processing_started_at - t
        <4>1. v \in DOMAIN current /\ v \in workers /\ current'[v] = current[v]
          BY <1>t, <2>5, <3>1
        <4> QED BY <2>2, <2>4, <3>1, <4>1 DEF BusySince
      <3> QED BY <2>5, <2>6, <3>1
    <2>8. ASSUME NEW v \in workers, busyTime'[v] # 0
          PROVE  \E i \in DOMAIN completed' : busyTime'[v] <= completed'[i].completed_at - t
      <3>1. CASE v = w
        BY <2>1, <2>6, <2>n, <3>1
      <3>2. CASE v # w
        <4>1. busyTime'[v] = busyTime[v]
          BY <2>2, <3>2
        <4>2. PICK i \in DOMAIN completed : busyTime[v] <= completed[i].completed_at - t
          BY <2>4, <2>8, <4>1 DEF BusySince
        <4> QED BY <1>t, <2>1, <2>n, <4>1, <4>2
      <3> QED BY <3>1, <3>2
    <2>9. \A i \in DOMAIN completed' : t <= completed'[i].completed_at
      BY <1>t, <2>1, <2>4, <2>6, <2>i DEF BusySince
    <2>10. BusySince(t)'
      BY <1>5, <2>1, <2>6, <2>7, <2>8, <2>9 DEF BusySince
    <2> QED BY <1>f, <2>1, <2>2, <2>3, <2>4, <2>10 DEF BusyWithin
  <1> QED BY <1>2, <1>3, <1>4, <1>5 DEF Moves

LEMMA MetricsInit == Init => AreaExplained /\ BusyWithin
  <1> SUFFICES ASSUME Init PROVE AreaExplained /\ BusyWithin
    OBVIOUS
  <1>1. /\ completed = <<>> /\ current = <<>> /\ waiting = <<>> /\ nextArrival = 0
        /\ depthArea = 0 /\ busyTime = [w \in workers |-> 0]
    BY DEF Init
  <1>2. /\ DOMAIN completed = {} /\ DOMAIN current = {} /\ DOMAIN waiting = {}
        /\ Len(completed) = 0 /\ 0..(0 - 1) = {}
    BY <1>1
  <1>3. AreaExplained
    <2>1. PICK g : g = [o \in {} |-> 0]
      OBVIOUS
    <2>2. g \in [{} -> Int] /\ SumFunction(g) = 0
      <3>1. g \in [{} -> Int] /\ IsFiniteSet({})
        BY <2>1, FS_EmptySet
      <3> QED BY <3>1, SumType
    <2>3. Taking = {}
      BY <1>2, TakingIs
    <2> QED BY <1>1, <1>2, <2>2, <2>3 DEF AreaExplained, AreaIs, Orders
  <1>4. SumFunction(busyTime) = 0
    <2>1. IsFiniteSet(workers)
      <3>1. PICK n \in WorkerCounts : workers = 1..n
        BY DEF Init
      <3> QED BY <3>1, PoolInputs, FS_Interval
    <2>2. PICK b : b = busyTime
      OBVIOUS
    <2>3. b \in [workers -> Int] /\ \A w \in workers : b[w] = 0
      BY <1>1, <2>2
    <2> QED BY <2>1, <2>2, <2>3, SumOfZeros
  <1>5. ProcessingTime * 0 = 0
    BY PoolInputs
  <1>6. BusyWithin
    BY <1>1, <1>2, <1>4, <1>5 DEF BusyWithin
  <1> QED BY <1>3, <1>6

LEMMA OneOfEachOrder ==
  ASSUME PoolType, LineInOrder, TakenInOrder, NEW p \in Payments, NEW q \in Payments,
         p.arrival_order = q.arrival_order
  PROVE  p = q
  <1>1. /\ \A i \in DOMAIN waiting : waiting[i].arrival_order = Left + i - 1 /\ i \in Nat \ {0}
        /\ Left \in Nat
        /\ \A r \in Taking : r.arrival_order < Left /\ r.arrival_order \in Nat
    BY OrderTypes DEF Orders
  <1>2. CASE p \in Taking /\ q \in Taking
    <2>1. ASSUME NEW i \in DOMAIN completed, NEW j \in DOMAIN completed,
                 p = completed[i], q = completed[j]
          PROVE  i = j
      <3>1. i \in Nat /\ j \in Nat /\ completed[i].arrival_order \in Nat
        BY Parts DEF Done
      <3> QED BY <2>1, <3>1 DEF TakenInOrder
    <2> QED BY <1>2, <2>1, TakingIs DEF TakenInOrder
  <1>3. ASSUME NEW r \in Taking, NEW i \in DOMAIN waiting,
               r.arrival_order = waiting[i].arrival_order
        PROVE  FALSE
    BY <1>1, <1>3
  <1>4. ASSUME NEW i \in DOMAIN waiting, NEW j \in DOMAIN waiting,
               p = waiting[i], q = waiting[j]
        PROVE  p = q
    BY <1>1, <1>4
  <1> QED BY <1>2, <1>3, <1>4, PaymentsSplit

\* The metrics agree with what happened: the area under the depth is the time that
\* the payments have waited, the busy times are those of the completed work, and
\* no worker was busy for longer than the run took (_record_depth_until_now,
\* _complete, metrics, worker_statistics).
THEOREM MetricsExplained == Spec => []MetricsAddUp
  <1>1. ASSUME Inv, AreaExplained, BusyWithin PROVE MetricsAddUp
    <2>0. PoolType /\ LineInOrder /\ TakenInOrder /\ OnTime /\ clock \in Nat
      BY <1>1, Schedule DEF Inv
    <2>1. depthArea = SumFunction([p \in Payments |->
                        (IF p \in Range(waiting) THEN depthChanged
                         ELSE p.processing_started_at) - p.queued_at])
      <3> DEFINE w(p) == (IF p \in Range(waiting) THEN depthChanged
                          ELSE p.processing_started_at) - p.queued_at
                 S == 0..(nextArrival - 1)
                 f == [p \in Payments |-> w(p)]
                 h == [o \in S |-> Payment(o)]
      <3>1. PICK g \in [S -> Int] :
              /\ depthArea = SumFunction(g)
              /\ \A i \in DOMAIN waiting :
                   g[waiting[i].arrival_order] = depthChanged - waiting[i].queued_at
              /\ \A p \in Taking : g[p.arrival_order] = p.processing_started_at - p.queued_at
        BY <1>1 DEF AreaExplained, AreaIs, Orders
      <3>2. ASSUME NEW p \in Payments PROVE p.arrival_order \in S /\ g[p.arrival_order] = w(p)
        <4>1. /\ \A i \in DOMAIN waiting : waiting[i].arrival_order \in S
              /\ \A q \in Taking : q.arrival_order \in S
              /\ {q \in Payments : q \notin Range(waiting)} = Taking
          BY <2>0, OrderTypes, StartedAreTaken DEF Orders
        <4>2. CASE p \in Range(waiting)
          BY <3>1, <4>1, <4>2 DEF Range
        <4>3. CASE p \notin Range(waiting)
          BY <3>1, <4>1, <4>3
        <4> QED BY <4>2, <4>3
      <3>3. ASSUME NEW o \in S PROVE Payment(o) \in Payments /\ Payment(o).arrival_order = o
        <4>1. {p.arrival_order : p \in Payments} = S
          BY <2>0, OrdersGivenOut
        <4>2. \E p \in Payments : p.arrival_order = o
          BY <4>1
        <4> QED BY <4>2 DEF Payment
      <3>4. \A p \in Payments : Payment(p.arrival_order) = p
        BY <2>0, <3>2, <3>3, OneOfEachOrder
      <3> HIDE DEF w
      <3>5. f \in [Payments -> Int] /\ \A p \in Payments : f[p] = g[p.arrival_order]
        BY <3>1, <3>2
      <3>6. IsFiniteSet(S)
        <4>1. nextArrival - 1 \in Int
          BY <2>0 DEF PoolType
        <4> QED BY <4>1, FS_Interval
      <3>7. h \in [S -> Payments] /\ \A o \in S : h[o].arrival_order = o
        BY <3>3
      <3>8. \A p \in Payments : \E o \in S : h[o] = p
        BY <3>2, <3>4
      <3> HIDE DEF h, f, S
      <3>9. Pairs(S, Payments, g, f, h)
        BY <3>1, <3>5, <3>6, <3>7, <3>8 DEF Pairs
      <3>10. SumFunction(g) = SumFunction(f)
        BY <3>9, SumPairs
      <3> QED BY <3>1, <3>10 DEF f, w
    <2>2. SumFunction(busyTime) = ProcessingTime * Len(completed)
      BY <1>1 DEF BusyWithin
    <2>3. ASSUME completed # <<>>, NEW w \in workers PROVE busyTime[w] <= Elapsed
      <3> DEFINE Ends == {p.completed_at : p \in Range(completed)}
      <3>1. /\ \A i \in DOMAIN completed : /\ completed[i].completed_at \in Nat
                                           /\ completed[i].completed_at <= clock
                                           /\ completed[i].completed_at \in Ends
                                           /\ completed[i].arrival_order \in Nat
                                           /\ completed[i].arrival_order < Left
            /\ Left <= nextArrival /\ Left \in Nat /\ nextArrival \in Nat
            /\ busyTime[w] \in Nat
        <4>1. Left <= nextArrival /\ Left \in Nat /\ nextArrival \in Nat
          BY <2>0, OrderTypes
        <4>2. ASSUME NEW i \in DOMAIN completed
              PROVE  /\ completed[i].completed_at \in Nat
                     /\ completed[i].completed_at <= clock
                     /\ completed[i].completed_at \in Ends
                     /\ completed[i].arrival_order \in Nat
                     /\ completed[i].arrival_order < Left
          <5>1. completed[i] \in Range(completed) /\ completed[i] \in Done
            BY <2>0, Parts DEF Range
          <5>2. completed[i].completed_at <= clock /\ completed[i].arrival_order < Left
            BY <2>0 DEF OnTime, TakenInOrder
          <5> QED BY <5>1, <5>2 DEF Done
        <4>3. busyTime[w] \in Nat
          BY <2>0 DEF PoolType
        <4> QED BY <4>1, <4>2, <4>3
      <3>2. PICK i \in DOMAIN completed : TRUE
        <4>1. Len(completed) # 0 /\ DOMAIN completed = 1..Len(completed) /\ Len(completed) \in Nat
          BY <2>0, <2>3, Parts, EmptySeq DEF PoolType
        <4> QED BY <4>1
      <3>3. nextArrival # 0
        BY <3>1, <3>2
      <3>4. PICK t \in Nat : FirstAt(t) /\ BusySince(t)
        BY <1>1, <3>3 DEF BusyWithin
      <3>5. Payment(0).queued_at = t
        <4>1. PICK p \in Payments : p.arrival_order = 0 /\ p.queued_at = t
          BY <3>4 DEF FirstAt
        <4>2. Payment(0) \in Payments /\ Payment(0).arrival_order = 0
          BY <4>1 DEF Payment
        <4>3. Payment(0) = p
          BY <2>0, <4>1, <4>2, OneOfEachOrder
        <4> QED BY <4>1, <4>3
      <3>6. Ends \subseteq Int /\ Ends # {} /\ \A x \in Ends : x <= clock
        BY <3>1, <3>2 DEF Range
      <3>7. PICK j \in DOMAIN completed : busyTime[w] <= completed[j].completed_at - t
        <4>1. CASE busyTime[w] # 0
          BY <3>4, <4>1 DEF BusySince
        <4>2. CASE busyTime[w] = 0
          BY <3>1, <3>2, <3>4, <4>2 DEF BusySince
        <4> QED BY <4>1, <4>2
      <3>8. completed[j].completed_at \in Ends
        BY <3>1
      <3> HIDE DEF Ends
      <3>9. completed[j].completed_at <= Max(Ends) /\ Max(Ends) \in Int
        <4>1. clock \in Int
          BY <2>0
        <4>2. Max(Ends) \in Ends /\ \A x \in Ends : x <= Max(Ends)
          BY <3>6, <4>1, MaxOfBounded
        <4> QED BY <3>6, <3>8, <4>2
      <3>10. busyTime[w] <= Max(Ends) - t
        BY <3>1, <3>7, <3>9
      <3> QED BY <3>5, <3>10 DEF Elapsed, Ends
    <2> QED BY <2>1, <2>2, <2>3 DEF MetricsAddUp
  <1> DEFINE MInv == Inv /\ AreaExplained /\ BusyWithin
  <1>2. MInv => MetricsAddUp
    BY <1>1
  <1>3. Init => MInv
    BY InvInit, MetricsInit
  <1>4. MInv /\ [Next]_vars => MInv'
    BY InvStep, AreaKept, BusyKept
  <1> QED BY <1>2, <1>3, <1>4, PTL DEF Spec
=============================================================================
