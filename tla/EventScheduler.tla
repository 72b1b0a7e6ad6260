--------------------------- MODULE EventScheduler ---------------------------
(***************************************************************************)
(* The virtual clock and the synchronous event scheduler                   *)
(* (bank_sim/clock.py, bank_sim/scheduler.py).                             *)
(*                                                                         *)
(* The heap is a set of events: heapq's minimum is the least pair          *)
(* <<time, order>>, and order is unique.  A callback runs to completion    *)
(* inside run_next, so one step pops the event, moves the clock, performs  *)
(* every schedule_at call of the callback and, when it returns, records    *)
(* it.  A callback that raises keeps the events it had scheduled so far.   *)
(* Components instantiate this module and give Callbacks their own         *)
(* callbacks; on its own, a callback may schedule anything it is allowed   *)
(* to and may raise.                                                       *)
(***************************************************************************)
EXTENDS Integers, Sequences, FiniteSets

CONSTANTS Callbacks,  \* the callbacks that may be scheduled
          MaxTime,    \* bound: the last simulated time that is explored
          MaxEvents,  \* bound: how many events are ever scheduled
          MaxPush     \* bound: schedule_at calls made by one callback

ASSUME SchedulerBounds == /\ MaxTime \in Nat
                          /\ MaxEvents \in Nat
                          /\ MaxPush \in Nat

VARIABLES clock,      \* VirtualClock._time
          queue,      \* EventScheduler._queue
          nextOrder,  \* EventScheduler._next_order
          history,    \* EventScheduler._history
          lost,       \* auxiliary: events popped whose callback did not
                      \* complete, with the reason
          jumped      \* auxiliary: the latest time that code outside the
                      \* scheduler moved the clock to

vars == <<clock, queue, nextOrder, history, lost, jumped>>

Time == 0..MaxTime

Event == [time : Nat, order : Nat, callback : Callbacks]
Execution == [time : Nat, order : Nat]
Push == [time : Nat, callback : Callbacks]

\* What a callback may schedule when it runs at time t.
PushLists(t) ==
  UNION {[1..n -> [time : t..MaxTime, callback : Callbacks]] : n \in 0..MaxPush}

Init == /\ clock \in Time
        /\ queue = {}
        /\ nextOrder = 0
        /\ history = <<>>
        /\ lost = {}
        /\ jumped = 0
-----------------------------------------------------------------------------
(***************************************************************************)
(* Operators that components use.                                          *)
(***************************************************************************)
Before(e, f) == \/ e.time < f.time
                \/ e.time = f.time /\ e.order < f.order

\* Seeded bug: ties are broken arbitrarily instead of by insertion order.
IsNextAnyTie(e) == /\ e \in queue
                   /\ \A f \in queue : e.time <= f.time

\* e is the event that heappop returns.
IsNext(e) == /\ e \in queue
             /\ \A f \in queue \ {e} : Before(e, f)

\* The events created by the schedule_at calls of one callback, in order.
Pushed(pushes) ==
  {[time |-> pushes[i].time, order |-> nextOrder + i - 1,
    callback |-> pushes[i].callback] : i \in DOMAIN pushes}

\* Seeded bug: the event is popped only once its callback has returned.
RunEventPopLate(e, pushes, returns) ==
  /\ IsNext(e)
  /\ clock <= e.time
  /\ clock' = e.time
  /\ queue' = (IF returns THEN queue \ {e} ELSE queue) \cup Pushed(pushes)
  /\ nextOrder' = nextOrder + Len(pushes)
  /\ IF returns
     THEN /\ history' = Append(history, [time |-> e.time, order |-> e.order])
          /\ UNCHANGED lost
     ELSE /\ lost' = lost \cup {[event |-> e, cause |-> "raised"]}
          /\ UNCHANGED history
  /\ UNCHANGED jumped

\* run_next when the clock can advance: e is popped, the clock moves to its
\* time, the callback schedules pushes and then returns or raises.
RunEvent(e, pushes, returns) ==
  /\ IsNext(e)
  /\ clock <= e.time
  /\ clock' = e.time
  /\ queue' = (queue \ {e}) \cup Pushed(pushes)
  /\ nextOrder' = nextOrder + Len(pushes)
  /\ IF returns
     THEN /\ history' = Append(history, [time |-> e.time, order |-> e.order])
          /\ UNCHANGED lost
     ELSE /\ lost' = lost \cup {[event |-> e, cause |-> "raised"]}
          /\ UNCHANGED history
  /\ UNCHANGED jumped

\* Seeded bug: an event that cannot run stays at the head of the heap.
DropOverdueKeeps(e) ==
  /\ IsNext(e)
  /\ e.time < clock
  /\ lost' = lost \cup {[event |-> e, cause |-> "overdue"]}
  /\ UNCHANGED <<clock, queue, nextOrder, history, jumped>>

\* run_next when the clock is already past the event: the event is popped and
\* advance_to raises, so its callback never runs.
DropOverdue(e) ==
  /\ IsNext(e)
  /\ e.time < clock
  /\ queue' = queue \ {e}
  /\ lost' = lost \cup {[event |-> e, cause |-> "overdue"]}
  /\ UNCHANGED <<clock, nextOrder, history, jumped>>

\* schedule_at called between two events; a time in the past is refused.
\* schedule_after(delay) is ScheduleAt(clock + delay).
ScheduleAt(time, callback) ==
  /\ time >= clock
  /\ queue' = queue \cup {[time |-> time, order |-> nextOrder,
                           callback |-> callback]}
  /\ nextOrder' = nextOrder + 1
  /\ UNCHANGED <<clock, history, lost, jumped>>

\* clock.advance_to or advance_by called by code outside the scheduler.
AdvanceTo(time) ==
  /\ time \in Nat /\ time >= clock
  /\ clock' = time
  /\ jumped' = time
  /\ UNCHANGED <<queue, nextOrder, history, lost>>
-----------------------------------------------------------------------------
RunNext ==
  \E e \in queue :
    \/ DropOverdue(e)
    \/ \E pushes \in PushLists(e.time), returns \in BOOLEAN :
         /\ nextOrder + Len(pushes) <= MaxEvents
         /\ RunEvent(e, pushes, returns)

Schedule == /\ nextOrder < MaxEvents
            /\ \E time \in Time, callback \in Callbacks :
                 ScheduleAt(time, callback)

Jump == \E time \in Time : AdvanceTo(time)

Next == RunNext \/ Schedule \/ Jump

Spec == Init /\ [][Next]_vars

\* EventScheduler.run keeps calling run_next while an event is queued.
FairSpec == Spec /\ WF_vars(RunNext)
-----------------------------------------------------------------------------
(***************************************************************************)
(* The abstract specification that a component's steps on the shared clock *)
(* and heap have to implement.  It has no bounds: the events scheduled by  *)
(* a step are those that are new in its heap.                              *)
(***************************************************************************)
NewPushes == [i \in 1..(nextOrder' - nextOrder) |->
                LET e == CHOOSE f \in queue' : f.order = nextOrder + i - 1
                IN  [time |-> e.time, callback |-> e.callback]]

ContractNext ==
  \/ \E e \in queue :
       \/ DropOverdue(e)
       \/ /\ NewPushes \in Seq([time : Nat, callback : Callbacks])
          /\ \A i \in DOMAIN NewPushes : NewPushes[i].time >= e.time
          /\ \E returns \in BOOLEAN : RunEvent(e, NewPushes, returns)
  \/ /\ Len(NewPushes) = 1
     /\ NewPushes[1].time \in Nat /\ NewPushes[1].callback \in Callbacks
     /\ ScheduleAt(NewPushes[1].time, NewPushes[1].callback)
  \/ AdvanceTo(clock')

Contract == /\ clock \in Nat /\ queue = {} /\ nextOrder = 0
            /\ history = <<>> /\ lost = {} /\ jumped = 0
            /\ [][ContractNext]_vars
-----------------------------------------------------------------------------
(***************************************************************************)
(* Properties.                                                             *)
(***************************************************************************)
Cause == {"raised", "overdue"}

\* The type invariant of the clock, the heap and the execution history.
TypeOK == /\ clock \in Nat
          /\ queue \subseteq Event
          /\ nextOrder \in Nat
          /\ history \in Seq(Execution)
          /\ lost \subseteq [event : Event, cause : Cause]
          /\ jumped \in Nat

\* Callbacks complete in strictly increasing <<time, order>>: neither an event
\* scheduled by a callback for the current time, nor a clock moved from outside,
\* nor a raising callback makes an event complete before an earlier one
\* (scheduler.py, the module's docstring and run_next).
HistoryChronological ==
  \A i, j \in DOMAIN history : i < j => Before(history[i], history[j])

QueuedOrders == {e.order : e \in queue}
CompletedOrders == {history[i].order : i \in DOMAIN history}
LostOrders == {l.event.order : l \in lost}

\* Every event ever scheduled is in exactly one place: still queued, completed
\* once, or lost; no failure duplicates or forgets one (run_next pops before it
\* runs and records after).
EveryEventAccountedFor ==
  /\ QueuedOrders \cup CompletedOrders \cup LostOrders = 0..(nextOrder - 1)
  /\ QueuedOrders \cap CompletedOrders = {}
  /\ QueuedOrders \cap LostOrders = {}
  /\ CompletedOrders \cap LostOrders = {}

\* The clock only overtakes a queued event when code outside the scheduler moved
\* it; as long as only run_next moves the clock no event is dropped as overdue
\* (schedule_at's past-time check and heap order together).
OverdueOnlyByJump ==
  /\ \A e \in queue : e.time < clock => e.time < jumped
  /\ \A l \in lost : l.cause = "overdue" => l.event.time < jumped

\* Where every event is, and why: in one place, and given up as overdue only when
\* the clock was moved by others (the two definitions above, run_next).
EveryEventExplained == EveryEventAccountedFor /\ OverdueOnlyByJump

\* run empties the heap: every event that is queued leaves it, even when events
\* before it raise or are overdue (run's loop, with later events left queued
\* after an exception and the loop entered again).
EveryEventLeavesTheHeap ==
  \A o \in 0..(MaxEvents - 1) : (o \in QueuedOrders) ~> (o \notin QueuedOrders)
=============================================================================
