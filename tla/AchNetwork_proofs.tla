--------------------------- MODULE AchNetwork_proofs ---------------------------
(***************************************************************************)
(* Proofs about outbound ACH transfers and their returns, for any          *)
(* identifiers, accounts, requests and opening ledger.  Inv holds whatever *)
(* the callers do; DocumentedInv needs the documented use.  At the end,    *)
(* the settlement expectations of the workflows and their reconciliation.  *)
(***************************************************************************)
EXTENDS Settlement, DataLemmas

-----------------------------------------------------------------------------
(***************************************************************************)
(* The scheduler: what one step schedules keeps its contract.              *)
(***************************************************************************)
OrdersBelow == \A e \in queue : e.order < nextOrder

SchedInv == Sched!TypeOK /\ OrdersBelow

\* A schedule_at between two events is a step of the scheduler's contract.
LEMMA ScheduleAtKeepsContract ==
  ASSUME SchedInv, NEW time \in Nat, NEW callback \in Callback,
         Sched!ScheduleAt(time, callback)
  PROVE  SchedInv' /\ Sched!ContractNext
  <1> DEFINE new == [time |-> time, order |-> nextOrder, callback |-> callback]
             push == [time |-> time, callback |-> callback]
  <1>1. /\ queue' = queue \cup {new} /\ nextOrder' = nextOrder + 1
        /\ UNCHANGED <<clock, history, lost, jumped>>
        /\ nextOrder \in Nat
        /\ queue \subseteq Sched!Event
        /\ \A f \in queue : f.order < nextOrder /\ f.order \in Nat
    BY DEF Sched!ScheduleAt, SchedInv, OrdersBelow, Sched!TypeOK, Sched!Event
  <1>2. new \in Sched!Event /\ new.order = nextOrder
    BY <1>1 DEF Sched!Event
  <1>3. SchedInv'
    BY <1>1, <1>2 DEF SchedInv, OrdersBelow, Sched!TypeOK
  <1>4. (CHOOSE f \in queue' : f.order = nextOrder + 1 - 1) = new
    BY <1>1
  <1>5. nextOrder' - nextOrder = 1
    BY <1>1
  <1>6. Sched!NewPushes = [i \in 1..1 |-> push]
    <2>1. \A i \in 1..1 : (CHOOSE f \in queue' : f.order = nextOrder + i - 1) = new
      BY <1>4
    <2>2. [time |-> new.time, callback |-> new.callback] = push
      OBVIOUS
    <2> HIDE DEF new, push
    <2> QED BY <1>5, <2>1, <2>2 DEF Sched!NewPushes
  <1>7. Len(Sched!NewPushes) = 1 /\ Sched!NewPushes[1] = push
    BY <1>6
  <1>8. /\ Sched!NewPushes[1].time \in Nat /\ Sched!NewPushes[1].callback \in Callback
        /\ Sched!ScheduleAt(Sched!NewPushes[1].time, Sched!NewPushes[1].callback)
    BY <1>7
  <1> QED BY <1>3, <1>7, <1>8 DEF Sched!ContractNext

Push == [time : Nat, callback : Callback]

\* A run event whose callback schedules nothing, or one event that is not past,
\* is a step of the scheduler's contract.
LEMMA RunEventKeepsContract ==
  ASSUME SchedInv, NEW e \in queue, NEW pushes, NEW returns \in BOOLEAN,
         Sched!RunEvent(e, pushes, returns),
         \/ pushes = <<>>
         \/ \E p \in Push : pushes = <<p>> /\ p.time >= e.time
  PROVE  SchedInv' /\ Sched!ContractNext
  <1>1. /\ clock' = e.time /\ e.time \in Nat
        /\ queue' = (queue \ {e}) \cup Sched!Pushed(pushes)
        /\ nextOrder' = nextOrder + Len(pushes)
        /\ nextOrder \in Nat
        /\ queue \subseteq Sched!Event
        /\ \A f \in queue : f.order < nextOrder /\ f.order \in Nat
    BY DEF Sched!RunEvent, SchedInv, OrdersBelow, Sched!TypeOK, Sched!Event
  <1>2. /\ history' \in Seq(Sched!Execution)
        /\ lost' \subseteq [event : Sched!Event, cause : Sched!Cause]
        /\ jumped' \in Nat
    <2>1. history \in Seq(Sched!Execution) /\ [time |-> e.time, order |-> e.order] \in Sched!Execution
      BY <1>1 DEF SchedInv, Sched!TypeOK, Sched!Execution
    <2>2. Append(history, [time |-> e.time, order |-> e.order]) \in Seq(Sched!Execution)
      BY <2>1, AppendOne
    <2>3. [event |-> e, cause |-> "raised"] \in [event : Sched!Event, cause : Sched!Cause]
      BY <1>1 DEF Sched!Cause
    <2> QED BY <2>1, <2>2, <2>3 DEF Sched!RunEvent, SchedInv, Sched!TypeOK
  <1>3. CASE pushes = <<>>
    <2>1. Sched!Pushed(pushes) = {} /\ Len(pushes) = 0
      BY <1>3 DEF Sched!Pushed
    <2>2. queue' = queue \ {e} /\ nextOrder' = nextOrder
      BY <1>1, <2>1
    <2>3. SchedInv'
      BY <1>1, <1>2, <2>2 DEF SchedInv, OrdersBelow, Sched!TypeOK
    <2>4. Sched!NewPushes = <<>>
      <3>1. nextOrder' - nextOrder = 0
        BY <1>1, <2>2
      <3>2. 1..0 = {}
        OBVIOUS
      <3> QED BY <3>1, <3>2 DEF Sched!NewPushes
    <2>5. /\ Sched!NewPushes \in Seq([time : Nat, callback : Callback])
          /\ \A i \in DOMAIN Sched!NewPushes : Sched!NewPushes[i].time >= e.time
          /\ Sched!RunEvent(e, Sched!NewPushes, returns)
      BY <1>3, <2>4, EmptySeq
    <2> QED BY <2>3, <2>5 DEF Sched!ContractNext
  <1>4. ASSUME NEW p \in Push, pushes = <<p>>, p.time >= e.time
        PROVE  SchedInv' /\ Sched!ContractNext
    <2> DEFINE new == [time |-> p.time, order |-> nextOrder, callback |-> p.callback]
    <2>1. Sched!Pushed(pushes) = {new} /\ Len(pushes) = 1
      BY <1>1, <1>4 DEF Sched!Pushed
    <2>2. /\ queue' = (queue \ {e}) \cup {new} /\ nextOrder' = nextOrder + 1
          /\ new \in Sched!Event /\ new.order = nextOrder
      BY <1>1, <2>1 DEF Sched!Event, Push
    <2>3. SchedInv'
      BY <1>1, <1>2, <2>2 DEF SchedInv, OrdersBelow, Sched!TypeOK
    <2>4. (CHOOSE f \in queue' : f.order = nextOrder + 1 - 1) = new
      BY <1>1, <2>2
    <2>5. Sched!NewPushes = [i \in 1..1 |-> p]
      <3>1. \A i \in 1..1 : (CHOOSE f \in queue' : f.order = nextOrder + i - 1) = new
        BY <2>4
      <3>2. nextOrder' - nextOrder = 1
        BY <1>1, <2>2
      <3>3. p = [time |-> p.time, callback |-> p.callback]
        BY DEF Push
      <3>4. [time |-> new.time, callback |-> new.callback] = p
        BY <3>3
      <3> QED BY <3>1, <3>2, <3>4 DEF Sched!NewPushes
    <2>6. Sched!NewPushes = pushes
      BY <1>4, <2>5
    <2>7. pushes \in Seq(Push) /\ DOMAIN pushes = {1} /\ pushes[1] = p
      BY <1>4
    <2>8. /\ Sched!NewPushes \in Seq([time : Nat, callback : Callback])
          /\ \A i \in DOMAIN Sched!NewPushes : Sched!NewPushes[i].time >= e.time
          /\ Sched!RunEvent(e, Sched!NewPushes, returns)
      BY <1>4, <2>6, <2>7 DEF Push
    <2> QED BY <2>3, <2>8 DEF Sched!ContractNext
  <1> QED BY <1>3, <1>4

\* Dropping an overdue event is a step of the scheduler's contract.
LEMMA DropOverdueKeepsContract ==
  ASSUME SchedInv, NEW e \in queue, Sched!DropOverdue(e)
  PROVE  SchedInv' /\ Sched!ContractNext
  <1>1. [event |-> e, cause |-> "overdue"] \in [event : Sched!Event, cause : Sched!Cause]
    BY DEF Sched!Cause, SchedInv, Sched!TypeOK
  <1> QED BY <1>1 DEF Sched!DropOverdue, SchedInv, OrdersBelow, Sched!TypeOK,
                      Sched!ContractNext

\* So is moving the clock.
LEMMA AdvanceToKeepsContract ==
  ASSUME SchedInv, NEW time, Sched!AdvanceTo(time)
  PROVE  SchedInv' /\ Sched!ContractNext
  BY DEF Sched!AdvanceTo, SchedInv, OrdersBelow, Sched!TypeOK, Sched!ContractNext

\* A step that leaves the scheduler alone.
LEMMA SchedulerUntouched ==
  SchedInv /\ UNCHANGED schedVars => SchedInv'
  BY DEF schedVars, SchedInv, OrdersBelow, Sched!TypeOK
-----------------------------------------------------------------------------
(***************************************************************************)
(* The ledger: one append that it accepts.                                 *)
(***************************************************************************)
\* An accepted entry leaves a well-formed ledger well formed, and is a step of
\* the ledger's contract.
LEMMA AcceptedEntry ==
  ASSUME NEW s \in Seq(L!Entry), NEW e \in L!Entry,
         L!Canonical(s), L!UniqueIds(s), L!Accepts(s, e)
  PROVE  LET t == Append(s, e)
         IN  /\ t \in Seq(L!Entry) /\ L!Canonical(t) /\ L!UniqueIds(t)
             /\ L!Extends(s, t)
             /\ DOMAIN t = DOMAIN s \cup {Len(s) + 1}
             /\ Len(s) + 1 \notin DOMAIN s
             /\ \A i \in DOMAIN s : t[i] = s[i]
             /\ t[Len(s) + 1] = e
  <1> DEFINE t == Append(s, e)
             n == Len(s)
  <1>1. /\ n \in Nat /\ DOMAIN s = 1..n
        /\ \A i \in 1..n : s[i] \in L!Entry
    BY AppendOne
  <1>2. /\ t \in Seq(L!Entry) /\ Len(t) = n + 1
        /\ DOMAIN t = 1..(n + 1)
        /\ \A i \in 1..n : t[i] = s[i]
        /\ t[n + 1] = e
    BY AppendOne
  <1>3. /\ e.sequence = n + 1
        /\ \A i \in 1..n : s[i].entry_id # e.entry_id
        /\ e.posted_at >= L!LastPosted(s)
    BY <1>1 DEF L!Accepts, L!Ids
  <1>4. e.posted_at \in Nat /\ \A i \in 1..n : s[i].posted_at \in Nat
    BY <1>1 DEF L!Entry
  <1>5. n # 0 => s # <<>> /\ L!LastPosted(s) = s[n].posted_at
    BY <1>1 DEF L!LastPosted
  <1>6. SubSeq(t, n + 1, Len(t)) = <<e>>
    <2>1. SubSeq(Append(s, e), Len(s) + 1, Len(s) + 1) = <<e>>
      BY AppendedSuffix
    <2> QED BY <2>1, <1>2
  <1>7. t = s \o <<e>>
    BY AppendOne
  <1> HIDE DEF t, n
  <1>8. L!Canonical(t)
    <2>1. \A i \in DOMAIN t : t[i].sequence = i
      BY <1>1, <1>2, <1>3 DEF L!Canonical
    <2>2. \A i \in DOMAIN t \ {1} : t[i - 1].posted_at <= t[i].posted_at
      <3> SUFFICES ASSUME NEW i \in 1..(n + 1), i # 1
                   PROVE  t[i - 1].posted_at <= t[i].posted_at
        BY <1>2
      <3>1. CASE i = n + 1
        BY <3>1, <1>1, <1>2, <1>3, <1>4, <1>5
      <3>2. CASE i \in 1..n
        <4>1. i - 1 \in 1..n /\ i \in DOMAIN s \ {1}
          BY <3>2, <1>1
        <4> QED BY <4>1, <3>2, <1>2 DEF L!Canonical
      <3> QED BY <3>1, <3>2, <1>1
    <2> QED BY <2>1, <2>2 DEF L!Canonical
  <1>9. L!UniqueIds(t)
    BY <1>1, <1>2, <1>3 DEF L!UniqueIds
  <1>10. L!AcceptsBatch(s, <<e>>)
    <2>1. DOMAIN <<e>> = {1} /\ <<e>>[1] = e /\ <<e>> # <<>>
      OBVIOUS
    <2>2. \A j \in 1..(1 - 1) : <<e>>[j].entry_id # e.entry_id
      OBVIOUS
    <2> QED BY <2>1, <2>2 DEF L!Accepts, L!AcceptsBatch
  <1>11. L!Extends(s, t)
    BY <1>6, <1>7, <1>10 DEF L!Extends, t, n
  <1>12. /\ DOMAIN t = DOMAIN s \cup {n + 1}
         /\ n + 1 \notin DOMAIN s
    BY <1>1, <1>2
  <1> QED BY <1>1, <1>2, <1>8, <1>9, <1>11, <1>12 DEF t, n

-----------------------------------------------------------------------------
(***************************************************************************)
(* The workflows: the inductive invariant.                                 *)
(***************************************************************************)
\* The parts of TypeOK that the handlers change.
WorkType == /\ L!LedgerType
            /\ status \in [TransferIds -> TransferStatus]
            /\ request \in [TransferIds -> Requests \cup {None}]
            /\ pending \in Seq(Hold)
            /\ submissions \in Seq(TransferIds)
            /\ returnStatus \in [ReturnIds -> ReturnStatus]
            /\ returnRequest \in [ReturnIds -> ReturnRequests \cup {None}]
            /\ returnOf \in [TransferIds -> ReturnIds \cup {None}]

\* A workflow that was received has its request.
Asked == /\ \A t \in TransferIds : status[t] # "Unknown" => request[t] \in Requests
         /\ \A r \in ReturnIds :
              returnStatus[r] # "Unknown" => returnRequest[r] \in ReturnRequests

\* The holds are those of the transfers in flight whose holds could be built, one
\* for each.
HoldsInFlight ==
  /\ \A i, j \in DOMAIN pending :
       pending[i].transaction_id = pending[j].transaction_id => i = j
  /\ \A i \in DOMAIN pending :
       LET t == pending[i].transaction_id
       IN  /\ status[t] \in InFlight /\ request[t].described
           /\ pending[i].amount = request[t].amount
  /\ \A t \in TransferIds : status[t] \in InFlight /\ request[t].described =>
       \E i \in DOMAIN pending : pending[i].transaction_id = t

\* Every transfer from Submitted on was submitted, and at one place.
SubmittedOnce ==
  /\ \A i, j \in DOMAIN submissions : submissions[i] = submissions[j] => i = j
  /\ \A t \in TransferIds :
       status[t] \in {"Submitted", "Processing", "Completed"} <=>
         \E i \in DOMAIN submissions : submissions[i] = t

\* What the ledger holds of a workflow is what its completion recorded.
DebitsCompleted ==
  \A i \in DOMAIN entries, t \in TransferIds :
    entries[i].entry_id = <<t, "DEBIT">> =>
      /\ status[t] = "Completed"
      /\ entries[i].entry_type = L!DEBIT
      /\ entries[i].amount = request[t].amount
      /\ entries[i].account_id = request[t].source

CreditsCompleted ==
  \A i \in DOMAIN entries, r \in ReturnIds :
    entries[i].entry_id = <<r, "CREDIT">> =>
      /\ returnStatus[r] = "Completed"
      /\ entries[i].entry_type = L!CREDIT
      /\ entries[i].amount = returnRequest[r].amount
      /\ entries[i].account_id = request[returnRequest[r].original].source

Accepted == {"Validated", "Processing", "Completed"}

\* A return past validation corrects a completed transfer, of its amount, for
\* which it is the one that is registered.
ReturnsRegistered ==
  \A r \in ReturnIds : returnStatus[r] \in Accepted =>
    LET t == returnRequest[r].original
    IN  /\ status[t] = "Completed"
        /\ returnOf[t] = r
        /\ returnRequest[r].amount = request[t].amount

WorkInv == /\ WorkType
           /\ Asked
           /\ HoldsInFlight
           /\ SubmittedOnce
           /\ L!WellFormed
           /\ DebitsCompleted
           /\ CreditsCompleted
           /\ ReturnsRegistered

Inv == SchedInv /\ WorkInv

workVars == <<entries, transferVars, returnVars>>

\* A step that leaves the workflows and the ledger alone.
LEMMA WorkUntouched == WorkInv /\ UNCHANGED workVars => WorkInv'
  <1> SUFFICES ASSUME WorkInv, UNCHANGED workVars PROVE WorkInv'
    OBVIOUS
  <1>1. UNCHANGED <<entries, status, request, pending, submissions,
                    returnStatus, returnRequest, returnOf>>
    BY DEF workVars, transferVars, returnVars
  <1>2. WorkType' /\ Asked'
    BY <1>1 DEF WorkInv, WorkType, Asked, L!LedgerType
  <1>3. HoldsInFlight'
    BY <1>1 DEF WorkInv, HoldsInFlight
  <1>4. SubmittedOnce'
    BY <1>1 DEF WorkInv, SubmittedOnce
  <1>5. L!WellFormed'
    BY <1>1 DEF WorkInv, L!WellFormed
  <1>6. DebitsCompleted' /\ CreditsCompleted'
    BY <1>1 DEF WorkInv, DebitsCompleted, CreditsCompleted
  <1>7. ReturnsRegistered'
    BY <1>1 DEF WorkInv, ReturnsRegistered
  <1> QED BY <1>2, <1>3, <1>4, <1>5, <1>6, <1>7 DEF WorkInv
-----------------------------------------------------------------------------
(***************************************************************************)
(* What the handlers rest on.                                              *)
(***************************************************************************)
\* Where a transfer comes from when it moves.
LEMMA MovesFrom ==
  ASSUME WorkType, NEW t \in TransferIds
  PROVE  /\ CanMove(t, "Validated") => status[t] = "Received"
         /\ CanMove(t, "Rejected") => status[t] = "Received"
         /\ CanMove(t, "Pending") => status[t] = "Validated"
         /\ CanMove(t, "Submitted") => status[t] = "Pending"
         /\ CanMove(t, "Processing") => status[t] = "Submitted"
         /\ CanMove(t, "Completed") => status[t] = "Processing"
  BY DEF WorkType, CanMove, AllowedTransitions, TransferStatus

\* Where a return comes from when it moves.
LEMMA ReturnMovesFrom ==
  ASSUME WorkType, NEW r \in ReturnIds
  PROVE  /\ CanMoveReturn(r, "Validated") => returnStatus[r] = "Received"
         /\ CanMoveReturn(r, "Rejected") => returnStatus[r] = "Received"
         /\ CanMoveReturn(r, "Processing") => returnStatus[r] = "Validated"
         /\ CanMoveReturn(r, "Completed") => returnStatus[r] = "Processing"
  BY DEF WorkType, CanMoveReturn, AllowedReturnTransitions, ReturnStatus

\* A transfer's request is one of the requests, with its parts.
LEMMA RequestParts ==
  ASSUME WorkInv, NEW t \in TransferIds, status[t] # "Unknown"
  PROVE  /\ request[t] \in Requests
         /\ request[t].source \in AccountIds
         /\ request[t].amount \in Nat \ {0}
  BY AchInputs DEF WorkInv, Asked, TransferRequest

\* And so is a return's.
LEMMA ReturnRequestParts ==
  ASSUME WorkInv, NEW r \in ReturnIds, returnStatus[r] # "Unknown"
  PROVE  /\ returnRequest[r] \in ReturnRequests
         /\ returnRequest[r].original \in TransferIds
         /\ returnRequest[r].amount \in Nat \ {0}
  BY AchInputs DEF WorkInv, Asked, ReturnRequest

\* The ledger after an append that may raise.
LEMMA RecordedKeeps ==
  ASSUME L!LedgerType, L!WellFormed, NEW e \in L!Entry
  PROVE  LET s == Recorded(e)
         IN  /\ s \in Seq(L!Entry) /\ L!Canonical(s) /\ L!UniqueIds(s)
             /\ s = entries \/ L!Extends(entries, s)
             /\ \A i \in DOMAIN s : \/ i \in DOMAIN entries /\ s[i] = entries[i]
                                    \/ i = Len(entries) + 1 /\ s[i] = e
             /\ \A i \in DOMAIN entries : i \in DOMAIN s /\ s[i] = entries[i]
             /\ L!Accepts(entries, e) => /\ Len(entries) + 1 \in DOMAIN s
                                         /\ s[Len(entries) + 1] = e
  <1>1. CASE L!Accepts(entries, e)
    <2>1. Recorded(e) = Append(entries, e)
      BY <1>1 DEF Recorded
    <2>2. /\ Append(entries, e) \in Seq(L!Entry)
          /\ L!Canonical(Append(entries, e)) /\ L!UniqueIds(Append(entries, e))
          /\ L!Extends(entries, Append(entries, e))
          /\ DOMAIN Append(entries, e) = DOMAIN entries \cup {Len(entries) + 1}
          /\ Len(entries) + 1 \notin DOMAIN entries
          /\ \A i \in DOMAIN entries : Append(entries, e)[i] = entries[i]
          /\ Append(entries, e)[Len(entries) + 1] = e
      BY <1>1, AcceptedEntry DEF L!LedgerType, L!WellFormed
    <2> DEFINE s == Recorded(e)
    <2>3. /\ s \in Seq(L!Entry)
          /\ L!Canonical(s) /\ L!UniqueIds(s)
          /\ L!Extends(entries, s)
          /\ DOMAIN s = DOMAIN entries \cup {Len(entries) + 1}
          /\ \A i \in DOMAIN entries : s[i] = entries[i]
          /\ s[Len(entries) + 1] = e
      BY <2>1, <2>2
    <2> HIDE DEF s
    <2> QED BY <2>3 DEF s
  <1>2. CASE ~L!Accepts(entries, e)
    <2>1. Recorded(e) = entries
      BY <1>2 DEF Recorded
    <2> QED BY <1>2, <2>1 DEF L!LedgerType, L!WellFormed
  <1> QED BY <1>1, <1>2

\* complete drops the completed transfer's hold and no other.
LEMMA HoldsWithoutOne ==
  ASSUME WorkInv, NEW t \in TransferIds
  PROVE  LET p == HoldsWithout(t)
         IN  /\ p \in Seq(Hold)
             /\ \A i, j \in DOMAIN p : p[i].transaction_id = p[j].transaction_id => i = j
             /\ \A i \in DOMAIN p : /\ p[i].transaction_id # t
                                    /\ \E k \in DOMAIN pending : p[i] = pending[k]
             /\ \A k \in DOMAIN pending : pending[k].transaction_id # t =>
                  \E i \in DOMAIN p : p[i] = pending[k]
  <1> DEFINE n == Len(pending)
             keep == {k \in DOMAIN pending : pending[k].transaction_id # t}
             form(f) == f = [m \in 0..n |->
                               IF m = 0 THEN <<>>
                               ELSE IF pending[m].transaction_id # t
                                    THEN Append(f[m - 1], pending[m])
                                    ELSE f[m - 1]]
             kept == CHOOSE f : form(f)
  <1>1. HoldsWithout(t) = kept[n]
    BY DEF HoldsWithout
  <1>2. pending \in Seq(Hold) /\ DOMAIN pending = 1..n /\ n \in Nat
    BY LenProperties DEF WorkInv, WorkType
  <1>3. ASSUME NEW f PROVE Filters(pending, keep, f) <=> form(f)
    <2>1. [m \in 0..n |-> IF m = 0 THEN <<>>
                          ELSE IF pending[m].transaction_id # t
                               THEN Append(f[m - 1], pending[m]) ELSE f[m - 1]]
            = [m \in 0..n |-> IF m = 0 THEN <<>>
                              ELSE IF m \in keep THEN Append(f[m - 1], pending[m])
                              ELSE f[m - 1]]
      <3>1. \A m \in 0..n : m # 0 => (m \in keep <=> pending[m].transaction_id # t)
        BY <1>2
      <3> HIDE DEF keep
      <3> QED BY <3>1
    <2> HIDE DEF keep
    <2> QED BY <2>1 DEF Filters
  <1>4. \E f : form(f)
    <2>1. PICK f : Filters(pending, keep, f)
      <3> HIDE DEF keep
      <3> QED BY <1>2, SomeFilter
    <2> QED BY <2>1, <1>3
  <1> HIDE DEF form
  <1>5. form(kept)
    BY <1>4
  <1> HIDE DEF kept
  <1>6. Filters(pending, keep, kept)
    BY <1>3, <1>5
  <1> DEFINE p == kept[n]
  <1> HIDE DEF keep
  <1>7. p \in Seq(Hold) /\ \E from : Kept(pending, keep, n, p, from)
    BY <1>2, <1>6, FilterKeeps
  <1> HIDE DEF p
  <1>8. PICK from : Kept(pending, keep, n, p, from)
    BY <1>7
  <1>9. /\ from \in [DOMAIN p -> (1..n) \cap keep]
        /\ \A i \in DOMAIN p : p[i] = pending[from[i]]
        /\ \A i, j \in DOMAIN p : from[i] = from[j] => i = j
        /\ \A k \in (1..n) \cap keep : \E i \in DOMAIN p : from[i] = k
    BY <1>8 DEF Kept
  <1>10. \A i, j \in DOMAIN pending :
           pending[i].transaction_id = pending[j].transaction_id => i = j
    BY DEF WorkInv, HoldsInFlight
  <1>11. ASSUME NEW i \in DOMAIN p
         PROVE  /\ from[i] \in DOMAIN pending /\ p[i] = pending[from[i]]
                /\ p[i].transaction_id # t
    BY <1>2, <1>9 DEF keep
  <1>12. \A i, j \in DOMAIN p : p[i].transaction_id = p[j].transaction_id => i = j
    BY <1>9, <1>10, <1>11
  <1>13. ASSUME NEW k \in DOMAIN pending, pending[k].transaction_id # t
         PROVE  \E i \in DOMAIN p : p[i] = pending[k]
    <2>1. k \in (1..n) \cap keep
      BY <1>2, <1>13 DEF keep
    <2> QED BY <2>1, <1>9
  <1>14. HoldsWithout(t) = p
    BY <1>1 DEF p
  <1> QED BY <1>7, <1>11, <1>12, <1>13, <1>14
-----------------------------------------------------------------------------
(***************************************************************************)
(* Every handler and every call keeps the invariant.                       *)
(***************************************************************************)
FromSubmitted == {"Submitted", "Processing", "Completed"}

\* A hold names a transfer.
LEMMA HoldParts ==
  ASSUME WorkInv, NEW i \in DOMAIN pending
  PROVE  pending[i] \in Hold /\ pending[i].transaction_id \in TransferIds
  <1>1. pending \in Seq(Hold)
    BY DEF WorkInv, WorkType
  <1>2. pending[i] \in Hold
    BY <1>1, ElementOfSeq, LenProperties
  <1> QED BY <1>2 DEF Hold

\* A step that completes nothing, and leaves the ledger, the requests and the
\* returns alone, keeps what relates them.
LEMMA LedgerSideKeeps ==
  ASSUME WorkInv,
         UNCHANGED <<entries, request, returnStatus, returnRequest, returnOf>>,
         \A u \in TransferIds : status[u] = "Completed" => status'[u] = "Completed"
  PROVE  L!WellFormed' /\ DebitsCompleted' /\ CreditsCompleted' /\ ReturnsRegistered'
  <1>1. L!WellFormed' /\ CreditsCompleted' /\ DebitsCompleted'
    BY DEF WorkInv, L!WellFormed, CreditsCompleted, DebitsCompleted
  <1>2. ReturnsRegistered'
    <2> SUFFICES ASSUME NEW r \in ReturnIds, returnStatus[r] \in Accepted
                 PROVE  LET u == returnRequest[r].original
                        IN  /\ status'[u] = "Completed"
                            /\ returnOf[u] = r
                            /\ returnRequest[r].amount = request[u].amount
      BY DEF ReturnsRegistered
    <2>1. returnRequest[r].original \in TransferIds
      BY ReturnRequestParts DEF Accepted
    <2> QED BY <2>1 DEF WorkInv, ReturnsRegistered
  <1> QED BY <1>1, <1>2

\* A transfer that has not completed moves, and nothing else changes; the hold
\* and the submission stay what the new status calls for.
LEMMA PlainMove ==
  ASSUME WorkInv, NEW t \in TransferIds, NEW to \in TransferStatus,
         MoveTo(t, to),
         UNCHANGED <<entries, request, pending, submissions, returnVars>>,
         status[t] \notin {"Unknown", "Completed"},
         status[t] \in InFlight <=> to \in InFlight,
         status[t] \in FromSubmitted <=> to \in FromSubmitted
  PROVE  WorkInv'
  <1>1. /\ status' = [status EXCEPT ![t] = to]
        /\ UNCHANGED <<entries, request, pending, submissions,
                       returnStatus, returnRequest, returnOf>>
        /\ status \in [TransferIds -> TransferStatus]
    BY DEF MoveTo, returnVars, WorkInv, WorkType
  <1>2. \A u \in TransferIds :
          /\ status'[u] = IF u = t THEN to ELSE status[u]
          /\ status[u] = "Completed" => status'[u] = "Completed"
          /\ status'[u] \in InFlight <=> status[u] \in InFlight
          /\ status'[u] \in FromSubmitted <=> status[u] \in FromSubmitted
          /\ status'[u] # "Unknown" => status[u] # "Unknown"
    BY <1>1
  <1>3. WorkType'
    BY <1>1 DEF WorkInv, WorkType, L!LedgerType
  <1>4. Asked'
    BY <1>1, <1>2 DEF WorkInv, Asked
  <1>5. HoldsInFlight'
    <2>1. \A i \in DOMAIN pending : pending[i].transaction_id \in TransferIds
      BY HoldParts
    <2> QED BY <1>1, <1>2, <2>1 DEF WorkInv, HoldsInFlight
  <1>6. SubmittedOnce'
    BY <1>1, <1>2 DEF WorkInv, SubmittedOnce, FromSubmitted
  <1>7. L!WellFormed' /\ DebitsCompleted' /\ CreditsCompleted' /\ ReturnsRegistered'
    BY <1>1, <1>2, LedgerSideKeeps
  <1> QED BY <1>3, <1>4, <1>5, <1>6, <1>7 DEF WorkInv

LEMMA ValidateKeeps ==
  ASSUME WorkInv, NEW t \in TransferIds, _validate(t)
  PROVE  WorkInv'
  <1>1. status[t] = "Received"
    BY MovesFrom DEF WorkInv, _validate
  <1>2. PICK to \in {"Validated", "Rejected"} : MoveTo(t, to)
    BY DEF _validate
  <1> QED BY <1>1, <1>2, PlainMove DEF _validate, TransferStatus, InFlight, FromSubmitted

LEMMA RejectKeeps ==
  ASSUME WorkInv, NEW t \in TransferIds, reject(t)
  PROVE  WorkInv'
  <1>1. status[t] = "Received"
    BY MovesFrom DEF WorkInv, reject
  <1> QED BY <1>1, PlainMove DEF reject, TransferStatus, InFlight, FromSubmitted

LEMMA ProcessKeeps ==
  ASSUME WorkInv, NEW t \in TransferIds, process(t)
  PROVE  WorkInv'
  <1>1. status[t] = "Submitted"
    BY MovesFrom DEF WorkInv, process
  <1> QED BY <1>1, PlainMove DEF process, TransferStatus, InFlight, FromSubmitted

\* The hold is built.
LEMMA HeldPendingKeeps ==
  ASSUME WorkInv, NEW t \in TransferIds, _mark_pending(t), request[t].described
  PROVE  WorkInv'
  <1> DEFINE hold == [transaction_id |-> t, amount |-> request[t].amount,
                      sequence |-> Len(pending) + 1]
             n == Len(pending)
  <1>1. /\ status[t] = "Validated"
        /\ status' = [status EXCEPT ![t] = "Pending"]
        /\ pending' = Append(pending, hold)
        /\ UNCHANGED <<entries, request, submissions,
                       returnStatus, returnRequest, returnOf>>
        /\ status \in [TransferIds -> TransferStatus]
        /\ pending \in Seq(Hold)
    BY MovesFrom DEF _mark_pending, MoveTo, returnVars, WorkInv, WorkType
  <1>2. \A u \in TransferIds :
          /\ status'[u] = IF u = t THEN "Pending" ELSE status[u]
          /\ status[u] = "Completed" => status'[u] = "Completed"
          /\ status'[u] \in FromSubmitted <=> status[u] \in FromSubmitted
          /\ status'[u] # "Unknown" => status[u] # "Unknown"
    BY <1>1 DEF FromSubmitted
  <1>3. hold \in Hold
    <2>1. n + 1 \in Nat \ {0}
      BY <1>1, LenProperties
    <2>2. request[t].amount \in Nat \ {0}
      BY <1>1, RequestParts
    <2> QED BY <2>1, <2>2 DEF Hold
  <1> HIDE DEF hold, n
  <1>4. /\ pending' \in Seq(Hold) /\ n \in Nat
        /\ DOMAIN pending = 1..n /\ DOMAIN pending' = 1..(n + 1)
        /\ \A i \in 1..n : pending'[i] = pending[i] /\ pending[i] \in Hold
        /\ pending'[n + 1] = hold
    BY <1>1, <1>3, AppendOne DEF n
  <1>5. WorkType'
    BY <1>1, <1>4 DEF WorkInv, WorkType, L!LedgerType, TransferStatus
  <1>6. Asked'
    BY <1>1, <1>2 DEF WorkInv, Asked
  <1>7. HoldsInFlight'
    <2>1. \A i \in 1..n : /\ pending[i].transaction_id \in TransferIds
                          /\ status[pending[i].transaction_id] \in InFlight
                          /\ request[pending[i].transaction_id].described
                          /\ pending[i].transaction_id # t
                          /\ pending[i].amount = request[pending[i].transaction_id].amount
      BY <1>1, <1>4 DEF WorkInv, HoldsInFlight, InFlight, Hold
    <2>2. hold.transaction_id = t /\ hold.amount = request[t].amount
      BY DEF hold
    <2>3. \A i \in 1..(n + 1) : i \in 1..n \/ i = n + 1
      BY <1>4
    <2>4. \A i, j \in 1..(n + 1) :
            pending'[i].transaction_id = pending'[j].transaction_id => i = j
      BY SMTT(30), <1>4, <2>1, <2>2, <2>3 DEF WorkInv, HoldsInFlight
    <2>5. \A i \in 1..(n + 1) :
            LET u == pending'[i].transaction_id
            IN  /\ status'[u] \in InFlight /\ request'[u].described
                /\ pending'[i].amount = request'[u].amount
      <3> SUFFICES ASSUME NEW i \in 1..(n + 1)
                   PROVE  LET u == pending'[i].transaction_id
                          IN  /\ status'[u] \in InFlight /\ request'[u].described
                              /\ pending'[i].amount = request'[u].amount
        OBVIOUS
      <3>1. CASE i = n + 1
        BY <3>1, <1>1, <1>2, <1>4, <2>2 DEF InFlight
      <3>2. CASE i \in 1..n
        BY <3>2, <1>1, <1>2, <1>4, <2>1
      <3> QED BY <3>1, <3>2, <2>3
    <2>6. \A u \in TransferIds : status'[u] \in InFlight /\ request'[u].described =>
            \E i \in 1..(n + 1) : pending'[i].transaction_id = u
      <3> SUFFICES ASSUME NEW u \in TransferIds, status'[u] \in InFlight,
                          request'[u].described
                   PROVE  \E i \in 1..(n + 1) : pending'[i].transaction_id = u
        OBVIOUS
      <3>1. CASE u = t
        <4>1. n + 1 \in 1..(n + 1)
          BY <1>4
        <4> QED BY <4>1, <3>1, <1>4, <2>2
      <3>2. CASE u # t
        <4>1. PICK i \in 1..n : pending[i].transaction_id = u
          BY <3>2, <1>1, <1>2, <1>4 DEF WorkInv, HoldsInFlight
        <4>2. i \in 1..(n + 1)
          BY <1>4
        <4> QED BY <4>1, <4>2, <1>4
      <3> QED BY <3>1, <3>2
    <2> QED BY <1>4, <2>4, <2>5, <2>6 DEF HoldsInFlight
  <1>8. SubmittedOnce'
    BY <1>1, <1>2 DEF WorkInv, SubmittedOnce, FromSubmitted
  <1>9. L!WellFormed' /\ DebitsCompleted' /\ CreditsCompleted' /\ ReturnsRegistered'
    BY <1>1, <1>2, LedgerSideKeeps
  <1> QED BY <1>5, <1>6, <1>7, <1>8, <1>9 DEF WorkInv

\* The hold is refused: the transfer is Pending without one.
LEMMA StrandedPendingKeeps ==
  ASSUME WorkInv, NEW t \in TransferIds, _mark_pending(t), ~request[t].described
  PROVE  WorkInv'
  <1>1. /\ status[t] = "Validated"
        /\ status' = [status EXCEPT ![t] = "Pending"]
        /\ UNCHANGED <<entries, request, pending, submissions,
                       returnStatus, returnRequest, returnOf>>
        /\ status \in [TransferIds -> TransferStatus]
    BY MovesFrom DEF _mark_pending, MoveTo, returnVars, WorkInv, WorkType
  <1>2. \A u \in TransferIds :
          /\ status'[u] = IF u = t THEN "Pending" ELSE status[u]
          /\ status[u] = "Completed" => status'[u] = "Completed"
          /\ status'[u] \in FromSubmitted <=> status[u] \in FromSubmitted
          /\ status'[u] # "Unknown" => status[u] # "Unknown"
          /\ status[u] \in InFlight => u # t
    BY <1>1 DEF FromSubmitted, InFlight
  <1>3. WorkType'
    BY <1>1 DEF WorkInv, WorkType, L!LedgerType, TransferStatus
  <1>4. Asked'
    BY <1>1, <1>2 DEF WorkInv, Asked
  <1>5. HoldsInFlight'
    <2>1. \A i \in DOMAIN pending : pending[i].transaction_id \in TransferIds
      BY HoldParts
    <2> QED BY <1>1, <1>2, <2>1 DEF WorkInv, HoldsInFlight
  <1>6. SubmittedOnce'
    BY <1>1, <1>2 DEF WorkInv, SubmittedOnce, FromSubmitted
  <1>7. L!WellFormed' /\ DebitsCompleted' /\ CreditsCompleted' /\ ReturnsRegistered'
    BY <1>1, <1>2, LedgerSideKeeps
  <1> QED BY <1>3, <1>4, <1>5, <1>6, <1>7 DEF WorkInv

LEMMA MarkPendingKeeps ==
  ASSUME WorkInv, NEW t \in TransferIds, _mark_pending(t)
  PROVE  WorkInv'
  BY HeldPendingKeeps, StrandedPendingKeeps

LEMMA SubmitKeeps ==
  ASSUME WorkInv, NEW t \in TransferIds, submit(t)
  PROVE  WorkInv'
  <1> DEFINE n == Len(submissions)
  <1>1. /\ status[t] = "Pending"
        /\ status' = [status EXCEPT ![t] = "Submitted"]
        /\ submissions' = Append(submissions, t)
        /\ UNCHANGED <<entries, request, pending,
                       returnStatus, returnRequest, returnOf>>
        /\ status \in [TransferIds -> TransferStatus]
        /\ submissions \in Seq(TransferIds)
    BY MovesFrom DEF submit, MoveTo, returnVars, WorkInv, WorkType
  <1>2. \A u \in TransferIds :
          /\ status'[u] = IF u = t THEN "Submitted" ELSE status[u]
          /\ status[u] = "Completed" => status'[u] = "Completed"
          /\ status'[u] \in InFlight <=> status[u] \in InFlight
          /\ status'[u] # "Unknown" => status[u] # "Unknown"
    BY <1>1 DEF InFlight
  <1> HIDE DEF n
  <1>3. /\ submissions' \in Seq(TransferIds) /\ n \in Nat
        /\ DOMAIN submissions = 1..n /\ DOMAIN submissions' = 1..(n + 1)
        /\ \A i \in 1..n : submissions'[i] = submissions[i] /\ submissions[i] \in TransferIds
        /\ submissions'[n + 1] = t
    BY <1>1, AppendOne DEF n
  <1>4. WorkType'
    BY <1>1, <1>3 DEF WorkInv, WorkType, L!LedgerType, TransferStatus
  <1>5. Asked'
    BY <1>1, <1>2 DEF WorkInv, Asked
  <1>6. HoldsInFlight'
    <2>1. \A i \in DOMAIN pending : pending[i].transaction_id \in TransferIds
      BY HoldParts
    <2> QED BY <1>1, <1>2, <2>1 DEF WorkInv, HoldsInFlight
  <1>7. SubmittedOnce'
    <2>1. \A i \in 1..n : submissions[i] # t
      BY <1>1, <1>3 DEF WorkInv, SubmittedOnce
    <2>2. \A i \in 1..(n + 1) : i \in 1..n \/ i = n + 1
      BY <1>3
    <2>3. \A i, j \in 1..(n + 1) : submissions'[i] = submissions'[j] => i = j
      BY <1>3, <2>1, <2>2 DEF WorkInv, SubmittedOnce
    <2>4. ASSUME NEW u \in TransferIds
          PROVE  status'[u] \in FromSubmitted <=>
                   \E i \in 1..(n + 1) : submissions'[i] = u
      <3>1. CASE u = t
        <4>1. n + 1 \in 1..(n + 1)
          BY <1>3
        <4> QED BY <4>1, <3>1, <1>2, <1>3 DEF FromSubmitted
      <3>2. CASE u # t
        <4>1. status'[u] = status[u]
          BY <3>2, <1>2
        <4>2. status[u] \in FromSubmitted <=> \E i \in 1..n : submissions[i] = u
          BY <1>3 DEF WorkInv, SubmittedOnce, FromSubmitted
        <4>3. (\E i \in 1..n : submissions[i] = u)
                <=> \E i \in 1..(n + 1) : submissions'[i] = u
          BY <3>2, <1>3, <2>2
        <4> QED BY <4>1, <4>2, <4>3
      <3> QED BY <3>1, <3>2
    <2> QED BY <1>3, <2>3, <2>4 DEF SubmittedOnce, FromSubmitted
  <1>8. L!WellFormed' /\ DebitsCompleted' /\ CreditsCompleted' /\ ReturnsRegistered'
    BY <1>1, <1>2, LedgerSideKeeps
  <1> QED BY <1>4, <1>5, <1>6, <1>7, <1>8 DEF WorkInv

\* The debit is an entry of the ledger.
LEMMA DebitTyped ==
  ASSUME WorkInv, NEW t \in TransferIds, status[t] # "Unknown"
  PROVE  DebitEntry(t) \in L!Entry
  <1>1. request[t].source \in AccountIds /\ request[t].amount \in Nat \ {0}
    BY RequestParts
  <1>2. Len(entries) + 1 \in Nat \ {0}
    BY LenProperties DEF WorkInv, WorkType, L!LedgerType
  <1>3. <<t, "DEBIT">> \in EntryIds
    BY DEF EntryIds
  <1> QED BY <1>1, <1>2, <1>3 DEF DebitEntry, Entry, L!Entry, L!DEBIT, L!CREDIT

LEMMA CompleteKeeps ==
  ASSUME WorkInv, NEW t \in TransferIds, complete(t)
  PROVE  WorkInv' /\ (entries' = entries \/ L!Extends(entries, entries'))
  <1> DEFINE e == DebitEntry(t)
             n == Len(entries) + 1
  <1>1. /\ status[t] = "Processing"
        /\ status' = [status EXCEPT ![t] = "Completed"]
        /\ pending' = HoldsWithout(t)
        /\ entries' = IF request[t].described THEN Recorded(e) ELSE entries
        /\ UNCHANGED <<request, submissions, returnStatus, returnRequest, returnOf>>
        /\ status \in [TransferIds -> TransferStatus]
    BY MovesFrom DEF complete, MoveTo, returnVars, WorkInv, WorkType
  <1>2. \A u \in TransferIds :
          /\ status'[u] = IF u = t THEN "Completed" ELSE status[u]
          /\ status[u] = "Completed" => status'[u] = "Completed"
          /\ status'[u] \in FromSubmitted <=> status[u] \in FromSubmitted
          /\ status'[u] \in InFlight <=> status[u] \in InFlight /\ u # t
          /\ status'[u] # "Unknown" => status[u] # "Unknown"
    BY <1>1 DEF FromSubmitted, InFlight
  <1>3. /\ pending' \in Seq(Hold)
        /\ \A i, j \in DOMAIN pending' :
             pending'[i].transaction_id = pending'[j].transaction_id => i = j
        /\ \A i \in DOMAIN pending' : /\ pending'[i].transaction_id # t
                                      /\ \E k \in DOMAIN pending : pending'[i] = pending[k]
        /\ \A k \in DOMAIN pending : pending[k].transaction_id # t =>
             \E i \in DOMAIN pending' : pending'[i] = pending[k]
    BY <1>1, HoldsWithoutOne
  <1>4. /\ e.entry_id = <<t, "DEBIT">> /\ e.entry_type = L!DEBIT
        /\ e.amount = request[t].amount /\ e.account_id = request[t].source
    BY DEF DebitEntry, Entry
  <1>5. e \in L!Entry
    BY <1>1, DebitTyped
  <1> HIDE DEF e
  <1>6. /\ entries' \in Seq(L!Entry) /\ L!Canonical(entries') /\ L!UniqueIds(entries')
        /\ entries' = entries \/ L!Extends(entries, entries')
        /\ \A i \in DOMAIN entries' : \/ i \in DOMAIN entries /\ entries'[i] = entries[i]
                                      \/ i = n /\ entries'[i] = e
    BY <1>1, <1>5, RecordedKeeps DEF WorkInv, WorkType, L!LedgerType, L!WellFormed
  <1>7. WorkType'
    BY <1>1, <1>3, <1>6 DEF WorkInv, WorkType, L!LedgerType, TransferStatus
  <1>8. Asked'
    BY <1>1, <1>2 DEF WorkInv, Asked
  <1>9. HoldsInFlight'
    <2>1. ASSUME NEW i \in DOMAIN pending'
          PROVE  LET u == pending'[i].transaction_id
                 IN  /\ status'[u] \in InFlight /\ request'[u].described
                     /\ pending'[i].amount = request'[u].amount
      <3>1. PICK k \in DOMAIN pending : pending'[i] = pending[k]
        BY <1>3
      <3>2. /\ pending[k].transaction_id \in TransferIds \ {t}
            /\ status[pending[k].transaction_id] \in InFlight
            /\ request[pending[k].transaction_id].described
            /\ pending[k].amount = request[pending[k].transaction_id].amount
        BY <1>3, <3>1, HoldParts DEF WorkInv, HoldsInFlight
      <3> QED BY <1>1, <1>2, <3>1, <3>2
    <2>2. ASSUME NEW u \in TransferIds, status'[u] \in InFlight, request'[u].described
          PROVE  \E i \in DOMAIN pending' : pending'[i].transaction_id = u
      <3>1. u # t /\ status[u] \in InFlight /\ request[u].described
        BY <2>2, <1>1, <1>2
      <3>2. PICK k \in DOMAIN pending : pending[k].transaction_id = u
        BY <3>1 DEF WorkInv, HoldsInFlight
      <3> QED BY <3>1, <3>2, <1>3
    <2> QED BY <1>3, <2>1, <2>2 DEF HoldsInFlight
  <1>10. SubmittedOnce'
    BY <1>1, <1>2 DEF WorkInv, SubmittedOnce, FromSubmitted
  <1>11. L!WellFormed'
    BY <1>6 DEF L!WellFormed
  <1>12. DebitsCompleted'
    <2> SUFFICES ASSUME NEW i \in DOMAIN entries', NEW u \in TransferIds,
                        entries'[i].entry_id = <<u, "DEBIT">>
                 PROVE  /\ status'[u] = "Completed"
                        /\ entries'[i].entry_type = L!DEBIT
                        /\ entries'[i].amount = request[u].amount
                        /\ entries'[i].account_id = request[u].source
      BY <1>1 DEF DebitsCompleted
    <2>1. CASE i \in DOMAIN entries /\ entries'[i] = entries[i]
      BY <2>1, <1>2 DEF WorkInv, DebitsCompleted
    <2>2. CASE i = n /\ entries'[i] = e
      <3>1. <<u, "DEBIT">> = <<t, "DEBIT">>
        BY <2>2, <1>4
      <3>2. u = t
        BY <3>1
      <3> QED BY <3>2, <2>2, <1>2, <1>4
    <2> QED BY <2>1, <2>2, <1>6
  <1>13. CreditsCompleted'
    <2> SUFFICES ASSUME NEW i \in DOMAIN entries', NEW r \in ReturnIds,
                        entries'[i].entry_id = <<r, "CREDIT">>
                 PROVE  i \in DOMAIN entries /\ entries'[i] = entries[i]
      BY <1>1 DEF WorkInv, CreditsCompleted
    <2>1. e.entry_id # <<r, "CREDIT">>
      BY <1>4
    <2> QED BY <2>1, <1>6
  <1>14. ReturnsRegistered'
    <2> SUFFICES ASSUME NEW r \in ReturnIds, returnStatus[r] \in Accepted
                 PROVE  LET u == returnRequest[r].original
                        IN  /\ status'[u] = "Completed"
                            /\ returnOf[u] = r
                            /\ returnRequest[r].amount = request[u].amount
      BY <1>1 DEF ReturnsRegistered
    <2>1. returnRequest[r].original \in TransferIds
      BY ReturnRequestParts DEF Accepted
    <2> QED BY <1>2, <2>1 DEF WorkInv, ReturnsRegistered
  <1> QED BY <1>6, <1>7, <1>8, <1>9, <1>10, <1>11, <1>12, <1>13, <1>14 DEF WorkInv

LEMMA ValidateReturnKeeps ==
  ASSUME WorkInv, NEW r \in ReturnIds, validate_return(r)
  PROVE  WorkInv'
  <1> DEFINE t == returnRequest[r].original
  <1>1. /\ returnStatus[r] = "Received"
        /\ UNCHANGED <<entries, status, request, pending, submissions, returnRequest>>
        /\ returnStatus \in [ReturnIds -> ReturnStatus]
        /\ returnOf \in [TransferIds -> ReturnIds \cup {None}]
    BY ReturnMovesFrom DEF validate_return, transferVars, WorkInv, WorkType
  <1>2. PICK to \in {"Validated", "Rejected"} :
               /\ returnStatus' = [returnStatus EXCEPT ![r] = to]
               /\ to = "Validated" => /\ AcceptableReturn(r)
                                      /\ returnOf' = [returnOf EXCEPT ![t] = r]
               /\ to = "Rejected" => returnOf' = returnOf
    BY DEF validate_return, MoveReturnTo
  <1>3. t \in TransferIds
    BY <1>1, ReturnRequestParts
  <1>4. \A q \in ReturnIds :
          /\ returnStatus'[q] = IF q = r THEN to ELSE returnStatus[q]
          /\ returnStatus'[q] # "Unknown" => returnStatus[q] # "Unknown"
          /\ returnStatus[q] = "Completed" => returnStatus'[q] = "Completed"
    BY <1>1, <1>2
  <1>5. WorkType'
    BY <1>1, <1>2, <1>3 DEF WorkInv, WorkType, L!LedgerType, ReturnStatus
  <1>6. Asked'
    BY <1>1, <1>4 DEF WorkInv, Asked
  <1>7. HoldsInFlight' /\ SubmittedOnce'
    BY <1>1 DEF WorkInv, HoldsInFlight, SubmittedOnce
  <1>8. L!WellFormed' /\ DebitsCompleted'
    BY <1>1 DEF WorkInv, L!WellFormed, DebitsCompleted
  <1>9. CreditsCompleted'
    BY <1>1, <1>4 DEF WorkInv, CreditsCompleted
  <1>10. ReturnsRegistered'
    <2> SUFFICES ASSUME NEW q \in ReturnIds, returnStatus'[q] \in Accepted
                 PROVE  LET u == returnRequest[q].original
                        IN  /\ status[u] = "Completed"
                            /\ returnOf'[u] = q
                            /\ returnRequest[q].amount = request[u].amount
      BY <1>1 DEF ReturnsRegistered
    <2>1. CASE q = r
      <3>1. to = "Validated"
        BY <2>1, <1>4 DEF Accepted
      <3> QED BY <2>1, <3>1, <1>1, <1>2, <1>3 DEF AcceptableReturn
    <2>2. CASE q # r
      <3>1. returnStatus[q] \in Accepted /\ returnStatus[q] # "Unknown"
        BY <2>2, <1>4 DEF Accepted
      <3>2. /\ status[returnRequest[q].original] = "Completed"
            /\ returnOf[returnRequest[q].original] = q
            /\ returnRequest[q].amount = request[returnRequest[q].original].amount
            /\ returnRequest[q].original \in TransferIds
        BY <3>1, ReturnRequestParts DEF WorkInv, ReturnsRegistered
      <3>3. to = "Validated" => returnRequest[q].original # t
        BY <3>2, <1>2, AchInputs DEF AcceptableReturn
      <3> QED BY <3>2, <3>3, <1>1, <1>2
    <2> QED BY <2>1, <2>2
  <1> QED BY <1>5, <1>6, <1>7, <1>8, <1>9, <1>10 DEF WorkInv

\* A return moves on after its validation, or is rejected instead of validated,
\* and nothing else changes.
LEMMA PlainReturnMove ==
  ASSUME WorkInv, NEW r \in ReturnIds, NEW to \in ReturnStatus \ {"Unknown"},
         MoveReturnTo(r, to),
         UNCHANGED <<entries, returnRequest, returnOf, transferVars>>,
         returnStatus[r] \notin {"Unknown", "Completed"},
         to \in Accepted => returnStatus[r] \in Accepted
  PROVE  WorkInv'
  <1>1. /\ returnStatus' = [returnStatus EXCEPT ![r] = to]
        /\ UNCHANGED <<entries, status, request, pending, submissions,
                       returnRequest, returnOf>>
        /\ returnStatus \in [ReturnIds -> ReturnStatus]
    BY DEF MoveReturnTo, transferVars, WorkInv, WorkType
  <1>2. \A q \in ReturnIds :
          /\ returnStatus'[q] = IF q = r THEN to ELSE returnStatus[q]
          /\ returnStatus'[q] # "Unknown" => returnStatus[q] # "Unknown"
          /\ returnStatus[q] = "Completed" => returnStatus'[q] = "Completed"
          /\ returnStatus'[q] \in Accepted => returnStatus[q] \in Accepted
    BY <1>1
  <1>3. WorkType'
    BY <1>1 DEF WorkInv, WorkType, L!LedgerType
  <1>4. Asked'
    BY <1>1, <1>2 DEF WorkInv, Asked
  <1>5. HoldsInFlight' /\ SubmittedOnce'
    BY <1>1 DEF WorkInv, HoldsInFlight, SubmittedOnce
  <1>6. L!WellFormed' /\ DebitsCompleted'
    BY <1>1 DEF WorkInv, L!WellFormed, DebitsCompleted
  <1>7. CreditsCompleted'
    BY <1>1, <1>2 DEF WorkInv, CreditsCompleted
  <1>8. ReturnsRegistered'
    BY <1>1, <1>2 DEF WorkInv, ReturnsRegistered
  <1> QED BY <1>3, <1>4, <1>5, <1>6, <1>7, <1>8 DEF WorkInv

LEMMA ProcessReturnKeeps ==
  ASSUME WorkInv, NEW r \in ReturnIds, process_return(r)
  PROVE  WorkInv'
  <1>1. returnStatus[r] = "Validated"
    BY ReturnMovesFrom DEF WorkInv, process_return
  <1> QED BY <1>1, PlainReturnMove DEF process_return, ReturnStatus, Accepted

LEMMA RejectReturnKeeps ==
  ASSUME WorkInv, NEW r \in ReturnIds, reject_return(r)
  PROVE  WorkInv'
  <1>1. returnStatus[r] = "Received"
    BY ReturnMovesFrom DEF WorkInv, reject_return
  <1> QED BY <1>1, PlainReturnMove DEF reject_return, ReturnStatus, Accepted

\* The credit is an entry of the ledger.
LEMMA CreditTyped ==
  ASSUME WorkInv, NEW r \in ReturnIds, returnStatus[r] \in Accepted, NEW now \in Nat
  PROVE  CreditEntry(r, now) \in L!Entry
  <1> DEFINE t == returnRequest[r].original
  <1>1. t \in TransferIds /\ returnRequest[r].amount \in Nat \ {0}
    BY ReturnRequestParts DEF Accepted
  <1>2. status[t] = "Completed"
    BY DEF WorkInv, ReturnsRegistered
  <1>3. request[t].source \in AccountIds
    BY <1>1, <1>2, RequestParts
  <1>4. Len(entries) + 1 \in Nat \ {0}
    BY LenProperties DEF WorkInv, WorkType, L!LedgerType
  <1>5. <<r, "CREDIT">> \in EntryIds
    BY DEF EntryIds
  <1> QED BY <1>1, <1>3, <1>4, <1>5 DEF CreditEntry, Entry, L!Entry, L!DEBIT, L!CREDIT

LEMMA CompleteReturnKeeps ==
  ASSUME WorkInv, NEW r \in ReturnIds, NEW now \in Nat, complete_return(r, now)
  PROVE  WorkInv' /\ (entries' = entries \/ L!Extends(entries, entries'))
  <1> DEFINE e == CreditEntry(r, now)
             n == Len(entries) + 1
  <1>1. /\ returnStatus[r] = "Processing"
        /\ returnStatus' = [returnStatus EXCEPT ![r] = "Completed"]
        /\ entries' = Recorded(e)
        /\ UNCHANGED <<status, request, pending, submissions, returnRequest, returnOf>>
        /\ returnStatus \in [ReturnIds -> ReturnStatus]
    BY ReturnMovesFrom DEF complete_return, MoveReturnTo, transferVars, WorkInv, WorkType
  <1>2. \A q \in ReturnIds :
          /\ returnStatus'[q] = IF q = r THEN "Completed" ELSE returnStatus[q]
          /\ returnStatus'[q] # "Unknown" => returnStatus[q] # "Unknown"
          /\ returnStatus[q] = "Completed" => returnStatus'[q] = "Completed"
          /\ returnStatus'[q] \in Accepted => returnStatus[q] \in Accepted
    BY <1>1 DEF Accepted
  <1>3. /\ e.entry_id = <<r, "CREDIT">> /\ e.entry_type = L!CREDIT
        /\ e.amount = returnRequest[r].amount
        /\ e.account_id = request[returnRequest[r].original].source
    BY DEF CreditEntry, Entry
  <1>4. e \in L!Entry
    BY <1>1, CreditTyped DEF Accepted
  <1> HIDE DEF e
  <1>5. /\ entries' \in Seq(L!Entry) /\ L!Canonical(entries') /\ L!UniqueIds(entries')
        /\ entries' = entries \/ L!Extends(entries, entries')
        /\ \A i \in DOMAIN entries' : \/ i \in DOMAIN entries /\ entries'[i] = entries[i]
                                      \/ i = n /\ entries'[i] = e
    BY <1>1, <1>4, RecordedKeeps DEF WorkInv, WorkType
  <1>6. WorkType'
    BY <1>1, <1>5 DEF WorkInv, WorkType, L!LedgerType, ReturnStatus
  <1>7. Asked'
    BY <1>1, <1>2 DEF WorkInv, Asked
  <1>8. HoldsInFlight' /\ SubmittedOnce'
    BY <1>1 DEF WorkInv, HoldsInFlight, SubmittedOnce
  <1>9. L!WellFormed'
    BY <1>5 DEF L!WellFormed
  <1>10. DebitsCompleted'
    <2> SUFFICES ASSUME NEW i \in DOMAIN entries', NEW u \in TransferIds,
                        entries'[i].entry_id = <<u, "DEBIT">>
                 PROVE  i \in DOMAIN entries /\ entries'[i] = entries[i]
      BY <1>1 DEF WorkInv, DebitsCompleted
    <2>1. e.entry_id # <<u, "DEBIT">>
      BY <1>3
    <2> QED BY <2>1, <1>5
  <1>11. CreditsCompleted'
    <2> SUFFICES ASSUME NEW i \in DOMAIN entries', NEW q \in ReturnIds,
                        entries'[i].entry_id = <<q, "CREDIT">>
                 PROVE  /\ returnStatus'[q] = "Completed"
                        /\ entries'[i].entry_type = L!CREDIT
                        /\ entries'[i].amount = returnRequest[q].amount
                        /\ entries'[i].account_id = request[returnRequest[q].original].source
      BY <1>1 DEF CreditsCompleted
    <2>1. CASE i \in DOMAIN entries /\ entries'[i] = entries[i]
      BY <2>1, <1>2 DEF WorkInv, CreditsCompleted
    <2>2. CASE i = n /\ entries'[i] = e
      <3>1. <<q, "CREDIT">> = <<r, "CREDIT">>
        BY <2>2, <1>3
      <3>2. q = r
        BY <3>1
      <3> QED BY <3>2, <2>2, <1>2, <1>3
    <2> QED BY <2>1, <2>2, <1>5
  <1>12. ReturnsRegistered'
    BY <1>1, <1>2 DEF WorkInv, ReturnsRegistered
  <1> QED BY <1>5, <1>6, <1>7, <1>8, <1>9, <1>10, <1>11, <1>12 DEF WorkInv

LEMMA ReceiveKeeps ==
  ASSUME WorkInv, NEW t \in TransferIds, NEW asked \in Requests, receive(t, asked)
  PROVE  WorkInv'
  <1>1. /\ status[t] = "Unknown"
        /\ status' = [status EXCEPT ![t] = "Received"]
        /\ request' = [request EXCEPT ![t] = asked]
        /\ UNCHANGED <<entries, pending, submissions,
                       returnStatus, returnRequest, returnOf>>
        /\ status \in [TransferIds -> TransferStatus]
        /\ request \in [TransferIds -> Requests \cup {None}]
    BY DEF receive, MoveTo, returnVars, WorkInv, WorkType
  <1>2. \A u \in TransferIds :
          /\ status'[u] = IF u = t THEN "Received" ELSE status[u]
          /\ request'[u] = IF u = t THEN asked ELSE request[u]
          /\ status[u] = "Completed" => status'[u] = "Completed" /\ u # t
          /\ status'[u] \in InFlight <=> status[u] \in InFlight
          /\ status[u] \in InFlight => u # t
          /\ status'[u] \in FromSubmitted <=> status[u] \in FromSubmitted
    BY <1>1 DEF InFlight, FromSubmitted
  <1>3. WorkType'
    BY <1>1 DEF WorkInv, WorkType, L!LedgerType, TransferStatus
  <1>4. Asked'
    BY <1>1, <1>2 DEF WorkInv, Asked
  <1>5. HoldsInFlight'
    <2>1. \A i \in DOMAIN pending : pending[i].transaction_id \in TransferIds
      BY HoldParts
    <2> QED BY <1>1, <1>2, <2>1 DEF WorkInv, HoldsInFlight
  <1>6. SubmittedOnce'
    BY <1>1, <1>2 DEF WorkInv, SubmittedOnce, FromSubmitted
  <1>7. L!WellFormed'
    BY <1>1 DEF WorkInv, L!WellFormed
  <1>8. DebitsCompleted'
    BY <1>1, <1>2 DEF WorkInv, DebitsCompleted
  <1>9. \A r \in ReturnIds : returnStatus[r] \in Accepted =>
          LET u == returnRequest[r].original
          IN  /\ u \in TransferIds /\ u # t
              /\ status[u] = "Completed" /\ status'[u] = "Completed"
              /\ request'[u] = request[u]
    <2> SUFFICES ASSUME NEW r \in ReturnIds, returnStatus[r] \in Accepted
                 PROVE  LET u == returnRequest[r].original
                        IN  /\ u \in TransferIds /\ u # t
                            /\ status[u] = "Completed" /\ status'[u] = "Completed"
                            /\ request'[u] = request[u]
      OBVIOUS
    <2>1. returnRequest[r].original \in TransferIds
      BY ReturnRequestParts DEF Accepted
    <2>2. status[returnRequest[r].original] = "Completed"
      BY DEF WorkInv, ReturnsRegistered
    <2> QED BY <2>1, <2>2, <1>2
  <1>10. CreditsCompleted'
    BY <1>1, <1>9 DEF WorkInv, CreditsCompleted, Accepted
  <1>11. ReturnsRegistered'
    BY <1>1, <1>9 DEF WorkInv, ReturnsRegistered
  <1> QED BY <1>3, <1>4, <1>5, <1>6, <1>7, <1>8, <1>10, <1>11 DEF WorkInv

LEMMA ReceiveReturnKeeps ==
  ASSUME WorkInv, NEW r \in ReturnIds, NEW asked \in ReturnRequests,
         receive_return(r, asked)
  PROVE  WorkInv'
  <1>1. /\ returnStatus[r] = "Unknown"
        /\ returnStatus' = [returnStatus EXCEPT ![r] = "Received"]
        /\ returnRequest' = [returnRequest EXCEPT ![r] = asked]
        /\ UNCHANGED <<entries, status, request, pending, submissions, returnOf>>
        /\ returnStatus \in [ReturnIds -> ReturnStatus]
        /\ returnRequest \in [ReturnIds -> ReturnRequests \cup {None}]
    BY DEF receive_return, MoveReturnTo, transferVars, WorkInv, WorkType
  <1>2. \A q \in ReturnIds :
          /\ returnStatus'[q] = IF q = r THEN "Received" ELSE returnStatus[q]
          /\ returnRequest'[q] = IF q = r THEN asked ELSE returnRequest[q]
          /\ returnStatus[q] = "Completed" => returnStatus'[q] = "Completed" /\ q # r
          /\ returnStatus'[q] \in Accepted => returnStatus[q] \in Accepted /\ q # r
    BY <1>1 DEF Accepted
  <1>3. WorkType'
    BY <1>1 DEF WorkInv, WorkType, L!LedgerType, ReturnStatus
  <1>4. Asked'
    BY <1>1, <1>2 DEF WorkInv, Asked
  <1>5. HoldsInFlight' /\ SubmittedOnce'
    BY <1>1 DEF WorkInv, HoldsInFlight, SubmittedOnce
  <1>6. L!WellFormed' /\ DebitsCompleted'
    BY <1>1 DEF WorkInv, L!WellFormed, DebitsCompleted
  <1>7. CreditsCompleted'
    BY <1>1, <1>2 DEF WorkInv, CreditsCompleted
  <1>8. ReturnsRegistered'
    BY <1>1, <1>2 DEF WorkInv, ReturnsRegistered
  <1> QED BY <1>3, <1>4, <1>5, <1>6, <1>7, <1>8 DEF WorkInv

\* A whole handler.
LEMMA HandlerKeeps ==
  ASSUME WorkInv, NEW call \in Callback, NEW now \in Nat, Handler(call, now)
  PROVE  WorkInv' /\ (entries' = entries \/ L!Extends(entries, entries'))
  <1>1. CASE call.op = "validate" /\ _validate(call.id)
    <2>1. call.id \in TransferIds
      BY <1>1 DEF Callback, TransferStage, ReturnStage
    <2> QED BY <1>1, <2>1, ValidateKeeps DEF _validate
  <1>2. CASE call.op = "mark_pending" /\ _mark_pending(call.id)
    <2>1. call.id \in TransferIds
      BY <1>2 DEF Callback, TransferStage, ReturnStage
    <2> QED BY <1>2, <2>1, MarkPendingKeeps DEF _mark_pending
  <1>3. CASE call.op = "submit" /\ submit(call.id)
    <2>1. call.id \in TransferIds
      BY <1>3 DEF Callback, TransferStage, ReturnStage
    <2> QED BY <1>3, <2>1, SubmitKeeps DEF submit
  <1>4. CASE call.op = "process" /\ process(call.id)
    <2>1. call.id \in TransferIds
      BY <1>4 DEF Callback, TransferStage, ReturnStage
    <2> QED BY <1>4, <2>1, ProcessKeeps DEF process
  <1>5. CASE call.op = "complete" /\ complete(call.id)
    <2>1. call.id \in TransferIds
      BY <1>5 DEF Callback, TransferStage, ReturnStage
    <2> QED BY <1>5, <2>1, CompleteKeeps
  <1>6. CASE call.op = "validate_return" /\ validate_return(call.id)
    <2>1. call.id \in ReturnIds
      BY <1>6 DEF Callback, TransferStage, ReturnStage
    <2> QED BY <1>6, <2>1, ValidateReturnKeeps DEF validate_return
  <1>7. CASE call.op = "process_return" /\ process_return(call.id)
    <2>1. call.id \in ReturnIds
      BY <1>7 DEF Callback, TransferStage, ReturnStage
    <2> QED BY <1>7, <2>1, ProcessReturnKeeps DEF process_return
  <1>8. CASE call.op = "complete_return" /\ complete_return(call.id, now)
    <2>1. call.id \in ReturnIds
      BY <1>8 DEF Callback, TransferStage, ReturnStage
    <2> QED BY <1>8, <2>1, CompleteReturnKeeps
  <1> QED BY <1>1, <1>2, <1>3, <1>4, <1>5, <1>6, <1>7, <1>8 DEF Handler

\* What a handler schedules is its workflow's next stage, not in the past.
LEMMA PushesTyped ==
  ASSUME NEW call \in Callback, NEW now \in Nat
  PROVE  \/ Pushes(call, now) = <<>>
         \/ \E p \in Push : Pushes(call, now) = <<p>> /\ p.time >= now
  <1>1. ASSUME Continues(call) PROVE NextStage(call, now) \in Push
    <2>1. call.op \in (TransferStage \cup ReturnStage) \ {"complete", "complete_return"}
      BY <1>1 DEF Callback, Continues
    <2>2. CASE call.op \in TransferStage \ {"complete"}
      <3>1. call.id \in TransferIds
        BY <2>2 DEF Callback, TransferStage, ReturnStage
      <3> QED BY <2>2, <3>1 DEF NextStage, Push, Callback, TransferStage
    <2>3. CASE call.op \in ReturnStage \ {"complete_return"}
      <3>1. call.id \in ReturnIds
        BY <2>3 DEF Callback, TransferStage, ReturnStage
      <3> QED BY <2>3, <3>1 DEF NextStage, Push, Callback, ReturnStage
    <2> QED BY <2>1, <2>2, <2>3
  <1> QED BY <1>1 DEF Pushes

\* A run event.
LEMMA RunNextKeeps ==
  ASSUME Inv, RunNext
  PROVE  /\ Inv' /\ Sched!ContractNext
         /\ entries' = entries \/ L!Extends(entries, entries')
  <1>0. SchedInv /\ WorkInv
    BY DEF Inv
  <1>1. PICK e \in queue :
          \/ /\ Sched!RunEvent(e, Pushes(e.callback, e.time),
                                  Returns(e.callback, e.time))
             /\ IF Enters(e.callback)
                THEN Handler(e.callback, e.time)
                ELSE UNCHANGED <<entries, transferVars, returnVars>>
          \/ /\ Sched!DropOverdue(e)
             /\ UNCHANGED <<entries, transferVars, returnVars>>
    BY DEF RunNext
  <1>2. e.callback \in Callback /\ e.time \in Nat
    BY <1>0 DEF SchedInv, Sched!TypeOK, Sched!Event
  <1>3. CASE /\ Sched!RunEvent(e, Pushes(e.callback, e.time),
                                  Returns(e.callback, e.time))
             /\ IF Enters(e.callback)
                THEN Handler(e.callback, e.time)
                ELSE UNCHANGED <<entries, transferVars, returnVars>>
    <2>1. Returns(e.callback, e.time) \in BOOLEAN
      BY DEF Returns
    <2>2. SchedInv' /\ Sched!ContractNext
      BY <1>0, <1>2, <1>3, <2>1, PushesTyped, RunEventKeepsContract
    <2>3. WorkInv' /\ (entries' = entries \/ L!Extends(entries, entries'))
      BY <1>0, <1>2, <1>3, HandlerKeeps, WorkUntouched DEF workVars
    <2> QED BY <2>2, <2>3 DEF Inv
  <1>4. CASE /\ Sched!DropOverdue(e)
             /\ UNCHANGED <<entries, transferVars, returnVars>>
    BY <1>0, <1>4, DropOverdueKeepsContract, WorkUntouched DEF workVars, Inv
  <1> QED BY <1>1, <1>3, <1>4

\* A stage called directly.
LEMMA CallStageKeeps ==
  ASSUME Inv, NEW call \in PublicCall, CallStage(call)
  PROVE  /\ Inv' /\ (Sched!ContractNext \/ UNCHANGED schedVars)
         /\ entries' = entries \/ L!Extends(entries, entries')
  <1>0. SchedInv /\ WorkInv /\ clock \in Nat
    BY DEF Inv, SchedInv, Sched!TypeOK
  <1>1. call \in Callback
    BY DEF PublicCall, Callback, TransferStage
  <1>2. /\ Handler(call, clock)
        /\ IF Pushes(call, clock) = <<>>
           THEN UNCHANGED schedVars
           ELSE Sched!ScheduleAt(Pushes(call, clock)[1].time,
                                 Pushes(call, clock)[1].callback)
    BY DEF CallStage
  <1>3. WorkInv' /\ (entries' = entries \/ L!Extends(entries, entries'))
    BY <1>0, <1>1, <1>2, HandlerKeeps
  <1>4. SchedInv' /\ (Sched!ContractNext \/ UNCHANGED schedVars)
    <2>1. CASE Pushes(call, clock) = <<>>
      BY <1>0, <1>2, <2>1, SchedulerUntouched
    <2>2. CASE \E p \in Push : Pushes(call, clock) = <<p>> /\ p.time >= clock
      <3>1. PICK p \in Push : Pushes(call, clock) = <<p>>
        BY <2>2
      <3>2. Sched!ScheduleAt(p.time, p.callback)
        BY <1>2, <3>1
      <3>3. p.time \in Nat /\ p.callback \in Callback
        BY DEF Push
      <3> QED BY <1>0, <3>2, <3>3, ScheduleAtKeepsContract
    <2> QED BY <1>0, <1>1, <2>1, <2>2, PushesTyped
  <1> QED BY <1>3, <1>4 DEF Inv

\* Every step keeps the invariant and both contracts.
LEMMA NextKeeps ==
  ASSUME Inv, Next
  PROVE  /\ Inv' /\ (Sched!ContractNext \/ UNCHANGED schedVars)
         /\ entries' = entries \/ L!Extends(entries, entries')
  <1>0. SchedInv /\ WorkInv /\ clock \in Nat
    BY DEF Inv, SchedInv, Sched!TypeOK
  <1>1. CASE RunNext
    BY <1>1, RunNextKeeps
  <1>2. ASSUME NEW t \in TransferIds, NEW asked \in Requests, receive(t, asked)
        PROVE  /\ Inv' /\ (Sched!ContractNext \/ UNCHANGED schedVars)
               /\ entries' = entries
    <2>1. WorkInv'
      BY <1>0, <1>2, ReceiveKeeps
    <2>2. [op |-> "validate", id |-> t] \in Callback
      BY DEF Callback, TransferStage
    <2>3. \/ Sched!ScheduleAt(1, [op |-> "validate", id |-> t])
          \/ UNCHANGED schedVars
      BY <1>2 DEF receive
    <2>4. SchedInv' /\ (Sched!ContractNext \/ UNCHANGED schedVars)
      BY <1>0, <2>2, <2>3, ScheduleAtKeepsContract, SchedulerUntouched
    <2> QED BY <1>2, <2>1, <2>4 DEF Inv, receive
  <1>3. ASSUME NEW r \in ReturnIds, NEW asked \in ReturnRequests,
               receive_return(r, asked)
        PROVE  Inv' /\ Sched!ContractNext /\ entries' = entries
    <2>1. WorkInv'
      BY <1>0, <1>3, ReceiveReturnKeeps
    <2>2. [op |-> "validate_return", id |-> r] \in Callback /\ clock + 1 \in Nat
      BY <1>0 DEF Callback, ReturnStage
    <2>3. Sched!ScheduleAt(clock + 1, [op |-> "validate_return", id |-> r])
      BY <1>3 DEF receive_return
    <2>4. SchedInv' /\ Sched!ContractNext
      BY <1>0, <2>2, <2>3, ScheduleAtKeepsContract
    <2> QED BY <1>3, <2>1, <2>4 DEF Inv, receive_return
  <1>4. CASE \E call \in PublicCall : CallStage(call)
    BY <1>4, CallStageKeeps
  <1>5. CASE \E t \in TransferIds : reject(t)
    BY <1>0, <1>5, RejectKeeps, SchedulerUntouched DEF reject, Inv
  <1>6. CASE \E r \in ReturnIds : reject_return(r)
    BY <1>0, <1>6, RejectReturnKeeps, SchedulerUntouched DEF reject_return, Inv
  <1>7. CASE \E time \in JumpTimes : Jump(time)
    BY <1>0, <1>7, AdvanceToKeepsContract, WorkUntouched DEF Jump, Inv, workVars
  <1> QED BY <1>1, <1>2, <1>3, <1>4, <1>5, <1>6, <1>7 DEF Next

LEMMA StutterKeeps ==
  Inv /\ UNCHANGED vars => Inv' /\ UNCHANGED schedVars /\ entries' = entries
  BY SchedulerUntouched, WorkUntouched DEF Inv, vars, workVars

LEMMA InitInv == Init => Inv
  <1> SUFFICES ASSUME Init PROVE Inv
    OBVIOUS
  <1>1. SchedInv
    BY EmptySeq DEF Init, Sched!Init, SchedInv, OrdersBelow, Sched!TypeOK
  <1>2. entries = OpeningEntries /\ L!LedgerType /\ L!WellFormed
    BY OpeningLedger DEF Init, L!LedgerType, L!WellFormed
  <1>3. /\ \A t \in TransferIds : status[t] = "Unknown"
        /\ \A r \in ReturnIds : returnStatus[r] = "Unknown"
        /\ pending = <<>> /\ submissions = <<>>
        /\ DOMAIN pending = {} /\ DOMAIN submissions = {}
    BY DEF Init
  <1>4. WorkType
    BY <1>2, EmptySeq DEF Init, WorkType, TransferStatus, ReturnStatus
  <1>5. Asked /\ HoldsInFlight /\ SubmittedOnce /\ ReturnsRegistered
    BY <1>3 DEF Asked, HoldsInFlight, SubmittedOnce, ReturnsRegistered, InFlight, Accepted
  <1>6. \A i \in DOMAIN entries : entries[i].entry_id \in OtherEntryIds
    BY <1>2, OpeningLedger DEF L!Ids
  <1>7. DebitsCompleted /\ CreditsCompleted
    <2>1. \A t \in TransferIds : <<t, "DEBIT">> \notin OtherEntryIds
      <3>1. \A t \in TransferIds : <<t, "DEBIT">> \in TransferIds \X {"DEBIT"}
        OBVIOUS
      <3> QED BY <3>1, OpeningLedger
    <2>2. \A r \in ReturnIds : <<r, "CREDIT">> \notin OtherEntryIds
      <3>1. \A r \in ReturnIds : <<r, "CREDIT">> \in ReturnIds \X {"CREDIT"}
        OBVIOUS
      <3> QED BY <3>1, OpeningLedger
    <2> QED BY <1>6, <2>1, <2>2 DEF DebitsCompleted, CreditsCompleted
  <1> QED BY <1>1, <1>2, <1>4, <1>5, <1>7 DEF Inv, WorkInv
-----------------------------------------------------------------------------
(***************************************************************************)
(* What holds whatever the callers do.                                     *)
(***************************************************************************)
\* The invariant holds of every behaviour.
THEOREM Invariant == Spec => []Inv
  <1>1. Inv /\ [Next]_vars => Inv'
    BY NextKeeps, StutterKeeps
  <1> QED BY <1>1, InitInv, PTL DEF Spec

\* Every variable of the network, its ledger and its scheduler keeps its type.
THEOREM TypeCorrect == Spec => []TypeOK
  <1>1. Inv => TypeOK
    BY DEF Inv, SchedInv, WorkInv, WorkType, TypeOK
  <1> QED BY <1>1, Invariant, PTL

\* Whatever is called out of turn, a transfer in flight has one hold, unless its
\* description was refused, and is handed to the network once (_mark_pending,
\* submit, complete).
THEOREM HeldOnce == Spec => []HeldAndSubmittedOnce
  <1>1. ASSUME Inv PROVE HeldAndSubmittedOnce
    <2>0. WorkInv
      BY <1>1 DEF Inv
    <2> SUFFICES ASSUME NEW t \in TransferIds
                 PROVE  /\ status[t] \in InFlight /\ request[t].described =>
                             \E i \in DOMAIN pending :
                               /\ HoldsOf(t) = {i}
                               /\ pending[i].amount = request[t].amount
                        /\ ~(status[t] \in InFlight /\ request[t].described) =>
                             HoldsOf(t) = {}
                        /\ Cardinality(Occurrences(t, submissions)) <= 1
                        /\ Occurrences(t, submissions) # {} <=>
                             status[t] \in {"Submitted", "Processing", "Completed"}
      BY DEF HeldAndSubmittedOnce
    <2>1. ASSUME status[t] \in InFlight, request[t].described
          PROVE  \E i \in DOMAIN pending : /\ HoldsOf(t) = {i}
                                           /\ pending[i].amount = request[t].amount
      BY <2>0, <2>1 DEF WorkInv, HoldsInFlight, HoldsOf
    <2>2. ~(status[t] \in InFlight /\ request[t].described) => HoldsOf(t) = {}
      BY <2>0 DEF WorkInv, HoldsInFlight, HoldsOf
    <2>3. \A i, j \in Occurrences(t, submissions) : i = j
      BY <2>0 DEF WorkInv, SubmittedOnce, Occurrences
    <2>4. Cardinality(Occurrences(t, submissions)) <= 1
      BY <2>3, NoTwo
    <2>5. Occurrences(t, submissions) # {} <=>
            status[t] \in {"Submitted", "Processing", "Completed"}
      BY <2>0 DEF WorkInv, SubmittedOnce, Occurrences
    <2> QED BY <2>1, <2>2, <2>4, <2>5
  <1> QED BY <1>1, Invariant, PTL

\* Whatever is called out of turn, a transfer is debited at most once and only
\* when it is completed, and of its returns at most one is accepted and credited
\* (the guarded transitions, _returns_by_transfer and the ledger's identifiers).
THEOREM MoneyOnce == Spec => []MoneyMovesOnce
  <1>1. ASSUME Inv PROVE MoneyMovesOnce
    <2>0. WorkInv
      BY <1>1 DEF Inv
    <2> SUFFICES ASSUME NEW t \in TransferIds
                 PROVE  LET accepted == {r \in ReturnIds :
                              /\ returnStatus[r] \in {"Validated", "Processing", "Completed"}
                              /\ returnRequest[r].original = t}
                        IN  /\ Cardinality(DebitsOf(t)) <= 1
                            /\ DebitsOf(t) # {} => status[t] = "Completed"
                            /\ Cardinality(accepted) <= 1
                            /\ accepted # {} => status[t] = "Completed"
                            /\ Cardinality(CreditsFor(t)) <= 1
                            /\ \A c \in CreditsFor(t) : \E r \in accepted :
                                 returnStatus[r] = "Completed" /\ c \in CreditOf(r)
      BY DEF MoneyMovesOnce
    <2> DEFINE accepted == {r \in ReturnIds :
                              /\ returnStatus[r] \in {"Validated", "Processing", "Completed"}
                              /\ returnRequest[r].original = t}
    <2>1. \A i, j \in DebitsOf(t) : i = j
      BY <2>0 DEF WorkInv, L!WellFormed, L!UniqueIds, DebitsOf
    <2>2. DebitsOf(t) # {} => status[t] = "Completed"
      BY <2>0 DEF WorkInv, DebitsCompleted, DebitsOf
    <2>3. \A r \in accepted : returnOf[t] = r /\ status[t] = "Completed"
      BY <2>0 DEF WorkInv, ReturnsRegistered, Accepted
    <2>4. \A r, q \in accepted : r = q
      BY <2>3
    <2>5. \A c \in CreditsFor(t) : \E r \in accepted :
            returnStatus[r] = "Completed" /\ c \in CreditOf(r)
      <3> SUFFICES ASSUME NEW c \in CreditsFor(t)
                   PROVE  \E r \in accepted :
                            returnStatus[r] = "Completed" /\ c \in CreditOf(r)
        OBVIOUS
      <3>1. PICK r \in ReturnIds : returnRequest[r].original = t /\ c \in CreditOf(r)
        BY DEF CreditsFor
      <3>2. returnStatus[r] = "Completed"
        BY <2>0, <3>1 DEF WorkInv, CreditsCompleted, CreditOf
      <3> QED BY <3>1, <3>2
    <2> HIDE DEF accepted
    <2>6. \A c, d \in CreditsFor(t) : c = d
      <3> SUFFICES ASSUME NEW c \in CreditsFor(t), NEW d \in CreditsFor(t)
                   PROVE  c = d
        OBVIOUS
      <3>1. PICK r \in accepted : c \in CreditOf(r) /\ d \in CreditOf(r)
        BY <2>4, <2>5
      <3> QED BY <2>0, <3>1 DEF WorkInv, L!WellFormed, L!UniqueIds, CreditOf
    <2>7. /\ Cardinality(DebitsOf(t)) <= 1
          /\ Cardinality(accepted) <= 1
          /\ Cardinality(CreditsFor(t)) <= 1
      BY <2>1, <2>4, <2>6, NoTwo
    <2>8. accepted # {} => status[t] = "Completed"
      BY <2>3
    <2> QED BY <2>2, <2>5, <2>7, <2>8 DEF accepted
  <1> QED BY <1>1, Invariant, PTL

LEMMA ClockIsTime == Inv => clock \in Nat /\ \A e \in queue : e.time \in Nat /\ e.callback \in Callback
  BY DEF Inv, SchedInv, Sched!TypeOK, Sched!Event

\* The places of a ledger that hold an entry with this identifier.
Under(led, id) == {i \in DOMAIN led : led[i].entry_id = id}

\* The debits of a transfer and the credit of a return, before and after a step.
LEMMA MoneyUnder ==
  /\ \A t \in TransferIds : /\ DebitsOf(t) = Under(entries, <<t, "DEBIT">>)
                            /\ DebitsOf(t)' = Under(entries', <<t, "DEBIT">>)
  /\ \A r \in ReturnIds : /\ CreditOf(r) = Under(entries, <<r, "CREDIT">>)
                          /\ CreditOf(r)' = Under(entries', <<r, "CREDIT">>)
  BY DEF Under, DebitsOf, CreditOf

\* What one recorded entry changes: nothing under other identifiers, and under its
\* own, if the ledger accepts it, one entry.
LEMMA RecordedUnderId ==
  ASSUME WorkInv, NEW e \in L!Entry, entries' = Recorded(e)
  PROVE  /\ \A id : id # e.entry_id => Under(entries', id) = Under(entries, id)
         /\ L!Accepts(entries, e) => Cardinality(Under(entries', e.entry_id)) = 1
  <1> DEFINE n == Len(entries) + 1
  <1>1. /\ \A i \in DOMAIN entries' : \/ i \in DOMAIN entries /\ entries'[i] = entries[i]
                                      \/ i = n /\ entries'[i] = e
        /\ \A i \in DOMAIN entries : i \in DOMAIN entries' /\ entries'[i] = entries[i]
        /\ L!Accepts(entries, e) => n \in DOMAIN entries' /\ entries'[n] = e
    BY RecordedKeeps DEF WorkInv, WorkType
  <1> HIDE DEF n
  <1>2. ASSUME NEW id, id # e.entry_id
        PROVE  Under(entries', id) = Under(entries, id)
    BY <1>1, <1>2 DEF Under
  <1>3. ASSUME L!Accepts(entries, e)
        PROVE  Cardinality(Under(entries', e.entry_id)) = 1
    <2>1. \A i \in DOMAIN entries : entries[i].entry_id # e.entry_id
      BY <1>3 DEF L!Accepts, L!Ids
    <2>2. Under(entries', e.entry_id) = {n}
      BY <1>1, <1>3, <2>1 DEF Under
    <2> QED BY <2>2, FS_Singleton
  <1> QED BY <1>2, <1>3

\* The last posting time is a number.
LEMMA LastPostedNat ==
  ASSUME WorkInv
  PROVE  L!LastPosted(entries) \in Nat
  <1>1. CASE entries = <<>>
    BY <1>1 DEF L!LastPosted
  <1>2. CASE entries # <<>>
    <2>1. entries \in Seq(L!Entry)
      BY DEF WorkInv, WorkType, L!LedgerType
    <2>2. Len(entries) \in DOMAIN entries
      BY <2>1, <1>2, LenProperties, EmptySeq
    <2>3. entries[Len(entries)] \in L!Entry
      BY <2>1, <2>2, ElementOfSeq, LenProperties
    <2> QED BY <2>3, <1>2 DEF L!LastPosted, L!Entry
  <1> QED BY <1>1, <1>2

\* What a step does to the money of completed workflows.
DebitMoves(t) ==
  /\ status[t] # "Completed" /\ status'[t] = "Completed" =>
       \/ Cardinality(DebitsOf(t)') = 1
       \/ ~request[t].described
       \/ L!LastPosted(entries) > 10
  /\ status[t] = "Completed" => status'[t] = "Completed" /\ DebitsOf(t)' = DebitsOf(t)

CreditMoves(r) ==
  /\ returnStatus[r] # "Completed" /\ returnStatus'[r] = "Completed" =>
       Cardinality(CreditOf(r)') = 1 \/ L!LastPosted(entries) > clock'
  /\ returnStatus[r] = "Completed" =>
       returnStatus'[r] = "Completed" /\ CreditOf(r)' = CreditOf(r)

MoneyMoves == /\ \A t \in TransferIds : DebitMoves(t)
              /\ \A r \in ReturnIds : CreditMoves(r)

\* A step that completes nothing and records nothing.
LEMMA NothingMoves ==
  ASSUME entries' = entries,
         \A t \in TransferIds : status'[t] = "Completed" <=> status[t] = "Completed",
         \A r \in ReturnIds :
           returnStatus'[r] = "Completed" <=> returnStatus[r] = "Completed"
  PROVE  MoneyMoves
  BY DEF MoneyMoves, DebitMoves, CreditMoves, DebitsOf, CreditOf

LEMMA CompleteMoves ==
  ASSUME WorkInv, NEW t \in TransferIds, complete(t)
  PROVE  MoneyMoves
  <1> DEFINE e == DebitEntry(t)
  <1>1. /\ status[t] = "Processing"
        /\ status' = [status EXCEPT ![t] = "Completed"]
        /\ entries' = IF request[t].described THEN Recorded(e) ELSE entries
        /\ returnStatus' = returnStatus
        /\ status \in [TransferIds -> TransferStatus]
    BY MovesFrom DEF complete, MoveTo, returnVars, WorkInv, WorkType
  <1>2. /\ e.entry_id = <<t, "DEBIT">> /\ e.posted_at = 10
        /\ e.sequence = Len(entries) + 1
    BY DEF DebitEntry, Entry
  <1>3. e \in L!Entry
    BY <1>1, DebitTyped
  <1>4. \A i \in DOMAIN entries : entries[i].entry_id # <<t, "DEBIT">>
    BY <1>1 DEF WorkInv, DebitsCompleted
  <1> HIDE DEF e
  <1>5. L!LastPosted(entries) <= 10 => L!Accepts(entries, e)
    <2>1. e.entry_id \notin L!Ids(entries)
      BY <1>2, <1>4 DEF L!Ids
    <2> QED BY <2>1, <1>2, LastPostedNat DEF L!Accepts
  <1>6. CASE request[t].described
    <2>0. /\ \A id : id # e.entry_id => Under(entries', id) = Under(entries, id)
          /\ L!Accepts(entries, e) => Cardinality(Under(entries', e.entry_id)) = 1
      <3>1. entries' = Recorded(e)
        BY <1>1, <1>6
      <3> QED BY <3>1, <1>3, RecordedUnderId
    <2>1. ASSUME L!Accepts(entries, e) PROVE Cardinality(DebitsOf(t)') = 1
      BY <2>0, <2>1, <1>2, MoneyUnder
    <2>2. ASSUME NEW u \in TransferIds \ {t} PROVE DebitsOf(u)' = DebitsOf(u)
      <3>1. <<u, "DEBIT">> # e.entry_id
        BY <1>2
      <3> QED BY <2>0, <3>1, MoneyUnder
    <2>3. ASSUME NEW r \in ReturnIds PROVE CreditOf(r)' = CreditOf(r)
      <3>1. <<r, "CREDIT">> # e.entry_id
        BY <1>2
      <3> QED BY <2>0, <3>1, MoneyUnder
    <2>4. DebitMoves(t)
      BY <2>1, <1>1, <1>5, LastPostedNat DEF DebitMoves
    <2>5. \A u \in TransferIds \ {t} : DebitMoves(u)
      BY <2>2, <1>1 DEF DebitMoves
    <2>6. \A r \in ReturnIds : CreditMoves(r)
      BY <2>3, <1>1 DEF CreditMoves
    <2> QED BY <2>4, <2>5, <2>6 DEF MoneyMoves
  <1>7. CASE ~request[t].described
    <2>1. \A u \in TransferIds : DebitsOf(u)' = DebitsOf(u)
      BY <1>1, <1>7 DEF DebitsOf
    <2>2. \A r \in ReturnIds : CreditOf(r)' = CreditOf(r)
      BY <1>1, <1>7 DEF CreditOf
    <2> QED BY <2>1, <2>2, <1>1, <1>7 DEF MoneyMoves, DebitMoves, CreditMoves
  <1> QED BY <1>6, <1>7

LEMMA CompleteReturnMoves ==
  ASSUME WorkInv, NEW r \in ReturnIds, NEW now \in Nat, complete_return(r, now),
         clock' = now
  PROVE  MoneyMoves
  <1> DEFINE e == CreditEntry(r, now)
  <1>1. /\ returnStatus[r] = "Processing"
        /\ returnStatus' = [returnStatus EXCEPT ![r] = "Completed"]
        /\ entries' = Recorded(e)
        /\ status' = status
        /\ returnStatus \in [ReturnIds -> ReturnStatus]
    BY ReturnMovesFrom DEF complete_return, MoveReturnTo, transferVars, WorkInv, WorkType
  <1>2. /\ e.entry_id = <<r, "CREDIT">> /\ e.posted_at = now
        /\ e.sequence = Len(entries) + 1
    BY DEF CreditEntry, Entry
  <1>3. e \in L!Entry
    BY <1>1, CreditTyped DEF Accepted
  <1>4. \A i \in DOMAIN entries : entries[i].entry_id # <<r, "CREDIT">>
    BY <1>1 DEF WorkInv, CreditsCompleted
  <1> HIDE DEF e
  <1>5. L!LastPosted(entries) <= now => L!Accepts(entries, e)
    <2>1. e.entry_id \notin L!Ids(entries)
      BY <1>2, <1>4 DEF L!Ids
    <2> QED BY <2>1, <1>2, LastPostedNat DEF L!Accepts
  <1>0. /\ \A id : id # e.entry_id => Under(entries', id) = Under(entries, id)
        /\ L!Accepts(entries, e) => Cardinality(Under(entries', e.entry_id)) = 1
    <2>1. entries' = Recorded(e)
      BY <1>1
    <2> QED BY <2>1, <1>3, RecordedUnderId
  <1>6. ASSUME L!Accepts(entries, e) PROVE Cardinality(CreditOf(r)') = 1
    BY <1>0, <1>6, <1>2, MoneyUnder
  <1>7. ASSUME NEW q \in ReturnIds \ {r} PROVE CreditOf(q)' = CreditOf(q)
    <2>1. <<q, "CREDIT">> # e.entry_id
      BY <1>2
    <2> QED BY <1>0, <2>1, MoneyUnder
  <1>8. ASSUME NEW t \in TransferIds PROVE DebitsOf(t)' = DebitsOf(t)
    <2>1. <<t, "DEBIT">> # e.entry_id
      BY <1>2
    <2> QED BY <1>0, <2>1, MoneyUnder
  <1>9. CreditMoves(r)
    BY <1>1, <1>5, <1>6, LastPostedNat DEF CreditMoves
  <1>10. \A q \in ReturnIds \ {r} : CreditMoves(q)
    BY <1>1, <1>7 DEF CreditMoves
  <1>11. \A t \in TransferIds : DebitMoves(t)
    BY <1>1, <1>8 DEF DebitMoves
  <1> QED BY <1>9, <1>10, <1>11 DEF MoneyMoves

\* A whole handler, at the time now.
LEMMA HandlerMoves ==
  ASSUME WorkInv, NEW call \in Callback, NEW now \in Nat, Handler(call, now),
         clock' = now
  PROVE  MoneyMoves
  <1>0. WorkType
    BY DEF WorkInv
  <1>1. CASE call.op = "complete" /\ complete(call.id)
    <2>1. call.id \in TransferIds
      BY <1>1 DEF Callback, TransferStage, ReturnStage
    <2> QED BY <1>1, <2>1, CompleteMoves
  <1>2. CASE call.op = "complete_return" /\ complete_return(call.id, now)
    <2>1. call.id \in ReturnIds
      BY <1>2 DEF Callback, TransferStage, ReturnStage
    <2> QED BY <1>2, <2>1, CompleteReturnMoves
  <1>3. CASE call.op \in {"validate", "mark_pending", "submit", "process"}
    <2>1. call.id \in TransferIds
      BY <1>3 DEF Callback, TransferStage, ReturnStage
    <2>2. /\ entries' = entries /\ returnStatus' = returnStatus
          /\ status[call.id] # "Completed"
          /\ \E to \in TransferStatus \ {"Completed"} :
               status' = [status EXCEPT ![call.id] = to]
      BY <1>0, <1>3, <2>1, MovesFrom
         DEF Handler, _validate, _mark_pending, submit, process, MoveTo, returnVars,
             TransferStatus
    <2>3. \A t \in TransferIds : status'[t] = "Completed" <=> status[t] = "Completed"
      BY <1>0, <2>1, <2>2 DEF WorkType
    <2> QED BY <2>2, <2>3, NothingMoves
  <1>4. CASE call.op \in {"validate_return", "process_return"}
    <2>1. call.id \in ReturnIds
      BY <1>4 DEF Callback, TransferStage, ReturnStage
    <2>2. /\ entries' = entries /\ status' = status
          /\ returnStatus[call.id] # "Completed"
          /\ \E to \in ReturnStatus \ {"Completed"} :
               returnStatus' = [returnStatus EXCEPT ![call.id] = to]
      BY <1>0, <1>4, <2>1, ReturnMovesFrom
         DEF Handler, validate_return, process_return, MoveReturnTo, transferVars,
             ReturnStatus
    <2>3. \A r \in ReturnIds :
            returnStatus'[r] = "Completed" <=> returnStatus[r] = "Completed"
      BY <1>0, <2>1, <2>2 DEF WorkType
    <2> QED BY <2>2, <2>3, NothingMoves
  <1> QED BY <1>1, <1>2, <1>3, <1>4 DEF Handler

\* Every step, of any callers.
LEMMA NextMoves ==
  ASSUME Inv, Next
  PROVE  MoneyMoves
  <1>0. WorkInv /\ WorkType /\ clock \in Nat
        /\ \A e \in queue : e.time \in Nat /\ e.callback \in Callback
    BY ClockIsTime DEF Inv, WorkInv
  <1>1. CASE RunNext
    <2>1. PICK e \in queue :
            \/ /\ Sched!RunEvent(e, Pushes(e.callback, e.time),
                                    Returns(e.callback, e.time))
               /\ IF Enters(e.callback)
                  THEN Handler(e.callback, e.time)
                  ELSE UNCHANGED <<entries, transferVars, returnVars>>
            \/ UNCHANGED <<entries, transferVars, returnVars>>
      BY <1>1 DEF RunNext
    <2>2. CASE Handler(e.callback, e.time) /\ clock' = e.time
      BY <2>2, <1>0, HandlerMoves
    <2>3. CASE UNCHANGED <<entries, transferVars, returnVars>>
      BY <2>3, NothingMoves DEF transferVars, returnVars
    <2> QED BY <2>1, <2>2, <2>3 DEF Sched!RunEvent
  <1>2. ASSUME NEW t \in TransferIds, NEW asked \in Requests, receive(t, asked)
        PROVE  MoneyMoves
    <2>1. /\ entries' = entries /\ returnStatus' = returnStatus
          /\ \A u \in TransferIds : status'[u] = "Completed" <=> status[u] = "Completed"
      BY <1>0, <1>2 DEF receive, MoveTo, returnVars, WorkType
    <2> QED BY <2>1, NothingMoves
  <1>3. ASSUME NEW r \in ReturnIds, NEW asked \in ReturnRequests,
               receive_return(r, asked)
        PROVE  MoneyMoves
    <2>1. /\ entries' = entries /\ status' = status
          /\ \A q \in ReturnIds :
               returnStatus'[q] = "Completed" <=> returnStatus[q] = "Completed"
      BY <1>0, <1>3 DEF receive_return, MoveReturnTo, transferVars, WorkType
    <2> QED BY <2>1, NothingMoves
  <1>4. ASSUME NEW call \in PublicCall, CallStage(call)
        PROVE  MoneyMoves
    <2>1. call \in Callback
      BY DEF PublicCall, Callback, TransferStage
    <2>2. clock' = clock
      BY <1>4 DEF CallStage, schedVars, Sched!ScheduleAt
    <2> QED BY <2>1, <2>2, <1>0, <1>4, HandlerMoves DEF CallStage
  <1>5. ASSUME NEW t \in TransferIds, reject(t)
        PROVE  MoneyMoves
    <2>1. /\ entries' = entries /\ returnStatus' = returnStatus
          /\ \A u \in TransferIds : status'[u] = "Completed" <=> status[u] = "Completed"
      BY <1>0, <1>5, MovesFrom DEF reject, MoveTo, returnVars, WorkType
    <2> QED BY <2>1, NothingMoves
  <1>6. ASSUME NEW r \in ReturnIds, reject_return(r)
        PROVE  MoneyMoves
    <2>1. /\ entries' = entries /\ status' = status
          /\ \A q \in ReturnIds :
               returnStatus'[q] = "Completed" <=> returnStatus[q] = "Completed"
      BY <1>0, <1>6, ReturnMovesFrom DEF reject_return, MoveReturnTo, transferVars, WorkType
    <2> QED BY <2>1, NothingMoves
  <1>7. ASSUME NEW time \in JumpTimes, Jump(time)
        PROVE  MoneyMoves
    BY <1>7, NothingMoves DEF Jump, transferVars, returnVars
  <1> QED BY <1>1, <1>2, <1>3, <1>4, <1>5, <1>6, <1>7 DEF Next

\* Whatever is called out of turn, the step that completes a transfer or a return
\* posts its one entry, unless the description is refused or the ledger already
\* holds an entry posted later; and what was posted stays (both complete methods).
THEOREM MoneyAtCompletion == Spec => MoneyMovesAtCompletion
  <1>1. Inv /\ [Next]_vars => Inv' /\ [MoneyMoves]_vars
    BY NextKeeps, StutterKeeps, NextMoves
  <1>2. [][MoneyMoves]_vars => MoneyMovesAtCompletion
    BY DEF MoneyMovesAtCompletion, MoneyMoves, DebitMoves, CreditMoves
  <1> QED BY <1>1, <1>2, InitInv, PTL DEF Spec

\* The network's steps are steps that the ledger's contract allows.
THEOREM KeepsLedgerContract == Spec => LedgerContract
  <1>1. Init => L!LedgerType /\ L!WellFormed
    BY InitInv DEF Inv, WorkInv, WorkType
  <1>2. Inv /\ [Next]_vars =>
          Inv' /\ [L!LedgerType' /\ L!Extends(entries, entries')]_entries
    BY NextKeeps, StutterKeeps DEF Inv, WorkInv, WorkType
  <1> QED BY <1>1, <1>2, InitInv, PTL DEF Spec, LedgerContract, L!LedgerContract

\* The network's steps are steps that the scheduler's contract allows, whatever
\* is called out of turn.
THEOREM KeepsSchedulerContract == Spec => SchedulerContract
  <1> DEFINE SInit == /\ clock \in Nat /\ queue = {} /\ nextOrder = 0
                      /\ history = <<>> /\ lost = {} /\ jumped = 0
  <1>1. Init => SInit
    BY DEF Init, Sched!Init
  <1>2. Inv /\ [Next]_vars => Inv' /\ [Sched!ContractNext]_(Sched!vars)
    BY NextKeeps, StutterKeeps DEF Sched!vars, schedVars
  <1>3. SInit /\ [][Sched!ContractNext]_(Sched!vars) => SchedulerContract
    BY DEF SchedulerContract, Sched!Contract
  <1> HIDE DEF SInit
  <1> QED BY <1>1, <1>2, <1>3, InitInv, PTL DEF Spec
-----------------------------------------------------------------------------
(***************************************************************************)
(* The documented use: requests are received before their validation is    *)
(* due, the clock is moved by hand only when no event is queued, stages    *)
(* are run by the scheduler, and nothing in the opening ledger is posted   *)
(* after the time at which debits are.                                     *)
(***************************************************************************)
DocumentedUse ==
  /\ ~JumpWhileQueued /\ DirectIds = {} /\ ReceiveBy <= 1
  /\ \A i \in DOMAIN OpeningEntries : OpeningEntries[i].posted_at <= 10

\* When a transfer's stages run.
StageTime == [validate |-> 1, mark_pending |-> 2, submit |-> 3, process |-> 5,
              complete |-> 10]

NothingOverdue == \A e \in queue : e.time >= clock

\* An unfinished transfer that is not stranded.
Awaits(t) == /\ status[t] \in DOMAIN NextOp
             /\ status[t] = "Pending" => request[t].described

\* The event of such a transfer is that of its next stage, at its time.
NextStageQueued ==
  \A t \in TransferIds :
    IF Awaits(t)
    THEN \E e \in queue : /\ EventsFor(t) = {e}
                          /\ e.callback.op = NextOp[status[t]]
                          /\ e.time = StageTime[NextOp[status[t]]]
    ELSE EventsFor(t) = {}

\* Only a transfer that is held for goes on.
OnlyDescribedGoOn ==
  \A t \in TransferIds : status[t] \in FromSubmitted => request[t].described

\* The ledger refuses no debit at 10 and no credit after it.
PostedInTime ==
  /\ \A i \in DOMAIN entries : entries[i].posted_at <= 10 \/ entries[i].posted_at <= clock
  /\ \A t \in TransferIds : status[t] = "Completed" => clock >= 10

\* What is completed is recorded.
CompletionsRecorded ==
  /\ \A t \in TransferIds : status[t] = "Completed" =>
       \E i \in DOMAIN entries : entries[i].entry_id = <<t, "DEBIT">>
  /\ \A r \in ReturnIds : returnStatus[r] = "Completed" =>
       \E i \in DOMAIN entries : entries[i].entry_id = <<r, "CREDIT">>

\* A credit comes after the debit that it corrects.
CreditsAfterDebits ==
  \A i \in DOMAIN entries, r \in ReturnIds : entries[i].entry_id = <<r, "CREDIT">> =>
    \E d \in DOMAIN entries :
      /\ d < i
      /\ entries[d].entry_id = <<returnRequest[r].original, "DEBIT">>

RecordInv == PostedInTime /\ CompletionsRecorded /\ CreditsAfterDebits

DocInv == Inv /\ NothingOverdue /\ NextStageQueued /\ OnlyDescribedGoOn /\ RecordInv

\* A step that completes nothing.
LEMMA NothingRecorded ==
  ASSUME Inv, RecordInv, clock' \in Nat, clock' >= clock, entries' = entries,
         \A t \in TransferIds : status'[t] = "Completed" => status[t] = "Completed",
         \A r \in ReturnIds : returnStatus'[r] = "Completed" => returnStatus[r] = "Completed",
         \A r \in ReturnIds : returnStatus[r] = "Completed" =>
                                returnRequest'[r] = returnRequest[r]
  PROVE  RecordInv'
  <1>0. clock \in Nat /\ WorkInv
    BY ClockIsTime DEF Inv
  <1>1. \A i \in DOMAIN entries : entries[i] \in L!Entry
    BY <1>0, ElementOfSeq, LenProperties DEF WorkInv, WorkType, L!LedgerType
  <1>2. \A i \in DOMAIN entries : entries[i].posted_at \in Nat
    BY <1>1 DEF L!Entry
  <1>3. PostedInTime'
    BY <1>0, <1>2 DEF RecordInv, PostedInTime
  <1>4. CompletionsRecorded'
    BY DEF RecordInv, CompletionsRecorded
  <1>5. CreditsAfterDebits'
    BY SMTT(30), <1>0 DEF RecordInv, CreditsAfterDebits, WorkInv, CreditsCompleted
  <1> QED BY <1>3, <1>4, <1>5 DEF RecordInv

\* The posting time of the last entry is that of an entry.
LEMMA LastIsPosted ==
  ASSUME WorkInv, NEW time \in Nat,
         \A i \in DOMAIN entries : entries[i].posted_at <= time
  PROVE  time >= L!LastPosted(entries)
  <1>1. CASE entries = <<>>
    BY <1>1 DEF L!LastPosted
  <1>2. CASE entries # <<>>
    <2>1. entries \in Seq(L!Entry)
      BY DEF WorkInv, WorkType, L!LedgerType
    <2>2. Len(entries) \in DOMAIN entries
      BY <2>1, <1>2, LenProperties, EmptySeq
    <2>3. L!LastPosted(entries) = entries[Len(entries)].posted_at
      BY <1>2 DEF L!LastPosted
    <2>4. entries[Len(entries)] \in L!Entry
      BY <2>1, <2>2, ElementOfSeq, LenProperties
    <2>5. entries[Len(entries)].posted_at \in Nat
      BY <2>4 DEF L!Entry
    <2> QED BY <2>2, <2>3, <2>5
  <1> QED BY <1>1, <1>2

\* A transfer that completes at 10 is debited.
LEMMA CompleteRecords ==
  ASSUME Inv, RecordInv, NEW t \in TransferIds, complete(t),
         request[t].described, clock <= 10, clock' = 10
  PROVE  RecordInv' /\ L!Accepts(entries, DebitEntry(t))
  <1> DEFINE e == DebitEntry(t)
             n == Len(entries) + 1
  <1>0. clock \in Nat /\ WorkInv /\ WorkInv'
    BY ClockIsTime, CompleteKeeps DEF Inv
  <1>1. /\ status[t] = "Processing"
        /\ status' = [status EXCEPT ![t] = "Completed"]
        /\ entries' = Recorded(e)
        /\ UNCHANGED <<request, returnStatus, returnRequest>>
        /\ status \in [TransferIds -> TransferStatus]
    BY <1>0, MovesFrom DEF complete, MoveTo, returnVars, WorkInv, WorkType
  <1>2. /\ e.entry_id = <<t, "DEBIT">> /\ e.posted_at = 10 /\ e.sequence = n
    BY DEF DebitEntry, Entry
  <1>3. e \in L!Entry
    BY <1>0, <1>1, DebitTyped
  <1>4. \A i \in DOMAIN entries : /\ entries[i].posted_at <= 10
                                  /\ entries[i].posted_at \in Nat
    <2> SUFFICES ASSUME NEW i \in DOMAIN entries
                 PROVE  entries[i].posted_at <= 10 /\ entries[i].posted_at \in Nat
      OBVIOUS
    <2>1. entries[i] \in L!Entry
      BY <1>0, ElementOfSeq, LenProperties DEF WorkInv, WorkType, L!LedgerType
    <2>2. entries[i].posted_at \in Nat
      BY <2>1 DEF L!Entry
    <2> QED BY <2>2, <1>0 DEF RecordInv, PostedInTime
  <1>5. \A i \in DOMAIN entries : entries[i].entry_id # <<t, "DEBIT">>
    BY <1>0, <1>1 DEF WorkInv, DebitsCompleted
  <1> HIDE DEF e
  <1>6. L!Accepts(entries, e)
    <2>1. e.entry_id \notin L!Ids(entries)
      BY <1>2, <1>5 DEF L!Ids
    <2>2. 10 >= L!LastPosted(entries)
      BY <1>0, <1>4, LastIsPosted
    <2> QED BY <2>1, <2>2, <1>2 DEF L!Accepts
  <1>7. /\ n \in DOMAIN entries' /\ entries'[n] = e
        /\ \A i \in DOMAIN entries' : \/ i \in DOMAIN entries /\ entries'[i] = entries[i]
                                      \/ i = n /\ entries'[i] = e
        /\ \A i \in DOMAIN entries : i \in DOMAIN entries' /\ entries'[i] = entries[i]
    BY <1>0, <1>1, <1>3, <1>6, RecordedKeeps DEF WorkInv, WorkType
  <1>8. \A u \in TransferIds : status'[u] = "Completed" => u = t \/ status[u] = "Completed"
    BY <1>1
  <1>9. PostedInTime'
    BY <1>2, <1>4, <1>7 DEF PostedInTime
  <1>10. CompletionsRecorded'
    <2>1. ASSUME NEW u \in TransferIds, status'[u] = "Completed"
          PROVE  \E i \in DOMAIN entries' : entries'[i].entry_id = <<u, "DEBIT">>
      <3>1. CASE u = t
        BY <3>1, <1>2, <1>7
      <3>2. CASE status[u] = "Completed"
        <4>1. PICK i \in DOMAIN entries : entries[i].entry_id = <<u, "DEBIT">>
          BY <3>2 DEF RecordInv, CompletionsRecorded
        <4> QED BY <4>1, <1>7
      <3> QED BY <2>1, <3>1, <3>2, <1>8
    <2>2. ASSUME NEW r \in ReturnIds, returnStatus[r] = "Completed"
          PROVE  \E i \in DOMAIN entries' : entries'[i].entry_id = <<r, "CREDIT">>
      <3>1. PICK i \in DOMAIN entries : entries[i].entry_id = <<r, "CREDIT">>
        BY <2>2 DEF RecordInv, CompletionsRecorded
      <3> QED BY <3>1, <1>7
    <2> QED BY <2>1, <2>2, <1>1 DEF CompletionsRecorded
  <1>11. CreditsAfterDebits'
    <2> SUFFICES ASSUME NEW i \in DOMAIN entries', NEW r \in ReturnIds,
                        entries'[i].entry_id = <<r, "CREDIT">>
                 PROVE  \E d \in DOMAIN entries' :
                          /\ d < i
                          /\ entries'[d].entry_id = <<returnRequest[r].original, "DEBIT">>
      BY <1>1 DEF CreditsAfterDebits
    <2>1. e.entry_id # <<r, "CREDIT">>
      BY <1>2
    <2>2. i \in DOMAIN entries /\ entries[i].entry_id = <<r, "CREDIT">>
      BY <2>1, <1>7
    <2>3. PICK d \in DOMAIN entries :
            /\ d < i
            /\ entries[d].entry_id = <<returnRequest[r].original, "DEBIT">>
      BY <2>2 DEF RecordInv, CreditsAfterDebits
    <2> QED BY <2>3, <1>7
  <1> QED BY <1>6, <1>9, <1>10, <1>11 DEF RecordInv, e

\* A return that completes is credited.
LEMMA CompleteReturnRecords ==
  ASSUME Inv, RecordInv, NEW r \in ReturnIds, NEW now \in Nat, complete_return(r, now),
         clock <= now, clock' = now
  PROVE  RecordInv'
  <1> DEFINE e == CreditEntry(r, now)
             n == Len(entries) + 1
             t == returnRequest[r].original
  <1>0. clock \in Nat /\ WorkInv
    BY ClockIsTime DEF Inv
  <1>1. /\ returnStatus[r] = "Processing"
        /\ returnStatus' = [returnStatus EXCEPT ![r] = "Completed"]
        /\ entries' = Recorded(e)
        /\ UNCHANGED <<status, request, returnRequest>>
        /\ returnStatus \in [ReturnIds -> ReturnStatus]
    BY <1>0, ReturnMovesFrom DEF complete_return, MoveReturnTo, transferVars, WorkInv, WorkType
  <1>2. /\ e.entry_id = <<r, "CREDIT">> /\ e.posted_at = now /\ e.sequence = n
    BY DEF CreditEntry, Entry
  <1>3. e \in L!Entry
    BY <1>0, <1>1, CreditTyped DEF Accepted
  <1>t. t \in TransferIds /\ status[t] = "Completed" /\ clock >= 10
    <2>1. t \in TransferIds
      BY <1>0, <1>1, ReturnRequestParts
    <2>2. status[t] = "Completed"
      BY <1>0, <1>1 DEF WorkInv, ReturnsRegistered, Accepted
    <2> QED BY <2>1, <2>2 DEF RecordInv, PostedInTime
  <1>4. \A i \in DOMAIN entries : /\ entries[i].posted_at <= now
                                  /\ entries[i].posted_at \in Nat
    <2> SUFFICES ASSUME NEW i \in DOMAIN entries
                 PROVE  entries[i].posted_at <= now /\ entries[i].posted_at \in Nat
      OBVIOUS
    <2>1. entries[i] \in L!Entry
      BY <1>0, ElementOfSeq, LenProperties DEF WorkInv, WorkType, L!LedgerType
    <2>2. entries[i].posted_at \in Nat
      BY <2>1 DEF L!Entry
    <2> QED BY <2>2, <1>0, <1>t DEF RecordInv, PostedInTime
  <1>5. \A i \in DOMAIN entries : entries[i].entry_id # <<r, "CREDIT">>
    BY <1>0, <1>1 DEF WorkInv, CreditsCompleted
  <1> HIDE DEF e
  <1>6. L!Accepts(entries, e)
    <2>1. e.entry_id \notin L!Ids(entries)
      BY <1>2, <1>5 DEF L!Ids
    <2>2. now >= L!LastPosted(entries)
      BY <1>0, <1>4, LastIsPosted
    <2> QED BY <2>1, <2>2, <1>2 DEF L!Accepts
  <1>7. /\ n \in DOMAIN entries' /\ entries'[n] = e
        /\ \A i \in DOMAIN entries' : \/ i \in DOMAIN entries /\ entries'[i] = entries[i]
                                      \/ i = n /\ entries'[i] = e
        /\ \A i \in DOMAIN entries : i \in DOMAIN entries' /\ entries'[i] = entries[i]
    BY <1>0, <1>1, <1>3, <1>6, RecordedKeeps DEF WorkInv, WorkType
  <1>8. \A q \in ReturnIds :
          returnStatus'[q] = "Completed" => q = r \/ returnStatus[q] = "Completed"
    BY <1>1
  <1>9. PostedInTime'
    BY <1>0, <1>1, <1>2, <1>4, <1>7, <1>t DEF RecordInv, PostedInTime
  <1>10. CompletionsRecorded'
    <2>1. ASSUME NEW q \in ReturnIds, returnStatus'[q] = "Completed"
          PROVE  \E i \in DOMAIN entries' : entries'[i].entry_id = <<q, "CREDIT">>
      <3>1. CASE q = r
        BY <3>1, <1>2, <1>7
      <3>2. CASE returnStatus[q] = "Completed"
        <4>1. PICK i \in DOMAIN entries : entries[i].entry_id = <<q, "CREDIT">>
          BY <3>2 DEF RecordInv, CompletionsRecorded
        <4> QED BY <4>1, <1>7
      <3> QED BY <2>1, <3>1, <3>2, <1>8
    <2>2. ASSUME NEW u \in TransferIds, status[u] = "Completed"
          PROVE  \E i \in DOMAIN entries' : entries'[i].entry_id = <<u, "DEBIT">>
      <3>1. PICK i \in DOMAIN entries : entries[i].entry_id = <<u, "DEBIT">>
        BY <2>2 DEF RecordInv, CompletionsRecorded
      <3> QED BY <3>1, <1>7
    <2> QED BY <2>1, <2>2, <1>1 DEF CompletionsRecorded
  <1>11. CreditsAfterDebits'
    <2> SUFFICES ASSUME NEW i \in DOMAIN entries', NEW q \in ReturnIds,
                        entries'[i].entry_id = <<q, "CREDIT">>
                 PROVE  \E d \in DOMAIN entries' :
                          /\ d < i
                          /\ entries'[d].entry_id = <<returnRequest[q].original, "DEBIT">>
      BY <1>1 DEF CreditsAfterDebits
    <2>1. CASE i \in DOMAIN entries /\ entries'[i] = entries[i]
      <3>1. PICK d \in DOMAIN entries :
              /\ d < i
              /\ entries[d].entry_id = <<returnRequest[q].original, "DEBIT">>
        BY <2>1 DEF RecordInv, CreditsAfterDebits
      <3> QED BY <3>1, <1>7
    <2>2. CASE i = n /\ entries'[i] = e
      <3>1. <<q, "CREDIT">> = <<r, "CREDIT">>
        BY <2>2, <1>2
      <3>2. q = r
        BY <3>1
      <3>3. PICK d \in DOMAIN entries : entries[d].entry_id = <<t, "DEBIT">>
        BY <1>t DEF RecordInv, CompletionsRecorded
      <3>4. DOMAIN entries = 1..Len(entries) /\ Len(entries) \in Nat
        BY <1>0, LenProperties DEF WorkInv, WorkType, L!LedgerType
      <3>5. d < i
        BY <3>3, <3>4, <2>2
      <3> QED BY <3>2, <3>3, <3>5, <1>7
    <2> QED BY <2>1, <2>2, <1>7
  <1> QED BY <1>9, <1>10, <1>11 DEF RecordInv

LEMMA NextOps ==
  /\ DOMAIN NextOp = {"Received", "Validated", "Pending", "Submitted", "Processing"}
  /\ NextOp["Received"] = "validate" /\ NextOp["Validated"] = "mark_pending"
  /\ NextOp["Pending"] = "submit" /\ NextOp["Submitted"] = "process"
  /\ NextOp["Processing"] = "complete"
  /\ StageTime["validate"] = 1 /\ StageTime["mark_pending"] = 2
  /\ StageTime["submit"] = 3 /\ StageTime["process"] = 5
  /\ StageTime["complete"] = 10
  BY DEF NextOp, StageTime

NextEvent(t, new) ==
  IF new \in DOMAIN NextOp /\ (new = "Pending" => request[t].described)
  THEN <<[time |-> StageTime[NextOp[new]],
          callback |-> [op |-> NextOp[new], id |-> t]]>>
  ELSE <<>>

\* What a transfer's next stage does when it runs at its time.
StageMoved(t, call, now, new) ==
  /\ status' = [status EXCEPT ![t] = new]
  /\ UNCHANGED <<request, returnVars>>
  /\ Pushes(call, now) = NextEvent(t, new)
  /\ new \in FromSubmitted => request[t].described
  /\ IF new = "Completed" THEN call.op = "complete" /\ complete(t)
                          ELSE entries' = entries

\* A stage whose turn it is enters, moves the transfer and schedules the next.
LEMMA StageInTurn ==
  ASSUME WorkType, NEW t \in TransferIds, NEW call, call.id = t,
         Awaits(t), status[t] \in FromSubmitted => request[t].described, call.op = NextOp[status[t]],
         NEW now, now = StageTime[call.op],
         Enters(call) => Handler(call, now)
  PROVE  Enters(call)
         /\ \E new \in TransferStatus \ {"Unknown", "Received"} :
              StageMoved(t, call, now, new)
  <1>0. status[t] \in {"Received", "Validated", "Pending", "Submitted", "Processing"}
    BY NextOps DEF Awaits
  <1>1. CASE status[t] = "Received"
    <2>1. call.op = "validate" /\ now = 1
      BY <1>1, NextOps
    <2>2. CanMove(t, "Validated")
      BY <1>1 DEF CanMove, AllowedTransitions
    <2>3. Enters(call)
      BY <2>1, <2>2 DEF Enters
    <2>4. _validate(t)
      BY <2>1, <2>3 DEF Handler
    <2>5. CASE Acceptable(t)
      <3>1. Continues(call)
        BY <2>1, <2>3, <2>5 DEF Continues
      <3>2. NextStage(call, now) = [time |-> 2, callback |-> [op |-> "mark_pending", id |-> t]]
        BY <2>1 DEF NextStage
      <3>3. Pushes(call, now) = NextEvent(t, "Validated")
        BY <2>1, <3>1, <3>2, NextOps DEF Pushes, NextEvent
      <3>4. StageMoved(t, call, now, "Validated")
        BY <2>4, <2>5, <3>3 DEF StageMoved, _validate, MoveTo, FromSubmitted
      <3> QED BY <2>3, <3>4 DEF TransferStatus
    <2>6. CASE ~Acceptable(t)
      <3>1. ~Continues(call)
        BY <2>1, <2>6 DEF Continues
      <3>2. Pushes(call, now) = NextEvent(t, "Rejected")
        BY <3>1, NextOps DEF Pushes, NextEvent
      <3>3. StageMoved(t, call, now, "Rejected")
        BY <2>4, <2>6, <3>2 DEF StageMoved, _validate, MoveTo, FromSubmitted
      <3> QED BY <2>3, <3>3 DEF TransferStatus
    <2> QED BY <2>5, <2>6
  <1>2. CASE status[t] = "Validated"
    <2>1. call.op = "mark_pending" /\ now = 2
      BY <1>2, NextOps
    <2>2. CanMove(t, "Pending")
      BY <1>2 DEF CanMove, AllowedTransitions
    <2>3. Enters(call)
      BY <2>1, <2>2 DEF Enters, Target, TransferStage
    <2>4. _mark_pending(t)
      BY <2>1, <2>3 DEF Handler
    <2>5. Continues(call) <=> request[t].described
      BY <2>1, <2>3 DEF Continues
    <2>6. NextStage(call, now) = [time |-> 3, callback |-> [op |-> "submit", id |-> t]]
      BY <2>1 DEF NextStage
    <2>7. Pushes(call, now) = NextEvent(t, "Pending")
      BY <2>1, <2>5, <2>6, NextOps DEF Pushes, NextEvent
    <2>8. StageMoved(t, call, now, "Pending")
      BY <2>4, <2>7 DEF StageMoved, _mark_pending, MoveTo, FromSubmitted
    <2> QED BY <2>3, <2>8 DEF TransferStatus
  <1>3. CASE status[t] = "Pending"
    <2>1. call.op = "submit" /\ now = 3
      BY <1>3, NextOps
    <2>2. CanMove(t, "Submitted")
      BY <1>3 DEF CanMove, AllowedTransitions
    <2>3. Enters(call)
      BY <2>1, <2>2 DEF Enters, Target, TransferStage
    <2>4. submit(t)
      BY <2>1, <2>3 DEF Handler
    <2>5. Continues(call)
      BY <2>1, <2>3 DEF Continues
    <2>6. NextStage(call, now) = [time |-> 5, callback |-> [op |-> "process", id |-> t]]
      BY <2>1 DEF NextStage
    <2>7. Pushes(call, now) = NextEvent(t, "Submitted")
      BY <2>1, <2>5, <2>6, NextOps DEF Pushes, NextEvent
    <2>8. StageMoved(t, call, now, "Submitted")
      BY <1>3, <2>4, <2>7 DEF StageMoved, Awaits, submit, MoveTo, FromSubmitted
    <2> QED BY <2>3, <2>8 DEF TransferStatus
  <1>4. CASE status[t] = "Submitted"
    <2>1. call.op = "process" /\ now = 5
      BY <1>4, NextOps
    <2>2. CanMove(t, "Processing")
      BY <1>4 DEF CanMove, AllowedTransitions
    <2>3. Enters(call)
      BY <2>1, <2>2 DEF Enters, Target, TransferStage
    <2>4. process(t)
      BY <2>1, <2>3 DEF Handler
    <2>5. Continues(call)
      BY <2>1, <2>3 DEF Continues
    <2>6. NextStage(call, now) = [time |-> 10, callback |-> [op |-> "complete", id |-> t]]
      BY <2>1 DEF NextStage
    <2>7. Pushes(call, now) = NextEvent(t, "Processing")
      BY <2>1, <2>5, <2>6, NextOps DEF Pushes, NextEvent
    <2>8. StageMoved(t, call, now, "Processing")
      BY <1>4, <2>4, <2>7 DEF StageMoved, process, MoveTo, FromSubmitted
    <2> QED BY <2>3, <2>8 DEF TransferStatus
  <1>5. CASE status[t] = "Processing"
    <2>1. call.op = "complete" /\ now = 10
      BY <1>5, NextOps
    <2>2. CanMove(t, "Completed")
      BY <1>5 DEF CanMove, AllowedTransitions
    <2>3. Enters(call)
      BY <2>1, <2>2 DEF Enters, Target, TransferStage
    <2>4. complete(t)
      BY <2>1, <2>3 DEF Handler
    <2>5. ~Continues(call)
      BY <2>1 DEF Continues
    <2>6. Pushes(call, now) = NextEvent(t, "Completed")
      BY <2>5, NextOps DEF Pushes, NextEvent
    <2>7. StageMoved(t, call, now, "Completed")
      BY <1>5, <2>1, <2>4, <2>6 DEF StageMoved, complete, MoveTo, FromSubmitted
    <2> QED BY <2>3, <2>7 DEF TransferStatus
  <1> QED BY <1>0, <1>1, <1>2, <1>3, <1>4, <1>5

\* The heap after a run event that schedules pushes, none or one.
LEMMA HeapAfter ==
  ASSUME Inv, NothingOverdue, NEW e \in queue, NEW pushes, NEW returns \in BOOLEAN,
         Sched!RunEvent(e, pushes, returns),
         \/ pushes = <<>>
         \/ \E p \in Push : pushes = <<p>> /\ p.time >= e.time
  PROVE  /\ clock' = e.time /\ e.time \in Nat /\ clock <= e.time
         /\ NothingOverdue'
         /\ pushes = <<>> => queue' = queue \ {e}
         /\ \A p \in Push : pushes = <<p>> =>
              queue' = (queue \ {e}) \cup
                         {[time |-> p.time, order |-> nextOrder, callback |-> p.callback]}
  <1>1. /\ clock' = e.time /\ clock <= e.time
        /\ queue' = (queue \ {e}) \cup Sched!Pushed(pushes)
        /\ \A f \in queue \ {e} : Sched!Before(e, f)
    BY DEF Sched!RunEvent, Sched!IsNext
  <1>2. nextOrder \in Nat /\ \A f \in queue : f.time \in Nat
    BY DEF Inv, SchedInv, Sched!TypeOK, Sched!Event
  <1>3. \A f \in queue \ {e} : f.time >= e.time
    BY <1>1, <1>2 DEF Sched!Before
  <1>4. CASE pushes = <<>>
    <2>1. Sched!Pushed(pushes) = {}
      BY <1>4 DEF Sched!Pushed
    <2> QED BY <1>1, <1>2, <1>3, <1>4, <2>1 DEF NothingOverdue
  <1>5. ASSUME NEW p \in Push, pushes = <<p>>, p.time >= e.time
        PROVE  /\ NothingOverdue'
               /\ queue' = (queue \ {e}) \cup
                    {[time |-> p.time, order |-> nextOrder, callback |-> p.callback]}
    <2>1. Sched!Pushed(pushes)
            = {[time |-> p.time, order |-> nextOrder, callback |-> p.callback]}
      BY <1>2, <1>5 DEF Sched!Pushed
    <2> QED BY <1>1, <1>3, <1>5, <2>1 DEF NothingOverdue
  <1>6. \A p, q : <<p>> = <<q>> => p = q
    OBVIOUS
  <1>7. \A p : <<p>> # <<>>
    OBVIOUS
  <1> QED BY <1>1, <1>2, <1>4, <1>5, <1>6, <1>7

\* A run event of a transfer.
LEMMA RunTransferEvent ==
  ASSUME DocInv, NEW e \in queue, e.callback.op \in TransferStage,
         Sched!RunEvent(e, Pushes(e.callback, e.time), Returns(e.callback, e.time)),
         Enters(e.callback) => Handler(e.callback, e.time)
  PROVE  NothingOverdue' /\ NextStageQueued' /\ OnlyDescribedGoOn' /\ RecordInv'
  <1> DEFINE t == e.callback.id
             call == e.callback
             now == e.time
  <1>0. /\ Inv /\ WorkInv /\ WorkType /\ NothingOverdue
        /\ NextStageQueued /\ OnlyDescribedGoOn /\ RecordInv
        /\ clock \in Nat /\ now \in Nat /\ call \in Callback /\ nextOrder \in Nat
    BY ClockIsTime DEF DocInv, Inv, WorkInv, SchedInv, Sched!TypeOK
  <1>1. t \in TransferIds
    BY <1>0 DEF Callback, TransferStage, ReturnStage
  <1>2. e \in EventsFor(t)
    BY DEF EventsFor
  <1>3. /\ Awaits(t) /\ EventsFor(t) = {e}
        /\ call.op = NextOp[status[t]] /\ now = StageTime[call.op]
    BY <1>0, <1>1, <1>2 DEF NextStageQueued
  <1>4. PICK new \in TransferStatus \ {"Unknown", "Received"} : StageMoved(t, call, now, new)
    BY <1>0, <1>1, <1>3, StageInTurn DEF OnlyDescribedGoOn
  <1>5. /\ status' = [status EXCEPT ![t] = new]
        /\ UNCHANGED <<request, returnVars>>
        /\ Pushes(call, now) = NextEvent(t, new)
        /\ new \in FromSubmitted => request[t].described
        /\ new = "Completed" => call.op = "complete" /\ complete(t)
        /\ new # "Completed" => entries' = entries
        /\ status \in [TransferIds -> TransferStatus]
    BY <1>0, <1>4 DEF StageMoved, WorkType
  <1>6. Returns(call, now) \in BOOLEAN
    BY DEF Returns
  <1>7. /\ clock' = now /\ clock <= now /\ NothingOverdue'
        /\ Pushes(call, now) = <<>> => queue' = queue \ {e}
        /\ \A p \in Push : Pushes(call, now) = <<p>> =>
             queue' = (queue \ {e}) \cup
                        {[time |-> p.time, order |-> nextOrder, callback |-> p.callback]}
    BY <1>0, <1>6, PushesTyped, HeapAfter
  <1> HIDE DEF call, now, t
  <1>8. NextStageQueued'
    <2>1. \A u \in TransferIds \ {t} : status'[u] = status[u]
      BY <1>1, <1>5
    <2>2. status'[t] = new
      BY <1>1, <1>5
    <2>3. e.callback.id = t
      BY DEF t
    <2>w. /\ Awaits(t)' <=> new \in DOMAIN NextOp /\ (new = "Pending" => request[t].described)
          /\ \A u \in TransferIds \ {t} : Awaits(u)' <=> Awaits(u)
      BY <1>5, <2>1, <2>2 DEF Awaits
    <2>4. CASE new \in DOMAIN NextOp /\ (new = "Pending" => request[t].described)
      <3> DEFINE p == [time |-> StageTime[NextOp[new]],
                       callback |-> [op |-> NextOp[new], id |-> t]]
                 f == [time |-> p.time, order |-> nextOrder, callback |-> p.callback]
      <3>1. NextOp[new] \in TransferStage /\ StageTime[NextOp[new]] \in Nat
        BY <2>4, NextOps DEF TransferStage
      <3>2. p \in Push
        BY <3>1, <1>1 DEF Push, Callback
      <3>3. Pushes(call, now) = <<p>>
        BY <1>5, <2>4 DEF NextEvent
      <3>4. /\ f.callback.op = NextOp[new] /\ f.callback.id = t
            /\ f.time = StageTime[NextOp[new]]
        OBVIOUS
      <3>5. queue' = (queue \ {e}) \cup {f}
        BY <1>7, <3>2, <3>3
      <3> HIDE DEF f, p
      <3>6. EventsFor(t)' = {f}
        BY <1>3, <3>1, <3>4, <3>5 DEF EventsFor
      <3>7. \A u \in TransferIds \ {t} : EventsFor(u)' = EventsFor(u)
        BY <2>3, <3>4, <3>5 DEF EventsFor
      <3>8. \A u \in TransferIds \ {t} : EventsFor(u) \subseteq queue \ {e}
        BY <2>3 DEF EventsFor
      <3>9. ASSUME NEW u \in TransferIds
            PROVE  IF Awaits(u)'
                   THEN \E g \in queue' : /\ EventsFor(u)' = {g}
                                          /\ g.callback.op = NextOp[status'[u]]
                                          /\ g.time = StageTime[NextOp[status'[u]]]
                   ELSE EventsFor(u)' = {}
        <4>1. CASE u = t
          BY <4>1, <2>2, <2>4, <2>w, <3>4, <3>5, <3>6
        <4>2. CASE u # t
          <5>1. /\ status'[u] = status[u] /\ EventsFor(u)' = EventsFor(u)
                /\ Awaits(u)' <=> Awaits(u)
            BY <4>2, <2>1, <2>w, <3>7
          <5>2. CASE Awaits(u)
            <6>1. PICK g \in queue : /\ EventsFor(u) = {g}
                                     /\ g.callback.op = NextOp[status[u]]
                                     /\ g.time = StageTime[NextOp[status[u]]]
              BY <5>2, <1>0 DEF NextStageQueued
            <6>2. g \in queue'
              BY <6>1, <4>2, <3>5, <3>8
            <6> QED BY <6>1, <6>2, <5>1, <5>2
          <5>3. CASE ~Awaits(u)
            BY <5>1, <5>3, <1>0 DEF NextStageQueued
          <5> QED BY <5>2, <5>3
        <4> QED BY <4>1, <4>2
      <3> QED BY <3>9 DEF NextStageQueued
    <2>5. CASE ~(new \in DOMAIN NextOp /\ (new = "Pending" => request[t].described))
      <3>1. queue' = queue \ {e}
        BY <1>5, <1>7, <2>5 DEF NextEvent
      <3>2. EventsFor(t)' = {}
        BY <1>3, <3>1 DEF EventsFor
      <3>3. \A u \in TransferIds \ {t} : /\ EventsFor(u)' = EventsFor(u)
                                         /\ EventsFor(u) \subseteq queue'
        BY <2>3, <3>1 DEF EventsFor
      <3>4. ASSUME NEW u \in TransferIds
            PROVE  IF Awaits(u)'
                   THEN \E g \in queue' : /\ EventsFor(u)' = {g}
                                          /\ g.callback.op = NextOp[status'[u]]
                                          /\ g.time = StageTime[NextOp[status'[u]]]
                   ELSE EventsFor(u)' = {}
        <4>1. CASE u = t
          BY <4>1, <2>5, <2>w, <3>2
        <4>2. CASE u # t
          BY <4>2, <2>1, <2>w, <3>3, <1>0 DEF NextStageQueued
        <4> QED BY <4>1, <4>2
      <3> QED BY <3>4 DEF NextStageQueued
    <2> QED BY <2>4, <2>5
  <1>9. RecordInv'
    <2>1. CASE new = "Completed"
      <3>1. now = 10 /\ complete(t) /\ request[t].described
        BY <2>1, <1>3, <1>5, NextOps DEF FromSubmitted
      <3> QED BY <3>1, <1>0, <1>1, <1>7, CompleteRecords
    <2>2. CASE new # "Completed"
      <3>1. entries' = entries /\ UNCHANGED <<returnStatus, returnRequest>>
        BY <2>2, <1>5 DEF returnVars
      <3>2. \A u \in TransferIds : status'[u] = "Completed" => status[u] = "Completed"
        BY <2>2, <1>1, <1>5
      <3> QED BY <3>1, <3>2, <1>0, <1>7, NothingRecorded
    <2> QED BY <2>1, <2>2
  <1>10. OnlyDescribedGoOn'
    BY <1>0, <1>1, <1>5 DEF OnlyDescribedGoOn
  <1> QED BY <1>7, <1>8, <1>9, <1>10

\* Events of returns are nobody's next stage.
LEMMA OnlyReturnEvents ==
  ASSUME NextStageQueued, UNCHANGED <<status, request>>,
         \A g : g.callback.op \in TransferStage => (g \in queue' <=> g \in queue)
  PROVE  NextStageQueued'
  <1>1. \A u \in TransferIds : EventsFor(u)' = EventsFor(u) /\ EventsFor(u) \subseteq queue'
    BY DEF EventsFor
  <1>2. \A u \in TransferIds : Awaits(u)' <=> Awaits(u)
    BY DEF Awaits
  <1> QED BY <1>1, <1>2 DEF NextStageQueued

LEMMA StagesApart == ReturnStage \cap TransferStage = {}
  BY DEF ReturnStage, TransferStage

\* A run event of a return.
LEMMA RunReturnEvent ==
  ASSUME DocInv, NEW e \in queue, e.callback.op \in ReturnStage,
         Sched!RunEvent(e, Pushes(e.callback, e.time), Returns(e.callback, e.time)),
         IF Enters(e.callback) THEN Handler(e.callback, e.time)
                               ELSE UNCHANGED <<entries, transferVars, returnVars>>
  PROVE  NothingOverdue' /\ NextStageQueued' /\ OnlyDescribedGoOn' /\ RecordInv'
  <1> DEFINE r == e.callback.id
             call == e.callback
             now == e.time
  <1>0. /\ Inv /\ WorkInv /\ WorkType /\ NothingOverdue
        /\ NextStageQueued /\ OnlyDescribedGoOn /\ RecordInv
        /\ clock \in Nat /\ now \in Nat /\ call \in Callback /\ nextOrder \in Nat
    BY ClockIsTime DEF DocInv, Inv, WorkInv, SchedInv, Sched!TypeOK
  <1>1. r \in ReturnIds
    BY <1>0 DEF Callback, TransferStage, ReturnStage
  <1>2. \/ call.op = "validate_return" /\ validate_return(r)
        \/ call.op = "process_return" /\ process_return(r)
        \/ call.op = "complete_return" /\ complete_return(r, now)
        \/ UNCHANGED <<entries, transferVars, returnVars>>
    BY DEF Handler, ReturnStage
  <1>3. UNCHANGED <<status, request, returnRequest>>
    BY <1>2 DEF validate_return, process_return, complete_return, transferVars, returnVars
  <1>4. Returns(call, now) \in BOOLEAN
    BY DEF Returns
  <1>5. /\ clock' = now /\ clock <= now /\ NothingOverdue'
        /\ Pushes(call, now) = <<>> => queue' = queue \ {e}
        /\ \A p \in Push : Pushes(call, now) = <<p>> =>
             queue' = (queue \ {e}) \cup
                        {[time |-> p.time, order |-> nextOrder, callback |-> p.callback]}
    BY <1>0, <1>4, PushesTyped, HeapAfter
  <1>6. \A p : Pushes(call, now) = <<p>> => p.callback.op \in ReturnStage
    <2>1. Continues(call) => NextStage(call, now).callback.op \in ReturnStage
      BY DEF Continues, NextStage, ReturnStage
    <2> QED BY <2>1 DEF Pushes
  <1> HIDE DEF call, now, r
  <1>7. NextStageQueued'
    <2>1. CASE Pushes(call, now) = <<>>
      <3>1. queue' = queue \ {e}
        BY <1>5, <2>1
      <3>2. \A g : g.callback.op \in TransferStage => (g \in queue' <=> g \in queue)
        BY <3>1, StagesApart
      <3> QED BY <3>2, <1>0, <1>3, OnlyReturnEvents
    <2>2. CASE \E p \in Push : Pushes(call, now) = <<p>> /\ p.time >= now
      <3>1. PICK p \in Push : Pushes(call, now) = <<p>>
        BY <2>2
      <3> DEFINE f == [time |-> p.time, order |-> nextOrder, callback |-> p.callback]
      <3>2. f.callback.op \in ReturnStage
        BY <3>1, <1>6
      <3>3. queue' = (queue \ {e}) \cup {f}
        BY <3>1, <1>5
      <3> HIDE DEF f
      <3>4. \A g : g.callback.op \in TransferStage => (g \in queue' <=> g \in queue)
        BY <3>2, <3>3, StagesApart
      <3> QED BY <3>4, <1>0, <1>3, OnlyReturnEvents
    <2> QED BY <2>1, <2>2, <1>0, PushesTyped
  <1>8. RecordInv'
    <2>1. CASE complete_return(r, now)
      BY <2>1, <1>0, <1>1, <1>5, CompleteReturnRecords
    <2>2. CASE \/ validate_return(r) \/ process_return(r)
               \/ UNCHANGED <<entries, transferVars, returnVars>>
      <3>1. entries' = entries
        BY <2>2 DEF validate_return, process_return
      <3>2. \A q \in ReturnIds :
              returnStatus'[q] = "Completed" => returnStatus[q] = "Completed"
        BY <1>0, <2>2 DEF validate_return, process_return, returnVars, MoveReturnTo, WorkType
      <3> QED BY <3>1, <3>2, <1>0, <1>3, <1>5, NothingRecorded
    <2> QED BY <1>2, <2>1, <2>2
  <1>9. OnlyDescribedGoOn'
    BY <1>0, <1>3 DEF OnlyDescribedGoOn
  <1> QED BY <1>5, <1>7, <1>8, <1>9

\* In the documented use, every step keeps what it needs.
LEMMA DocumentedStep ==
  ASSUME DocumentedUse, DocInv, Next
  PROVE  DocInv'
  <1>0. /\ Inv /\ Inv' /\ WorkInv /\ WorkType /\ NothingOverdue
        /\ NextStageQueued /\ OnlyDescribedGoOn /\ RecordInv
        /\ clock \in Nat /\ nextOrder \in Nat
        /\ \A e \in queue : e.callback \in Callback
    BY ClockIsTime, NextKeeps DEF DocInv, Inv, WorkInv, SchedInv, Sched!TypeOK
  <1>1. CASE RunNext
    <2>1. PICK e \in queue :
            \/ /\ Sched!RunEvent(e, Pushes(e.callback, e.time),
                                    Returns(e.callback, e.time))
               /\ IF Enters(e.callback)
                  THEN Handler(e.callback, e.time)
                  ELSE UNCHANGED <<entries, transferVars, returnVars>>
            \/ /\ Sched!DropOverdue(e)
               /\ UNCHANGED <<entries, transferVars, returnVars>>
      BY <1>1 DEF RunNext
    <2>2. ~Sched!DropOverdue(e)
      <3>1. e.time \in Nat /\ e.time >= clock
        BY <1>0, ClockIsTime DEF NothingOverdue
      <3> QED BY <3>1, <1>0 DEF Sched!DropOverdue
    <2>3. e.callback.op \in TransferStage \/ e.callback.op \in ReturnStage
      BY <1>0 DEF Callback
    <2>4. NothingOverdue' /\ NextStageQueued' /\ OnlyDescribedGoOn' /\ RecordInv'
      BY <2>1, <2>2, <2>3, RunTransferEvent, RunReturnEvent
    <2> QED BY <2>4, <1>0 DEF DocInv
  <1>2. ASSUME NEW t \in TransferIds, NEW asked \in Requests, receive(t, asked)
        PROVE  DocInv'
    <2> DEFINE f == [time |-> 1, order |-> nextOrder,
                     callback |-> [op |-> "validate", id |-> t]]
    <2>1. /\ status[t] = "Unknown" /\ clock <= 1
          /\ status' = [status EXCEPT ![t] = "Received"]
          /\ queue' = queue \cup {f} /\ clock' = clock
          /\ request' = [request EXCEPT ![t] = asked]
          /\ UNCHANGED <<entries, returnStatus, returnRequest>>
          /\ status \in [TransferIds -> TransferStatus]
      <3>1. clock <= 1
        BY <1>0, <1>2, AchInputs DEF receive, DocumentedUse
      <3> QED BY <3>1, <1>0, <1>2 DEF receive, MoveTo, Sched!ScheduleAt, returnVars, WorkType
    <2>2. NothingOverdue'
      BY <2>1, <1>0 DEF NothingOverdue
    <2>3. RecordInv'
      BY <2>1, <1>0, NothingRecorded
    <2>4. NextStageQueued'
      <3>1. f.callback.id = t /\ f.callback.op = "validate" /\ f.time = 1
        OBVIOUS
      <3> HIDE DEF f
      <3>2. EventsFor(t) = {}
        BY <1>0, <2>1, NextOps DEF NextStageQueued, Awaits
      <3>3. EventsFor(t)' = {f}
        BY <2>1, <3>1, <3>2 DEF EventsFor, TransferStage
      <3>4. \A u \in TransferIds \ {t} : /\ EventsFor(u)' = EventsFor(u)
                                         /\ status'[u] = status[u]
        BY <2>1, <3>1 DEF EventsFor
      <3>5. status'[t] = "Received"
        BY <2>1
      <3>w. Awaits(t)' /\ \A u \in TransferIds \ {t} : Awaits(u)' <=> Awaits(u)
        BY <2>1, <3>4, <3>5, NextOps DEF Awaits
      <3>6. ASSUME NEW u \in TransferIds
            PROVE  IF Awaits(u)'
                   THEN \E g \in queue' : /\ EventsFor(u)' = {g}
                                          /\ g.callback.op = NextOp[status'[u]]
                                          /\ g.time = StageTime[NextOp[status'[u]]]
                   ELSE EventsFor(u)' = {}
        <4>1. CASE u = t
          BY <4>1, <2>1, <3>1, <3>3, <3>5, <3>w, NextOps
        <4>2. CASE u # t
          BY <4>2, <2>1, <3>4, <3>w, <1>0 DEF NextStageQueued
        <4> QED BY <4>1, <4>2
      <3> QED BY <3>6 DEF NextStageQueued
    <2>5. OnlyDescribedGoOn'
      BY <2>1, <1>0 DEF OnlyDescribedGoOn, FromSubmitted
    <2> QED BY <2>2, <2>3, <2>4, <2>5, <1>0 DEF DocInv
  <1>3. ASSUME NEW r \in ReturnIds, NEW asked \in ReturnRequests,
               receive_return(r, asked)
        PROVE  DocInv'
    <2> DEFINE f == [time |-> clock + 1, order |-> nextOrder,
                     callback |-> [op |-> "validate_return", id |-> r]]
    <2>1. /\ returnStatus[r] = "Unknown"
          /\ returnStatus' = [returnStatus EXCEPT ![r] = "Received"]
          /\ returnRequest' = [returnRequest EXCEPT ![r] = asked]
          /\ queue' = queue \cup {f} /\ clock' = clock
          /\ UNCHANGED <<entries, status, request>>
          /\ returnStatus \in [ReturnIds -> ReturnStatus]
          /\ returnRequest \in [ReturnIds -> ReturnRequests \cup {None}]
      BY <1>0, <1>3 DEF receive_return, MoveReturnTo, Sched!ScheduleAt, transferVars, WorkType
    <2>2. NothingOverdue'
      BY <2>1, <1>0 DEF NothingOverdue
    <2>3. RecordInv'
      BY <2>1, <1>0, NothingRecorded
    <2>4. NextStageQueued'
      <3>1. f.callback.op \in ReturnStage
        BY DEF ReturnStage
      <3> HIDE DEF f
      <3>2. \A g : g.callback.op \in TransferStage => (g \in queue' <=> g \in queue)
        BY <2>1, <3>1, StagesApart
      <3> QED BY <3>2, <2>1, <1>0, OnlyReturnEvents
    <2>5. OnlyDescribedGoOn'
      BY <2>1, <1>0 DEF OnlyDescribedGoOn
    <2> QED BY <2>2, <2>3, <2>4, <2>5, <1>0 DEF DocInv
  <1>4. ASSUME NEW time \in JumpTimes, Jump(time)
        PROVE  DocInv'
    <2>1. /\ queue = {} /\ queue' = queue /\ clock' = time /\ time >= clock /\ time \in Nat
          /\ UNCHANGED <<entries, status, request, returnStatus, returnRequest>>
      BY <1>4 DEF Jump, DocumentedUse, Sched!AdvanceTo, transferVars, returnVars
    <2>2. NothingOverdue' /\ NextStageQueued' /\ OnlyDescribedGoOn'
      BY <2>1, <1>0 DEF NothingOverdue, NextStageQueued, Awaits, EventsFor, OnlyDescribedGoOn
    <2>3. RecordInv'
      BY <2>1, <1>0, NothingRecorded
    <2> QED BY <2>2, <2>3, <1>0 DEF DocInv
  <1>5. /\ ~ \E call \in PublicCall : CallStage(call)
        /\ ~ \E t \in TransferIds : reject(t)
        /\ ~ \E r \in ReturnIds : reject_return(r)
    BY DEF DocumentedUse, CallStage, reject, reject_return
  <1> QED BY <1>1, <1>2, <1>3, <1>4, <1>5 DEF Next

LEMMA DocumentedStutter == DocInv /\ UNCHANGED vars => DocInv'
  <1> SUFFICES ASSUME DocInv, UNCHANGED vars PROVE DocInv'
    OBVIOUS
  <1>1. UNCHANGED <<clock, queue, entries, status, request, returnStatus, returnRequest>>
    BY DEF vars, schedVars, transferVars, returnVars
  <1>2. Inv'
    BY StutterKeeps DEF DocInv
  <1>3. NothingOverdue' /\ NextStageQueued' /\ OnlyDescribedGoOn'
    BY <1>1 DEF DocInv, NothingOverdue, NextStageQueued, Awaits, EventsFor, OnlyDescribedGoOn
  <1>4. RecordInv'
    BY <1>1 DEF DocInv, RecordInv, PostedInTime, CompletionsRecorded, CreditsAfterDebits
  <1> QED BY <1>2, <1>3, <1>4 DEF DocInv

LEMMA DocumentedInit ==
  ASSUME DocumentedUse, Init
  PROVE  DocInv
  <1>1. /\ Inv /\ queue = {} /\ clock = 0 /\ entries = OpeningEntries
        /\ \A t \in TransferIds : status[t] = "Unknown"
        /\ \A r \in ReturnIds : returnStatus[r] = "Unknown"
    BY InitInv DEF Init, Sched!Init
  <1>2. NothingOverdue /\ NextStageQueued /\ OnlyDescribedGoOn
    BY <1>1, NextOps DEF NothingOverdue, NextStageQueued, Awaits, EventsFor,
                         OnlyDescribedGoOn, FromSubmitted
  <1>3. PostedInTime /\ CompletionsRecorded
    BY <1>1 DEF DocumentedUse, PostedInTime, CompletionsRecorded
  <1>4. CreditsAfterDebits
    BY <1>1 DEF CreditsAfterDebits, Inv, WorkInv, CreditsCompleted
  <1> QED BY <1>1, <1>2, <1>3, <1>4 DEF DocInv, RecordInv

\* The invariant of the documented use.
THEOREM DocumentedInvariant ==
  ASSUME DocumentedUse
  PROVE  Spec => []DocInv
  <1>1. Init => DocInv
    BY DocumentedInit
  <1>2. DocInv /\ [Next]_vars => DocInv'
    BY DocumentedStep, DocumentedStutter
  <1> QED BY <1>1, <1>2, PTL DEF Spec

\* In the documented use an unfinished transfer has exactly one queued event,
\* that of its next stage and not overdue, and a finished one has none: each
\* handler schedules its successor and no stage time is ever past.  The exception
\* is a Pending transfer whose hold was refused, which has none.
THEOREM OneEventEach ==
  ASSUME DocumentedUse
  PROVE  Spec => []OneEventPerUnfinishedTransfer
  <1>1. DocInv => OneEventPerUnfinishedTransfer
    BY DEF DocInv, NothingOverdue, NextStageQueued, Awaits, Stranded,
           OneEventPerUnfinishedTransfer
  <1> QED BY <1>1, DocumentedInvariant, PTL

\* In the documented use a transfer is debited exactly when it is completed, a
\* return credited exactly when it is, after the debit that it corrects and like it.
THEOREM EffectsMatch ==
  ASSUME DocumentedUse
  PROVE  Spec => []EffectsMatchStatus
  <1>1. ASSUME DocInv PROVE EffectsMatchStatus
    <2>0. WorkInv /\ RecordInv
      BY <1>1 DEF DocInv, Inv
    <2>1. \A t \in TransferIds : DebitsOf(t) # {} <=> status[t] = "Completed"
      BY <2>0 DEF WorkInv, DebitsCompleted, RecordInv, CompletionsRecorded, DebitsOf
    <2>2. \A r \in ReturnIds : CreditOf(r) # {} <=> returnStatus[r] = "Completed"
      BY <2>0 DEF WorkInv, CreditsCompleted, RecordInv, CompletionsRecorded, CreditOf
    <2>3. ASSUME NEW t \in TransferIds, NEW c \in CreditsFor(t)
          PROVE  \E d \in DebitsOf(t) : /\ d < c
                                        /\ entries[d].amount = entries[c].amount
                                        /\ entries[d].account_id = entries[c].account_id
      <3>1. PICK r \in ReturnIds : returnRequest[r].original = t /\ c \in CreditOf(r)
        BY DEF CreditsFor
      <3>2. /\ c \in DOMAIN entries /\ entries[c].entry_id = <<r, "CREDIT">>
        BY <3>1 DEF CreditOf
      <3>3. /\ returnStatus[r] = "Completed"
            /\ entries[c].amount = returnRequest[r].amount
            /\ entries[c].account_id = request[t].source
        BY <2>0, <3>1, <3>2 DEF WorkInv, CreditsCompleted
      <3>4. returnRequest[r].amount = request[t].amount
        BY <2>0, <3>1, <3>3 DEF WorkInv, ReturnsRegistered, Accepted
      <3>5. PICK d \in DOMAIN entries : d < c /\ entries[d].entry_id = <<t, "DEBIT">>
        BY <2>0, <3>1, <3>2 DEF RecordInv, CreditsAfterDebits
      <3>6. entries[d].amount = request[t].amount /\ entries[d].account_id = request[t].source
        BY <2>0, <3>5 DEF WorkInv, DebitsCompleted
      <3>7. d \in DebitsOf(t)
        BY <3>5 DEF DebitsOf
      <3> QED BY <3>3, <3>4, <3>5, <3>6, <3>7
    <2> QED BY <2>1, <2>2, <2>3 DEF EffectsMatchStatus
  <1> QED BY <1>1, DocumentedInvariant, PTL
-----------------------------------------------------------------------------
(***************************************************************************)
(* In the documented use the transfers and returns implement the abstract  *)
(* payment.  What the ledger says of a transfer is first expressed in      *)
(* terms of the workflows, which change by one at a time.                  *)
(***************************************************************************)
Credited(t) == \E r \in ReturnIds : /\ returnStatus[r] = "Completed"
                                    /\ returnRequest[r].original = t

Phase(t) == CASE status[t] = "Rejected" -> "refused"
              [] status[t] = "Completed" /\ Credited(t) -> "restored"
              [] status[t] = "Completed" /\ ~Credited(t) -> "debited"
              [] status[t] \notin {"Completed", "Rejected"} -> "open"

Taken(t) == IF Phase(t) = "debited" THEN request[t].amount ELSE 0

PhasesMatch == \A t \in TransferIds : Outcome(t) = Phase(t) /\ Moved(t) = Taken(t)

\* Outcome and Moved, read off the ledger, are what the workflows say.
LEMMA LedgerTellsPhases == DocInv => PhasesMatch
  <1> SUFFICES ASSUME DocInv, NEW t \in TransferIds
               PROVE  Outcome(t) = Phase(t) /\ Moved(t) = Taken(t)
    BY DEF PhasesMatch
  <1>0. WorkInv /\ RecordInv /\ L!UniqueIds(entries)
    BY DEF DocInv, Inv, WorkInv, L!WellFormed
  <1>1. DebitsOf(t) # {} <=> status[t] = "Completed"
    BY <1>0 DEF WorkInv, DebitsCompleted, RecordInv, CompletionsRecorded, DebitsOf
  <1>2. CreditsFor(t) # {} <=> Credited(t)
    <2>1. ASSUME Credited(t) PROVE CreditsFor(t) # {}
      <3>1. PICK r \in ReturnIds : /\ returnStatus[r] = "Completed"
                                   /\ returnRequest[r].original = t
        BY <2>1 DEF Credited
      <3>2. returnRequest[r] # None
        BY <1>0, <3>1, ReturnRequestParts, AchInputs
      <3>3. PICK i \in DOMAIN entries : entries[i].entry_id = <<r, "CREDIT">>
        BY <1>0, <3>1 DEF RecordInv, CompletionsRecorded
      <3>4. i \in CreditOf(r)
        BY <3>3 DEF CreditOf
      <3> QED BY <3>1, <3>2, <3>4 DEF CreditsFor
    <2>2. ASSUME CreditsFor(t) # {} PROVE Credited(t)
      <3>1. PICK r \in ReturnIds : returnRequest[r].original = t /\ CreditOf(r) # {}
        BY <2>2 DEF CreditsFor
      <3> QED BY <1>0, <3>1 DEF WorkInv, CreditsCompleted, CreditOf, Credited
    <2> QED BY <2>1, <2>2
  <1>3. Credited(t) => status[t] = "Completed"
    BY <1>0 DEF WorkInv, ReturnsRegistered, Credited, Accepted
  <1>4. Outcome(t) = Phase(t)
    BY <1>1, <1>2, <1>3 DEF Outcome, Phase
  <1>5. \A i \in DebitsOf(t) : /\ L!Signed(entries[i]) = 0 - request[t].amount
                               /\ request[t].amount \in Nat
    <2> SUFFICES ASSUME NEW i \in DebitsOf(t)
                 PROVE  /\ L!Signed(entries[i]) = 0 - request[t].amount
                        /\ request[t].amount \in Nat
      OBVIOUS
    <2>1. /\ entries[i].entry_type = L!DEBIT /\ entries[i].amount = request[t].amount
          /\ status[t] = "Completed"
      BY <1>0 DEF WorkInv, DebitsCompleted, DebitsOf
    <2>2. request[t].amount \in Nat
      BY <1>0, <2>1, RequestParts
    <2> QED BY <2>1, <2>2 DEF L!Signed, L!DEBIT, L!CREDIT
  <1>6. \A i \in CreditsFor(t) : L!Signed(entries[i]) = request[t].amount
    <2> SUFFICES ASSUME NEW i \in CreditsFor(t)
                 PROVE  L!Signed(entries[i]) = request[t].amount
      OBVIOUS
    <2>1. PICK r \in ReturnIds : returnRequest[r].original = t /\ i \in CreditOf(r)
      BY DEF CreditsFor
    <2>2. /\ entries[i].entry_type = L!CREDIT
          /\ entries[i].amount = returnRequest[r].amount
          /\ returnStatus[r] = "Completed"
      BY <1>0, <2>1 DEF WorkInv, CreditsCompleted, CreditOf
    <2>3. returnRequest[r].amount = request[t].amount
      BY <1>0, <2>1, <2>2 DEF WorkInv, ReturnsRegistered, Accepted
    <2> QED BY <2>2, <2>3 DEF L!Signed, L!DEBIT, L!CREDIT
  <1>7. /\ \A i, j \in DebitsOf(t) : i = j
        /\ \A i, j \in CreditsFor(t) : i = j
        /\ \A i \in DebitsOf(t), j \in CreditsFor(t) : i # j
    <2>1. \A i, j \in DebitsOf(t) : i = j
      BY <1>0 DEF L!UniqueIds, DebitsOf
    <2>2. ASSUME NEW i \in CreditsFor(t), NEW j \in CreditsFor(t) PROVE i = j
      <3>1. PICK r \in ReturnIds : returnRequest[r].original = t /\ i \in CreditOf(r)
        BY DEF CreditsFor
      <3>2. PICK q \in ReturnIds : returnRequest[q].original = t /\ j \in CreditOf(q)
        BY DEF CreditsFor
      <3>3. returnStatus[r] = "Completed" /\ returnStatus[q] = "Completed"
        BY <1>0, <3>1, <3>2 DEF WorkInv, CreditsCompleted, CreditOf
      <3>4. returnOf[t] = r /\ returnOf[t] = q
        BY <1>0, <3>1, <3>2, <3>3 DEF WorkInv, ReturnsRegistered, Accepted
      <3> QED BY <1>0, <3>1, <3>2, <3>4 DEF L!UniqueIds, CreditOf
    <2>3. ASSUME NEW i \in DebitsOf(t), NEW j \in CreditsFor(t) PROVE i # j
      <3>1. PICK r \in ReturnIds : j \in CreditOf(r)
        BY DEF CreditsFor
      <3>2. entries[i].entry_id = <<t, "DEBIT">> /\ entries[j].entry_id = <<r, "CREDIT">>
        BY <3>1 DEF DebitsOf, CreditOf
      <3>3. <<t, "DEBIT">> # <<r, "CREDIT">>
        OBVIOUS
      <3> QED BY <3>2, <3>3
    <2> QED BY <2>1, <2>2, <2>3
  <1>8. Moved(t) = Taken(t)
    <2> DEFINE S == DebitsOf(t) \cup CreditsFor(t)
               f == [i \in S |-> L!Signed(entries[i])]
    <2>1. S # {} => DebitsOf(t) # {}
      BY <1>1, <1>2, <1>3
    <2>2. \A i \in S : L!Signed(entries[i]) \in Int
      BY <1>5, <1>6, <2>1
    <2>3. f \in [S -> Int]
      BY <2>2
    <2>m. Moved(t) = 0 - SumFunction(f)
      BY DEF Moved
    <2>4. CASE DebitsOf(t) = {}
      <3>1. S = {} /\ IsFiniteSet(S)
        BY <2>1, <2>4, FS_EmptySet
      <3> HIDE DEF f
      <3>3. SumFunction(f) = 0
        BY <2>3, <3>1, SumType
      <3>4. Phase(t) # "debited"
        BY <1>1, <2>4 DEF Phase
      <3> QED BY <2>m, <3>3, <3>4 DEF Taken
    <2>5. CASE DebitsOf(t) # {} /\ CreditsFor(t) = {}
      <3>1. PICK d : S = {d} /\ d \in DebitsOf(t)
        BY <2>5, <1>7
      <3>4. f[d] = 0 - request[t].amount /\ request[t].amount \in Nat
        BY <3>1, <1>5
      <3> HIDE DEF f
      <3>5. SumFunction(f) = f[d]
        BY <2>3, <3>1, SumOne
      <3>6. Phase(t) = "debited"
        BY <1>1, <1>2, <2>5 DEF Phase
      <3> QED BY <2>m, <3>4, <3>5, <3>6 DEF Taken
    <2>6. CASE DebitsOf(t) # {} /\ CreditsFor(t) # {}
      <3>1. PICK d \in DebitsOf(t) : TRUE
        BY <2>6
      <3>2. PICK c \in CreditsFor(t) : TRUE
        BY <2>6
      <3>3. S = {d, c} /\ d # c
        BY <1>7
      <3>6. /\ f[d] = 0 - request[t].amount /\ f[c] = request[t].amount
            /\ request[t].amount \in Nat
        BY <1>5, <1>6
      <3> HIDE DEF f
      <3>7. SumFunction(f) = f[d] + f[c]
        BY <2>3, <3>3, SumTwo
      <3>8. Phase(t) # "debited"
        BY <1>1, <1>2, <2>6 DEF Phase
      <3> QED BY <2>m, <3>6, <3>7, <3>8 DEF Taken
    <2> QED BY <2>4, <2>5, <2>6
  <1> QED BY <1>4, <1>8

PhaseKept(t) == Phase(t)' = Phase(t) /\ Taken(t)' = Taken(t)

\* The phases that t goes through, and what it then has taken.
PhaseMoved(t) ==
  \/ /\ Phase(t) = "open" /\ Phase(t)' = "refused" /\ Taken(t)' = Taken(t)
  \/ /\ Phase(t) = "open" /\ Phase(t)' = "debited"
     /\ \E asked \in Requests : Taken(t)' = asked.amount
  \/ /\ Phase(t) = "debited" /\ Phase(t)' = "restored" /\ Taken(t)' = 0

\* One transfer moves to its next phase, or none does.
PhasesStep ==
  \/ \A t \in TransferIds : PhaseKept(t)
  \/ \E p \in TransferIds : /\ PhaseMoved(p)
                            /\ \A t \in TransferIds \ {p} : PhaseKept(t)

\* What a phase is read from.
LEMMA PhaseSame ==
  ASSUME NEW t \in TransferIds,
         status'[t] = status[t],
         Credited(t)' <=> Credited(t),
         status[t] # "Unknown" => request'[t] = request[t]
  PROVE  PhaseKept(t)
  <1>1. Phase(t)' = Phase(t)
    BY DEF Phase
  <1>2. Phase(t) = "debited" => status[t] # "Unknown"
    BY DEF Phase
  <1> QED BY <1>1, <1>2 DEF PhaseKept, Taken

\* A transfer in progress moves.
LEMMA TransferMovesPhase ==
  ASSUME WorkInv, NEW t \in TransferIds, NEW to \in TransferStatus,
         status[t] \notin {"Unknown", "Completed", "Rejected"},
         status' = [status EXCEPT ![t] = to],
         UNCHANGED <<request, returnStatus, returnRequest>>
  PROVE  PhasesStep
  <1>1. /\ status'[t] = to
        /\ \A u \in TransferIds \ {t} : status'[u] = status[u]
    BY DEF WorkInv, WorkType
  <1>2. \A u \in TransferIds : Credited(u)' <=> Credited(u)
    BY DEF Credited
  <1>3. \A u \in TransferIds \ {t} : PhaseKept(u)
    BY <1>1, <1>2, PhaseSame
  <1>4. ~Credited(t)
    BY DEF Credited, WorkInv, ReturnsRegistered, Accepted
  <1>5. Phase(t) = "open" /\ Taken(t) = 0
    BY DEF Phase, Taken
  <1>6. CASE to = "Rejected"
    <2>1. Phase(t)' = "refused" /\ Taken(t)' = 0
      BY <1>1, <1>6 DEF Phase, Taken
    <2> QED BY <2>1, <1>3, <1>5 DEF PhasesStep, PhaseMoved
  <1>7. CASE to = "Completed"
    <2>1. Phase(t)' = "debited"
      BY <1>1, <1>2, <1>4, <1>7 DEF Phase
    <2>2. Taken(t)' = request[t].amount /\ request[t] \in Requests
      BY <2>1, RequestParts DEF Taken
    <2> QED BY <2>1, <2>2, <1>3, <1>5 DEF PhasesStep, PhaseMoved
  <1>8. CASE to \notin {"Rejected", "Completed"}
    <2>1. Phase(t)' = "open" /\ Taken(t)' = 0
      BY <1>1, <1>8 DEF Phase, Taken
    <2>2. PhaseKept(t)
      BY <2>1, <1>5 DEF PhaseKept
    <2> QED BY <2>2, <1>3 DEF PhasesStep
  <1> QED BY <1>6, <1>7, <1>8

\* A return moves: only its completion changes a phase, and that of the
\* transfer it corrects, which no other return has corrected.
LEMMA ReturnMovesPhase ==
  ASSUME WorkInv, WorkInv', NEW r \in ReturnIds, NEW to,
         returnStatus[r] # "Completed",
         to = "Completed" => returnStatus[r] # "Unknown",
         returnStatus' = [returnStatus EXCEPT ![r] = to],
         UNCHANGED <<status, request>>,
         \A q \in ReturnIds : returnStatus[q] # "Unknown" =>
                                returnRequest'[q] = returnRequest[q]
  PROVE  PhasesStep
  <1>1. /\ returnStatus'[r] = to
        /\ \A q \in ReturnIds \ {r} : returnStatus'[q] = returnStatus[q]
    BY DEF WorkInv, WorkType
  <1>2. CASE to # "Completed"
    <2>1. \A q \in ReturnIds : returnStatus'[q] = "Completed" <=> returnStatus[q] = "Completed"
      BY <1>1, <1>2
    <2>2. \A u \in TransferIds : Credited(u)' <=> Credited(u)
      BY <2>1 DEF Credited
    <2> QED BY <2>2, PhaseSame DEF PhasesStep
  <1>3. CASE to = "Completed"
    <2>0. PICK t \in TransferIds : t = returnRequest[r].original
      BY <1>3, ReturnRequestParts
    <2>1. returnRequest'[r] = returnRequest[r] /\ returnRequest[r].original = t
      BY <1>3, <2>0
    <2>2. status[t] = "Completed" /\ returnOf'[t] = r
      BY <2>1, <1>1, <1>3 DEF WorkInv, ReturnsRegistered, Accepted
    <2>3. ASSUME Credited(t) PROVE FALSE
      <3>1. PICK q \in ReturnIds : /\ returnStatus[q] = "Completed"
                                   /\ returnRequest[q].original = t
        BY <2>3 DEF Credited
      <3>2. q # r /\ returnStatus'[q] = "Completed" /\ returnRequest'[q].original = t
        BY <3>1, <1>1
      <3>3. returnOf'[t] = q
        BY <3>2 DEF WorkInv, ReturnsRegistered, Accepted
      <3> QED BY <3>2, <3>3, <2>2
    <2>4. Credited(t)'
      BY <2>1, <1>1, <1>3 DEF Credited
    <2>5. PhaseMoved(t)
      <3>1. Phase(t) = "debited"
        BY <2>2, <2>3 DEF Phase
      <3>2. Phase(t)' = "restored"
        BY <2>2, <2>4 DEF Phase
      <3> QED BY <3>1, <3>2 DEF PhaseMoved, Taken
    <2>6. ASSUME NEW u \in TransferIds \ {t} PROVE PhaseKept(u)
      <3>1. Credited(u)' <=> Credited(u)
        BY <2>1, <1>1 DEF Credited
      <3> QED BY <3>1, PhaseSame
    <2> QED BY <2>1, <2>5, <2>6 DEF PhasesStep
  <1> QED BY <1>2, <1>3

\* A handler moves at most one transfer's phase.
LEMMA HandlerMovesPhase ==
  ASSUME WorkInv, WorkInv', NEW call \in Callback, NEW now \in Nat, Handler(call, now)
  PROVE  PhasesStep
  <1>0. WorkType
    BY DEF WorkInv
  <1>1. CASE call.op \in TransferStage
    <2>1. call.id \in TransferIds
      BY <1>1 DEF Callback, TransferStage, ReturnStage
    <2>2. /\ status[call.id] \notin {"Unknown", "Completed", "Rejected"}
          /\ \E to \in TransferStatus : status' = [status EXCEPT ![call.id] = to]
          /\ UNCHANGED <<request, returnStatus, returnRequest>>
      BY <1>0, <1>1, <2>1, MovesFrom
         DEF Handler, TransferStage, _validate, _mark_pending, submit, process, complete,
             MoveTo, returnVars, TransferStatus
    <2> QED BY <2>1, <2>2, TransferMovesPhase
  <1>2. CASE call.op \in ReturnStage
    <2>1. call.id \in ReturnIds
      BY <1>2 DEF Callback, TransferStage, ReturnStage
    <2>2. /\ returnStatus[call.id] \notin {"Unknown", "Completed"}
          /\ \E to \in ReturnStatus : returnStatus' = [returnStatus EXCEPT ![call.id] = to]
          /\ UNCHANGED <<status, request, returnRequest>>
      BY <1>0, <1>2, <2>1, ReturnMovesFrom
         DEF Handler, ReturnStage, validate_return, process_return, complete_return,
             MoveReturnTo, transferVars, ReturnStatus
    <2> QED BY <2>1, <2>2, ReturnMovesPhase
  <1> QED BY <1>1, <1>2 DEF Callback

\* A step that leaves the workflows alone.
LEMMA PhasesUntouched ==
  ASSUME UNCHANGED <<status, request, returnStatus, returnRequest>>
  PROVE  PhasesStep
  <1>1. \A u \in TransferIds : Credited(u)' <=> Credited(u)
    BY DEF Credited
  <1> QED BY <1>1, PhaseSame DEF PhasesStep

\* Every step, of any callers, moves at most one transfer's phase.
LEMMA NextMovesPhase ==
  ASSUME Inv, Inv', [Next]_vars
  PROVE  PhasesStep
  <1>0. WorkInv /\ WorkInv' /\ WorkType /\ clock \in Nat
        /\ \A e \in queue : e.time \in Nat /\ e.callback \in Callback
    BY ClockIsTime DEF Inv, WorkInv
  <1>1. CASE RunNext
    <2>1. PICK e \in queue : \/ Handler(e.callback, e.time)
                             \/ UNCHANGED <<transferVars, returnVars>>
      BY <1>1 DEF RunNext
    <2>2. CASE Handler(e.callback, e.time)
      BY <2>2, <1>0, HandlerMovesPhase
    <2>3. CASE UNCHANGED <<transferVars, returnVars>>
      BY <2>3, PhasesUntouched DEF transferVars, returnVars
    <2> QED BY <2>1, <2>2, <2>3
  <1>2. ASSUME NEW t \in TransferIds, NEW asked \in Requests, receive(t, asked)
        PROVE  PhasesStep
    <2>1. /\ status[t] = "Unknown"
          /\ status' = [status EXCEPT ![t] = "Received"]
          /\ request' = [request EXCEPT ![t] = asked]
          /\ UNCHANGED <<returnStatus, returnRequest>>
          /\ status \in [TransferIds -> TransferStatus]
          /\ request \in [TransferIds -> Requests \cup {None}]
      BY <1>0, <1>2 DEF receive, MoveTo, returnVars, WorkType
    <2>2. \A u \in TransferIds : Credited(u)' <=> Credited(u)
      BY <2>1 DEF Credited
    <2>3. \A u \in TransferIds \ {t} : status'[u] = status[u] /\ request'[u] = request[u]
      BY <2>1
    <2>4. \A u \in TransferIds \ {t} : PhaseKept(u)
      BY <2>2, <2>3, PhaseSame
    <2>5. PhaseKept(t)
      BY <2>1 DEF PhaseKept, Phase, Taken
    <2> QED BY <2>4, <2>5 DEF PhasesStep
  <1>3. ASSUME NEW r \in ReturnIds, NEW asked \in ReturnRequests,
               receive_return(r, asked)
        PROVE  PhasesStep
    <2>1. /\ returnStatus[r] = "Unknown"
          /\ returnStatus' = [returnStatus EXCEPT ![r] = "Received"]
          /\ returnRequest' = [returnRequest EXCEPT ![r] = asked]
          /\ UNCHANGED <<status, request>>
          /\ returnRequest \in [ReturnIds -> ReturnRequests \cup {None}]
      BY <1>0, <1>3 DEF receive_return, MoveReturnTo, transferVars, WorkType
    <2> QED BY <2>1, <1>0, ReturnMovesPhase
  <1>4. ASSUME NEW call \in PublicCall, CallStage(call)
        PROVE  PhasesStep
    <2>1. call \in Callback
      BY DEF PublicCall, Callback, TransferStage
    <2> QED BY <2>1, <1>0, <1>4, HandlerMovesPhase DEF CallStage
  <1>5. ASSUME NEW t \in TransferIds, reject(t)
        PROVE  PhasesStep
    <2>1. /\ status[t] = "Received"
          /\ status' = [status EXCEPT ![t] = "Rejected"]
          /\ UNCHANGED <<request, returnStatus, returnRequest>>
      BY <1>0, <1>5, MovesFrom DEF reject, MoveTo, returnVars
    <2>2. "Rejected" \in TransferStatus
      BY DEF TransferStatus
    <2> QED BY <2>1, <2>2, <1>0, TransferMovesPhase
  <1>6. ASSUME NEW r \in ReturnIds, reject_return(r)
        PROVE  PhasesStep
    <2>1. /\ returnStatus[r] = "Received"
          /\ returnStatus' = [returnStatus EXCEPT ![r] = "Rejected"]
          /\ UNCHANGED <<status, request, returnRequest>>
      BY <1>0, <1>6, ReturnMovesFrom DEF reject_return, MoveReturnTo, transferVars
    <2> QED BY <2>1, <1>0, ReturnMovesPhase
  <1>7. ASSUME NEW time \in JumpTimes, Jump(time)
        PROVE  PhasesStep
    BY <1>7, PhasesUntouched DEF Jump, transferVars, returnVars
  <1>8. CASE UNCHANGED vars
    BY <1>8, PhasesUntouched DEF vars, transferVars, returnVars
  <1> QED BY <1>1, <1>2, <1>3, <1>4, <1>5, <1>6, <1>7, <1>8 DEF Next

\* In the documented use, whatever the requests, transfers and returns together
\* implement the abstract payment: refused without effect, or debited once by the
\* requested amount and restored in full at most once.
THEOREM ImplementsPromise ==
  ASSUME DocumentedUse
  PROVE  Spec => KeepsPromise
  <1> DEFINE out == [t \in TransferIds |-> Outcome(t)]
             mov == [t \in TransferIds |-> Moved(t)]
  <1>1. ASSUME Init PROVE Promise!Init
    <2>1. DocInv
      BY <1>1, DocumentedInit
    <2>2. \A t \in TransferIds : Outcome(t) = "open" /\ Moved(t) = 0
      <3>1. \A t \in TransferIds : status[t] = "Unknown"
        BY <1>1 DEF Init
      <3>2. \A t \in TransferIds : Phase(t) = "open" /\ Taken(t) = 0
        BY <3>1 DEF Phase, Taken
      <3> QED BY <3>2, <2>1, LedgerTellsPhases DEF PhasesMatch
    <2> QED BY <2>2 DEF Promise!Init
  <1>2. ASSUME Inv, Inv', PhasesMatch, PhasesMatch', [Next]_vars
        PROVE  [Promise!Next]_(Promise!vars)
    <2>1. PhasesStep
      BY <1>2, NextMovesPhase
    <2>2. \A t \in TransferIds : /\ Outcome(t) = Phase(t) /\ Outcome(t)' = Phase(t)'
                                 /\ Moved(t) = Taken(t) /\ Moved(t)' = Taken(t)'
      BY <1>2 DEF PhasesMatch
    <2>3. CASE \A t \in TransferIds : PhaseKept(t)
      <3>1. \A t \in TransferIds : Outcome(t)' = Outcome(t) /\ Moved(t)' = Moved(t)
        BY <2>2, <2>3 DEF PhaseKept
      <3>2. out' = out /\ mov' = mov
        BY <3>1
      <3> QED BY <3>2 DEF Promise!vars
    <2>4. ASSUME NEW p \in TransferIds, PhaseMoved(p),
                 \A t \in TransferIds \ {p} : PhaseKept(t)
          PROVE  Promise!Next
      <3>1. \A t \in TransferIds \ {p} : Outcome(t)' = Outcome(t) /\ Moved(t)' = Moved(t)
        BY <2>2, <2>4 DEF PhaseKept
      <3>2. /\ out' = [out EXCEPT ![p] = Outcome(p)']
            /\ mov' = [mov EXCEPT ![p] = Moved(p)']
        BY <3>1
      <3>3. out[p] = Outcome(p) /\ mov[p] = Moved(p)
        OBVIOUS
      <3>4. CASE /\ Phase(p) = "open" /\ Phase(p)' = "refused" /\ Taken(p)' = Taken(p)
        <4>1. mov' = mov
          BY <3>2, <3>3, <3>4, <2>2
        <4> QED BY <4>1, <3>2, <3>3, <3>4, <2>2 DEF Promise!Next, Promise!Refuse
      <3>5. CASE /\ Phase(p) = "open" /\ Phase(p)' = "debited"
                 /\ \E asked \in Requests : Taken(p)' = asked.amount
        <4>1. Moved(p)' \in {asked.amount : asked \in Requests}
          BY <3>5, <2>2
        <4> QED BY <4>1, <3>2, <3>3, <3>5, <2>2 DEF Promise!Next, Promise!Debit
      <3>6. CASE /\ Phase(p) = "debited" /\ Phase(p)' = "restored" /\ Taken(p)' = 0
        BY <3>2, <3>3, <3>6, <2>2 DEF Promise!Next, Promise!Restore
      <3> QED BY <2>4, <3>4, <3>5, <3>6 DEF PhaseMoved
    <2> QED BY <2>1, <2>3, <2>4 DEF PhasesStep
  <1>3. DocInv => Inv
    BY DEF DocInv
  <1> QED BY <1>1, <1>2, <1>3, DocumentedInvariant, LedgerTellsPhases, PTL
          DEF Spec, KeepsPromise, Promise!Spec
-----------------------------------------------------------------------------
(***************************************************************************)
(* Settlement.  The ledger is the opening ledger followed by what the      *)
(* network's workflows recorded.                                           *)
(***************************************************************************)
OwnIds == (TransferIds \X {"DEBIT"}) \cup (ReturnIds \X {"CREDIT"})

OpeningKept ==
  /\ \A i \in DOMAIN OpeningEntries :
       i \in DOMAIN entries /\ entries[i] = OpeningEntries[i]
  /\ \A i \in DOMAIN entries \ DOMAIN OpeningEntries : entries[i].entry_id \in OwnIds

\* The ledger is left alone, or may take an entry under an identifier of its own.
Records == \/ entries' = entries
           \/ \E e \in L!Entry : e.entry_id \in OwnIds /\ entries' = Recorded(e)

LEMMA HandlerRecords ==
  ASSUME WorkInv, NEW call \in Callback, NEW now \in Nat, Handler(call, now)
  PROVE  Records
  <1>1. CASE call.op = "complete" /\ complete(call.id)
    <2>1. call.id \in TransferIds
      BY <1>1 DEF Callback, TransferStage, ReturnStage
    <2>2. /\ status[call.id] = "Processing"
          /\ entries' = entries \/ entries' = Recorded(DebitEntry(call.id))
      BY <1>1, <2>1, MovesFrom DEF complete, WorkInv
    <2>3. DebitEntry(call.id) \in L!Entry /\ DebitEntry(call.id).entry_id \in OwnIds
      BY <2>1, <2>2, DebitTyped DEF DebitEntry, Entry, OwnIds
    <2> QED BY <2>2, <2>3 DEF Records
  <1>2. CASE call.op = "complete_return" /\ complete_return(call.id, now)
    <2>1. call.id \in ReturnIds
      BY <1>2 DEF Callback, TransferStage, ReturnStage
    <2>2. returnStatus[call.id] \in Accepted /\ entries' = Recorded(CreditEntry(call.id, now))
      BY <1>2, <2>1, ReturnMovesFrom DEF complete_return, WorkInv, Accepted
    <2>3. CreditEntry(call.id, now) \in L!Entry /\ CreditEntry(call.id, now).entry_id \in OwnIds
      BY <2>1, <2>2, CreditTyped DEF CreditEntry, Entry, OwnIds
    <2> QED BY <2>2, <2>3 DEF Records
  <1>3. CASE call.op \notin {"complete", "complete_return"}
    BY <1>3 DEF Handler, Records, _validate, _mark_pending, submit, process, validate_return,
                process_return
  <1> QED BY <1>1, <1>2, <1>3 DEF Handler

\* Nothing but a handler touches the ledger.
LEMMA NextRecords ==
  ASSUME Inv, [Next]_vars
  PROVE  Records
  <1>0. WorkInv /\ clock \in Nat /\ \A e \in queue : e.time \in Nat /\ e.callback \in Callback
    BY ClockIsTime DEF Inv
  <1>1. CASE RunNext
    BY <1>0, <1>1, HandlerRecords DEF RunNext, Records
  <1>2. CASE \E call \in PublicCall : CallStage(call)
    <2>1. PICK call \in PublicCall : CallStage(call)
      BY <1>2
    <2>2. call \in Callback
      BY DEF PublicCall, Callback, TransferStage
    <2> QED BY <1>0, <2>1, <2>2, HandlerRecords DEF CallStage
  <1>3. ASSUME \/ \E t \in TransferIds, asked \in Requests : receive(t, asked)
               \/ \E r \in ReturnIds, asked \in ReturnRequests : receive_return(r, asked)
               \/ \E t \in TransferIds : reject(t)
               \/ \E r \in ReturnIds : reject_return(r)
               \/ \E time \in JumpTimes : Jump(time)
               \/ UNCHANGED vars
        PROVE  entries' = entries
    BY <1>3 DEF receive, receive_return, reject, reject_return, Jump, vars
  <1> QED BY <1>1, <1>2, <1>3 DEF Next, Records

LEMMA RecordsKeepOpening ==
  ASSUME Inv, OpeningKept, Records
  PROVE  OpeningKept'
  <1>1. CASE entries' = entries
    BY <1>1 DEF OpeningKept
  <1>2. ASSUME NEW e \in L!Entry, e.entry_id \in OwnIds, entries' = Recorded(e)
        PROVE  OpeningKept'
    <2>1. L!LedgerType /\ L!WellFormed
      BY DEF Inv, WorkInv, WorkType
    <2>2. /\ \A i \in DOMAIN entries' : \/ i \in DOMAIN entries /\ entries'[i] = entries[i]
                                        \/ i = Len(entries) + 1 /\ entries'[i] = e
          /\ \A i \in DOMAIN entries : i \in DOMAIN entries' /\ entries'[i] = entries[i]
      BY <1>2, <2>1, RecordedKeeps
    <2> QED BY <1>2, <2>2 DEF OpeningKept
  <1> QED BY <1>1, <1>2 DEF Records

THEOREM OpeningStays == Spec => []OpeningKept
  <1>1. Init => OpeningKept
    BY DEF Init, OpeningKept
  <1>2. Inv /\ OpeningKept /\ [Next]_vars => OpeningKept'
    BY NextRecords, RecordsKeepOpening
  <1> QED BY <1>1, <1>2, Invariant, PTL DEF Spec
-----------------------------------------------------------------------------
\* The workflow that recorded the i-th entry.
Who(i) == entries[i].entry_id[1]

\* The places in the ledger of what concerns account a: what it opened with, the
\* debits and the credits.
OpeningPlaces(a) == {i \in DOMAIN OpeningEntries : OpeningEntries[i].account_id = a}
DebitPlaces(a) == {i \in DOMAIN entries : /\ entries[i].account_id = a
                                          /\ entries[i].entry_id \in TransferIds \X {"DEBIT"}}
CreditPlaces(a) == {i \in DOMAIN entries : /\ entries[i].account_id = a
                                           /\ entries[i].entry_id \in ReturnIds \X {"CREDIT"}}
PlacesOf(a) == {i \in DOMAIN entries : entries[i].account_id = a}

\* The records of the transfers from account a and of their returns.
OutRows(a) == {row \in {r \in settlement_expectations :
                          /\ r.direction = OUTBOUND
                          /\ request[r.payment_id].source = a} : row.direction = OUTBOUND}
BackRows(a) == {row \in {r \in settlement_expectations :
                           /\ r.direction = RETURN
                           /\ request[returnRequest[r.payment_id].original].source = a} :
                  row.direction = RETURN}

\* What the places of an account are made of.
LEMMA PlacesApart ==
  ASSUME DocInv, OpeningKept, NEW a
  PROVE  /\ IsFiniteSet(DOMAIN entries)
         /\ \A i \in DOMAIN entries : entries[i] \in L!Entry
         /\ PlacesOf(a) = OpeningPlaces(a) \cup (DebitPlaces(a) \cup CreditPlaces(a))
         /\ OpeningPlaces(a) \cap (DebitPlaces(a) \cup CreditPlaces(a)) = {}
         /\ DebitPlaces(a) \cap CreditPlaces(a) = {}
         /\ \A i \in OpeningPlaces(a) : entries[i] = OpeningEntries[i]
  <1>1. entries \in Seq(L!Entry)
    BY DEF DocInv, Inv, WorkInv, WorkType, L!LedgerType
  <1>2. /\ DOMAIN entries = 1..Len(entries) /\ Len(entries) \in Nat
        /\ \A i \in DOMAIN entries : entries[i] \in L!Entry
    BY <1>1, ElementOfSeq, LenProperties
  <1>3. IsFiniteSet(1..Len(entries))
    BY <1>2, FS_Interval
  <1>4. \A i \in DOMAIN OpeningEntries : OpeningEntries[i].entry_id \in OtherEntryIds
    BY OpeningLedger DEF L!Ids
  <1>5. \A i \in DOMAIN OpeningEntries : entries[i].entry_id \notin OwnIds
    BY <1>4, OpeningLedger DEF OpeningKept, OwnIds
  <1>6. /\ PlacesOf(a) = OpeningPlaces(a) \cup (DebitPlaces(a) \cup CreditPlaces(a))
        /\ OpeningPlaces(a) \cap (DebitPlaces(a) \cup CreditPlaces(a)) = {}
        /\ \A i \in OpeningPlaces(a) : entries[i] = OpeningEntries[i]
    BY <1>5 DEF OpeningKept, OwnIds, PlacesOf, OpeningPlaces, DebitPlaces, CreditPlaces
  <1>7. DebitPlaces(a) \cap CreditPlaces(a) = {}
    BY DEF DebitPlaces, CreditPlaces
  <1> QED BY <1>2, <1>3, <1>6, <1>7

\* Amounts as numbers.
LEMMA EntryNumbers ==
  ASSUME NEW e \in L!Entry
  PROVE  e.amount \in Int /\ L!Signed(e) \in Int
  BY DEF L!Entry, L!Signed

\* The debits of an account are the outbound records of its transfers.
LEMMA DebitsAreOutRows ==
  ASSUME DocInv, OpeningKept, NEW a
  PROVE  LET f == [i \in DebitPlaces(a) |-> entries[i].amount]
             g == [row \in OutRows(a) |-> row.amount]
             h == [i \in DebitPlaces(a) |->
                     Row(Who(i), request[Who(i)].amount, OUTBOUND)]
         IN  Pairs(DebitPlaces(a), OutRows(a), f, g, h)
  <1> DEFINE S == DebitPlaces(a)
             T == OutRows(a)
             f == [i \in S |-> entries[i].amount]
             g == [row \in T |-> row.amount]
             h == [i \in S |-> Row(Who(i), request[Who(i)].amount, OUTBOUND)]
  <1>0. WorkInv /\ RecordInv /\ L!UniqueIds(entries)
    BY DEF DocInv, Inv, WorkInv, L!WellFormed
  <1>1. IsFiniteSet(S)
    BY PlacesApart, FS_Subset DEF DebitPlaces
  <1>2. \A i \in S : /\ entries[i].amount \in Int
                     /\ Who(i) \in TransferIds /\ entries[i].entry_id = <<Who(i), "DEBIT">>
                     /\ i \in DOMAIN entries /\ entries[i].account_id = a
    BY PlacesApart, EntryNumbers DEF DebitPlaces, Who
  <1>3. \A i \in S : /\ status[Who(i)] = "Completed"
                     /\ entries[i].amount = request[Who(i)].amount
                     /\ request[Who(i)].source = a
    BY <1>0, <1>2 DEF WorkInv, DebitsCompleted
  <1>4. \A row \in T : \E t \in TransferIds :
          /\ status[t] = "Completed" /\ request[t].source = a
          /\ row = Row(t, request[t].amount, OUTBOUND)
    BY DEF OutRows, settlement_expectations, Row, OUTBOUND, RETURN
  <1>5. \A t \in TransferIds : status[t] = "Completed" /\ request[t].source = a =>
          Row(t, request[t].amount, OUTBOUND) \in T
    BY DEF OutRows, settlement_expectations, Row
  <1>6. \A row \in T : row.amount \in Int
    <2> SUFFICES ASSUME NEW row \in T PROVE row.amount \in Int
      OBVIOUS
    <2>1. PICK t \in TransferIds : /\ status[t] = "Completed"
                                   /\ row = Row(t, request[t].amount, OUTBOUND)
      BY <1>4
    <2> QED BY <1>0, <2>1, RequestParts DEF Row
  <1>7. \A i \in S : h[i] \in T
    BY <1>2, <1>3, <1>5
  <1>8. \A i, j \in S : h[i] = h[j] => i = j
    <2> SUFFICES ASSUME NEW i \in S, NEW j \in S, h[i] = h[j] PROVE i = j
      OBVIOUS
    <2>1. Who(i) = Who(j)
      BY DEF Row
    <2> QED BY <1>0, <1>2, <2>1 DEF L!UniqueIds
  <1>9. \A row \in T : \E i \in S : h[i] = row
    <2> SUFFICES ASSUME NEW row \in T PROVE \E i \in S : h[i] = row
      OBVIOUS
    <2>1. PICK t \in TransferIds : /\ status[t] = "Completed" /\ request[t].source = a
                                   /\ row = Row(t, request[t].amount, OUTBOUND)
      BY <1>4
    <2>2. PICK i \in DOMAIN entries : entries[i].entry_id = <<t, "DEBIT">>
      BY <1>0, <2>1 DEF RecordInv, CompletionsRecorded
    <2>3. entries[i].account_id = a /\ Who(i) = t
      BY <1>0, <2>1, <2>2 DEF WorkInv, DebitsCompleted, Who
    <2>4. i \in S
      BY <2>2, <2>3 DEF DebitPlaces
    <2> QED BY <2>1, <2>3, <2>4
  <1>10. \A i \in S : f[i] = g[h[i]]
    BY <1>3, <1>7 DEF Row
  <1>11. f \in [S -> Int] /\ g \in [T -> Int] /\ h \in [S -> T]
    BY <1>2, <1>6, <1>7
  <1> HIDE DEF f, g, h, S, T
  <1>12. Pairs(S, T, f, g, h)
    BY <1>1, <1>8, <1>9, <1>10, <1>11 DEF Pairs
  <1> QED BY <1>12 DEF f, g, h, S, T

\* The credits to an account are the records of its transfers' returns.
LEMMA CreditsAreBackRows ==
  ASSUME DocInv, OpeningKept, NEW a
  PROVE  LET f == [i \in CreditPlaces(a) |-> entries[i].amount]
             g == [row \in BackRows(a) |-> row.amount]
             h == [i \in CreditPlaces(a) |->
                     Row(Who(i), returnRequest[Who(i)].amount, RETURN)]
         IN  Pairs(CreditPlaces(a), BackRows(a), f, g, h)
  <1> DEFINE S == CreditPlaces(a)
             T == BackRows(a)
             f == [i \in S |-> entries[i].amount]
             g == [row \in T |-> row.amount]
             h == [i \in S |-> Row(Who(i), returnRequest[Who(i)].amount, RETURN)]
             source(r) == request[returnRequest[r].original].source
  <1>0. WorkInv /\ RecordInv /\ L!UniqueIds(entries)
    BY DEF DocInv, Inv, WorkInv, L!WellFormed
  <1>1. IsFiniteSet(S)
    BY PlacesApart, FS_Subset DEF CreditPlaces
  <1>2. \A i \in S : /\ entries[i].amount \in Int
                     /\ Who(i) \in ReturnIds /\ entries[i].entry_id = <<Who(i), "CREDIT">>
                     /\ i \in DOMAIN entries /\ entries[i].account_id = a
    BY PlacesApart, EntryNumbers DEF CreditPlaces, Who
  <1>3. \A i \in S : /\ returnStatus[Who(i)] = "Completed"
                     /\ entries[i].amount = returnRequest[Who(i)].amount
                     /\ source(Who(i)) = a
    BY <1>0, <1>2 DEF WorkInv, CreditsCompleted
  <1>4. \A row \in T : \E r \in ReturnIds :
          /\ returnStatus[r] = "Completed" /\ source(r) = a
          /\ row = Row(r, returnRequest[r].amount, RETURN)
    BY DEF BackRows, settlement_expectations, Row, OUTBOUND, RETURN
  <1>5. \A r \in ReturnIds : returnStatus[r] = "Completed" /\ source(r) = a =>
          Row(r, returnRequest[r].amount, RETURN) \in T
    BY DEF BackRows, settlement_expectations, Row
  <1>6. \A row \in T : row.amount \in Int
    <2> SUFFICES ASSUME NEW row \in T PROVE row.amount \in Int
      OBVIOUS
    <2>1. PICK r \in ReturnIds : /\ returnStatus[r] = "Completed"
                                 /\ row = Row(r, returnRequest[r].amount, RETURN)
      BY <1>4
    <2> QED BY <1>0, <2>1, ReturnRequestParts DEF Row
  <1> HIDE DEF source
  <1>7. \A i \in S : h[i] \in T
    BY <1>2, <1>3, <1>5
  <1>8. \A i, j \in S : h[i] = h[j] => i = j
    <2> SUFFICES ASSUME NEW i \in S, NEW j \in S, h[i] = h[j] PROVE i = j
      OBVIOUS
    <2>1. Who(i) = Who(j)
      BY DEF Row
    <2> QED BY <1>0, <1>2, <2>1 DEF L!UniqueIds
  <1>9. \A row \in T : \E i \in S : h[i] = row
    <2> SUFFICES ASSUME NEW row \in T PROVE \E i \in S : h[i] = row
      OBVIOUS
    <2>1. PICK r \in ReturnIds : /\ returnStatus[r] = "Completed" /\ source(r) = a
                                 /\ row = Row(r, returnRequest[r].amount, RETURN)
      BY <1>4
    <2>2. PICK i \in DOMAIN entries : entries[i].entry_id = <<r, "CREDIT">>
      BY <1>0, <2>1 DEF RecordInv, CompletionsRecorded
    <2>3. entries[i].account_id = a /\ Who(i) = r
      BY <1>0, <2>1, <2>2 DEF WorkInv, CreditsCompleted, Who, source
    <2>4. i \in S
      BY <2>2, <2>3 DEF CreditPlaces
    <2> QED BY <2>1, <2>3, <2>4
  <1>10. \A i \in S : f[i] = g[h[i]]
    BY <1>3, <1>7 DEF Row
  <1>11. f \in [S -> Int] /\ g \in [T -> Int] /\ h \in [S -> T]
    BY <1>2, <1>6, <1>7
  <1> HIDE DEF f, g, h, S, T
  <1>12. Pairs(S, T, f, g, h)
    BY <1>1, <1>8, <1>9, <1>10, <1>11 DEF Pairs
  <1> QED BY <1>12 DEF f, g, h, S, T

LEMMA SumOfLedger ==
  ASSUME NEW f
  PROVE  L!SumFunction(f) = SumFunction(f)
  BY DEF SumFunction, SumFunctionOnSet, FoldFunctionOnSet, MapThenFoldSet,
         L!SumFunction, L!SumFunctionOnSet, L!FoldFunctionOnSet, L!MapThenFoldSet

\* A balance is the opening balance less the debits plus the credits.
LEMMA BalanceSplits ==
  ASSUME DocInv, OpeningKept, NEW a
  PROVE  L!AccountBalance(entries, a)
           = L!AccountBalance(OpeningEntries, a)
             - SumFunction([i \in DebitPlaces(a) |-> entries[i].amount])
             + SumFunction([i \in CreditPlaces(a) |-> entries[i].amount])
  <1> DEFINE A == OpeningPlaces(a)
             B == DebitPlaces(a)
             C == CreditPlaces(a)
             signed(i) == L!Signed(entries[i])
             f == [i \in PlacesOf(a) |-> signed(i)]
             fa == [i \in A |-> L!Signed(OpeningEntries[i])]
             fb == [i \in B |-> signed(i)]
             fc == [i \in C |-> signed(i)]
             fbc == [i \in B \cup C |-> signed(i)]
             b == [i \in B |-> entries[i].amount]
             c == [i \in C |-> entries[i].amount]
  <1>1. /\ PlacesOf(a) = A \cup (B \cup C) /\ A \cap (B \cup C) = {} /\ B \cap C = {}
        /\ \A i \in A : entries[i] = OpeningEntries[i]
    BY PlacesApart
  <1>2. IsFiniteSet(A) /\ IsFiniteSet(B) /\ IsFiniteSet(C) /\ IsFiniteSet(B \cup C)
    <2>1. IsFiniteSet(PlacesOf(a))
      BY PlacesApart, FS_Subset DEF PlacesOf
    <2> HIDE DEF A, B, C
    <2> QED BY <1>1, <2>1, FS_Subset
  <1>3. \A i \in PlacesOf(a) : signed(i) \in Int /\ entries[i].amount \in Int
    <2> SUFFICES ASSUME NEW i \in PlacesOf(a)
                 PROVE  signed(i) \in Int /\ entries[i].amount \in Int
      OBVIOUS
    <2>1. entries[i] \in L!Entry
      BY PlacesApart DEF PlacesOf
    <2> QED BY <2>1, EntryNumbers
  <1>4. WorkInv
    BY DEF DocInv, Inv
  <1>5. \A i \in B : signed(i) = 0 - entries[i].amount
    <2> SUFFICES ASSUME NEW i \in B PROVE signed(i) = 0 - entries[i].amount
      OBVIOUS
    <2>1. PICK t \in TransferIds : entries[i].entry_id = <<t, "DEBIT">>
      BY DEF DebitPlaces
    <2>2. entries[i].entry_type = L!DEBIT
      BY <1>4, <2>1 DEF WorkInv, DebitsCompleted, DebitPlaces
    <2> QED BY <2>2 DEF L!Signed, L!DEBIT, L!CREDIT
  <1>6. \A i \in C : signed(i) = entries[i].amount
    <2> SUFFICES ASSUME NEW i \in C PROVE signed(i) = entries[i].amount
      OBVIOUS
    <2>1. PICK r \in ReturnIds : entries[i].entry_id = <<r, "CREDIT">>
      BY DEF CreditPlaces
    <2>2. entries[i].entry_type = L!CREDIT
      BY <1>4, <2>1 DEF WorkInv, CreditsCompleted, CreditPlaces
    <2> QED BY <2>2 DEF L!Signed, L!DEBIT, L!CREDIT
  <1> HIDE DEF A, B, C
  <1>7. /\ f \in [A \cup (B \cup C) -> Int] /\ fa \in [A -> Int] /\ fb \in [B -> Int]
        /\ fc \in [C -> Int] /\ fbc \in [B \cup C -> Int] /\ b \in [B -> Int]
        /\ \A i \in A : f[i] = fa[i]
        /\ \A i \in B \cup C : f[i] = fbc[i]
        /\ \A i \in B : fbc[i] = fb[i]
        /\ \A i \in C : fbc[i] = fc[i]
        /\ \A i \in B : fb[i] = 0 - b[i]
    BY <1>1, <1>3, <1>5
  <1>8. fc = c
    BY <1>6
  <1>9. L!AccountBalance(entries, a) = SumFunction(f)
    BY SumOfLedger DEF L!AccountBalance, PlacesOf
  <1>10. L!AccountBalance(OpeningEntries, a) = SumFunction(fa)
    BY SumOfLedger DEF L!AccountBalance, OpeningPlaces, A
  <1> HIDE DEF f, fa, fb, fc, fbc, b, c, signed
  <1>11. /\ SumFunction(f) = SumFunction(fa) + SumFunction(fbc)
         /\ SumFunction(fa) \in Int
    <2>1. Splits(f, fa, fbc)
      BY <1>1, <1>2, <1>7 DEF Splits
    <2> QED BY ONLY <2>1, SumSplits
  <1>12. /\ SumFunction(fbc) = SumFunction(fb) + SumFunction(fc)
         /\ SumFunction(fc) \in Int
    <2>1. Splits(fbc, fb, fc)
      BY <1>1, <1>2, <1>7 DEF Splits
    <2> QED BY ONLY <2>1, SumSplits
  <1>13. SumFunction(fb) = 0 - SumFunction(b) /\ SumFunction(b) \in Int
    BY <1>2, <1>7, SumOpposite
  <1>14. L!AccountBalance(entries, a)
           = L!AccountBalance(OpeningEntries, a) - SumFunction(b) + SumFunction(c)
    BY <1>8, <1>9, <1>10, <1>11, <1>12, <1>13
  <1> QED BY <1>14 DEF B, C, b, c

\* In the documented use the settlement expectations explain the ledger at every
\* moment: a balance is the opening balance less the outbound records of the account's
\* transfers plus the records of their returns.
THEOREM ExpectationsExplain ==
  ASSUME DocumentedUse
  PROVE  Spec => []ExpectationsExplainBalances
  <1>1. ASSUME DocInv, OpeningKept PROVE ExpectationsExplainBalances
    <2> SUFFICES
          ASSUME NEW a \in AccountIds
          PROVE  LET out == {row \in settlement_expectations :
                               /\ row.direction = OUTBOUND
                               /\ request[row.payment_id].source = a}
                     back == {row \in settlement_expectations :
                                /\ row.direction = RETURN
                                /\ request[returnRequest[row.payment_id].original].source = a}
                 IN  L!AccountBalance(entries, a) =
                       L!AccountBalance(OpeningEntries, a)
                       - InternalTotal(out, OUTBOUND) + InternalTotal(back, RETURN)
      BY DEF ExpectationsExplainBalances
    <2> DEFINE out == {row \in settlement_expectations :
                               /\ row.direction = OUTBOUND
                               /\ request[row.payment_id].source = a}
               back == {row \in settlement_expectations :
                                /\ row.direction = RETURN
                                /\ request[returnRequest[row.payment_id].original].source = a}
    <2>1. InternalTotal(out, OUTBOUND) = SumFunction([row \in OutRows(a) |-> row.amount])
      <3>1. {row \in out : row.direction = OUTBOUND} = OutRows(a)
        BY DEF OutRows
      <3> HIDE DEF out
      <3> QED BY <3>1 DEF InternalTotal
    <2>2. InternalTotal(back, RETURN) = SumFunction([row \in BackRows(a) |-> row.amount])
      <3>1. {row \in back : row.direction = RETURN} = BackRows(a)
        BY DEF BackRows
      <3> HIDE DEF back
      <3> QED BY <3>1 DEF InternalTotal
    <2>3. SumFunction([i \in DebitPlaces(a) |-> entries[i].amount])
            = SumFunction([row \in OutRows(a) |-> row.amount])
      <3> DEFINE f == [i \in DebitPlaces(a) |-> entries[i].amount]
                 g == [row \in OutRows(a) |-> row.amount]
                 h == [i \in DebitPlaces(a) |-> Row(Who(i), request[Who(i)].amount, OUTBOUND)]
      <3>1. Pairs(DebitPlaces(a), OutRows(a), f, g, h)
        BY <1>1, DebitsAreOutRows
      <3>2. SumFunction(f) = SumFunction(g)
        <4> HIDE DEF f, g, h
        <4> QED BY <3>1, SumPairs
      <3> QED BY <3>2
    <2>4. SumFunction([i \in CreditPlaces(a) |-> entries[i].amount])
            = SumFunction([row \in BackRows(a) |-> row.amount])
      <3> DEFINE f == [i \in CreditPlaces(a) |-> entries[i].amount]
                 g == [row \in BackRows(a) |-> row.amount]
                 h == [i \in CreditPlaces(a) |-> Row(Who(i), returnRequest[Who(i)].amount, RETURN)]
      <3>1. Pairs(CreditPlaces(a), BackRows(a), f, g, h)
        BY <1>1, CreditsAreBackRows
      <3>2. SumFunction(f) = SumFunction(g)
        <4> HIDE DEF f, g, h
        <4> QED BY <3>1, SumPairs
      <3> QED BY <3>2
    <2> HIDE DEF out, back
    <2> QED BY <1>1, <2>1, <2>2, <2>3, <2>4, BalanceSplits DEF out, back
  <1> QED BY <1>1, DocumentedInvariant, OpeningStays, PTL
-----------------------------------------------------------------------------
(***************************************************************************)
(* Reports.  Their rows are gathered from the records by folds over sets,  *)
(* in an order that does not matter: what counts is which rows are under   *)
(* an identifier, and that they are under it together.                     *)
(***************************************************************************)
WorkflowIds == TransferIds \cup ReturnIds

AnyRow == [payment_id : WorkflowIds, amount : Int, direction : {OUTBOUND, RETURN}]

\* h[s] is what the rows of the elements of s make, gathered one after the other.
Collects(S, rows, h) ==
  /\ IsFiniteSet(S) /\ rows \in [S -> Seq(AnyRow)]
  /\ h \in [SUBSET S -> Seq(AnyRow)]
  /\ h[{}] = <<>>
  /\ \A s \in SUBSET S : s # {} => h[s] = h[s \ {Chosen(s)}] \o rows[Chosen(s)]

\* The recursion that FoldSet evaluates when it gathers.
CollectsAll(S, rows, h) ==
  h = [s \in SUBSET S |-> IF s = {} THEN <<>>
                          ELSE h[s \ {Chosen(s)}] \o rows[Chosen(s)]]

LEMMA SomeCollects ==
  ASSUME NEW S, IsFiniteSet(S), NEW rows \in [S -> Seq(AnyRow)]
  PROVE  \E h \in [SUBSET S -> Seq(AnyRow)] : CollectsAll(S, rows, h)
  <1>1. PICK V, base : V = Seq(AnyRow) /\ base = <<>>
    OBVIOUS
  <1> DEFINE step == [x \in S |-> [v \in V |-> v \o rows[x]]]
  <1>2. \A x \in S : \A v \in V : v \o rows[x] \in V
    BY <1>1, ConcatProperties
  <1>3. step \in [S -> [V -> V]] /\ \A x \in S, v \in V : step[x][v] = v \o rows[x]
    BY <1>2
  <1>4. base \in V
    BY <1>1, EmptySeq
  <1> DEFINE pick == [s \in SUBSET S |-> Chosen(s)]
  <1>p. Picks(S, pick) /\ \A s \in SUBSET S : pick[s] = Chosen(s)
    BY DEF Picks, Chosen
  <1> HIDE DEF step, pick
  <1>5. PICK h \in [SUBSET S -> V] : FoldsTo(S, pick, base, step, h)
    BY <1>3, <1>4, <1>p, SomeFold
  <1>6. ASSUME NEW s \in SUBSET S
        PROVE  h[s] = IF s = {} THEN <<>> ELSE h[s \ {Chosen(s)}] \o rows[Chosen(s)]
    <2>1. h[s] = IF s = {} THEN base ELSE step[Chosen(s)][h[s \ {Chosen(s)}]]
      BY <1>5, <1>p DEF FoldsTo
    <2>2. s # {} => Chosen(s) \in S /\ h[s \ {Chosen(s)}] \in V
      BY <1>5 DEF Chosen
    <2> QED BY <1>1, <1>3, <2>1, <2>2
  <1>7. CollectsAll(S, rows, h)
    BY <1>5, <1>6 DEF CollectsAll
  <1> QED BY <1>1, <1>5, <1>7

\* What solves the recursion has sequences of rows as its values.
LEMMA CollectsAllCollects ==
  ASSUME NEW S, IsFiniteSet(S), NEW rows \in [S -> Seq(AnyRow)], NEW h,
         CollectsAll(S, rows, h)
  PROVE  Collects(S, rows, h)
  <1>1. /\ DOMAIN h = SUBSET S
        /\ \A s \in SUBSET S : h[s] = IF s = {} THEN <<>>
                                      ELSE h[s \ {Chosen(s)}] \o rows[Chosen(s)]
    BY DEF CollectsAll
  <1> DEFINE Bad == {n \in Nat : \E s \in SUBSET S : /\ Cardinality(s) = n
                                                     /\ h[s] \notin Seq(AnyRow)}
  <1>2. Bad = {}
    <2> SUFFICES ASSUME Bad # {} PROVE FALSE
      OBVIOUS
    <2>1. PICK n \in Bad : \A k \in Bad : n <= k
      BY LeastNatural
    <2>2. PICK s \in SUBSET S : Cardinality(s) = n /\ h[s] \notin Seq(AnyRow)
      BY <2>1
    <2>3. s # {}
      BY <1>1, <2>2, EmptySeq
    <2>4. Chosen(s) \in s
      BY <2>3 DEF Chosen
    <2>5. /\ s \ {Chosen(s)} \in SUBSET S /\ Cardinality(s \ {Chosen(s)}) \in Nat
          /\ Cardinality(s \ {Chosen(s)}) = n - 1 /\ n \in Nat
      BY <2>2, <2>4, OneLess
    <2>6. Cardinality(s \ {Chosen(s)}) \notin Bad
      <3>1. ~(n <= n - 1)
        BY <2>5
      <3> QED BY <2>1, <2>5, <3>1
    <2>7. h[s \ {Chosen(s)}] \in Seq(AnyRow)
      BY <2>5, <2>6
    <2>8. h[s] = h[s \ {Chosen(s)}] \o rows[Chosen(s)] /\ rows[Chosen(s)] \in Seq(AnyRow)
      BY <1>1, <2>3, <2>4
    <2> QED BY <2>2, <2>7, <2>8, ConcatProperties
  <1>3. ASSUME NEW s \in SUBSET S PROVE h[s] \in Seq(AnyRow)
    <2>1. Cardinality(s) \in Nat
      BY FS_Subset, FS_CardinalityType
    <2> QED BY <1>2, <2>1
  <1>4. h \in [SUBSET S -> Seq(AnyRow)]
    BY <1>1, <1>3 DEF CollectsAll
  <1>5. h[{}] = <<>>
    BY <1>1
  <1> QED BY <1>1, <1>4, <1>5 DEF Collects

\* The whole less what was gathered last, and that at its end.
LEMMA LastCollected ==
  ASSUME NEW S, NEW rows, NEW h, Collects(S, rows, h), NEW s \in SUBSET S, s # {}
  PROVE  /\ Chosen(s) \in s /\ s \ {Chosen(s)} \in SUBSET S
         /\ h[s \ {Chosen(s)}] \in Seq(AnyRow) /\ rows[Chosen(s)] \in Seq(AnyRow)
         /\ h[s] = h[s \ {Chosen(s)}] \o rows[Chosen(s)]
         /\ Cardinality(s) \in Nat
         /\ Cardinality(s \ {Chosen(s)}) = Cardinality(s) - 1
         /\ Cardinality(s \ {Chosen(s)}) \in Nat
  <1>1. Chosen(s) \in s
    BY DEF Chosen
  <1>2. IsFiniteSet(S)
    BY DEF Collects
  <1>3. /\ s \ {Chosen(s)} \in SUBSET S /\ Cardinality(s) \in Nat
        /\ Cardinality(s \ {Chosen(s)}) = Cardinality(s) - 1
        /\ Cardinality(s \ {Chosen(s)}) \in Nat
    BY <1>1, <1>2, OneLess
  <1> QED BY <1>1, <1>3 DEF Collects

\* The elements of v that stem from some element of s.
FromRows(v, rows, s) == \A i \in DOMAIN v : \E x \in s : \E k \in DOMAIN rows[x] :
                          v[i] = rows[x][k]

HoldsRows(v, rows, s) == \A x \in s : \A k \in DOMAIN rows[x] : \E i \in DOMAIN v :
                           v[i] = rows[x][k]

\* Every row that is gathered is in the whole, and nothing else.
LEMMA CollectedHolds ==
  ASSUME NEW S, NEW rows, NEW h, Collects(S, rows, h), NEW s, s \in SUBSET S
  PROVE  HoldsRows(h[s], rows, s) /\ FromRows(h[s], rows, s)
  <1> DEFINE Good(u) == HoldsRows(h[u], rows, u) /\ FromRows(h[u], rows, u)
             Bad == {n \in Nat : \E u \in SUBSET S : Cardinality(u) = n /\ ~Good(u)}
  <1>0. Cardinality(s) \in Nat
    BY FS_Subset, FS_CardinalityType DEF Collects
  <1>1. SUFFICES ASSUME Bad # {} PROVE FALSE
    BY <1>0
  <1>2. PICK n \in Bad : \A m \in Bad : n <= m
    BY <1>1, LeastNatural
  <1>3. PICK u \in SUBSET S : Cardinality(u) = n /\ ~Good(u)
    BY <1>2
  <1>4. u # {}
    <2> SUFFICES ASSUME u = {} PROVE Good(u)
      BY <1>3
    <2>1. h[u] = <<>>
      BY DEF Collects
    <2> QED BY <2>1 DEF HoldsRows, FromRows
  <1>5. PICK c, v, r, t : c = Chosen(u) /\ v = h[u \ {c}] /\ r = rows[c] /\ t = h[u]
    OBVIOUS
  <1>6. /\ c \in u /\ u \ {c} \in SUBSET S
        /\ v \in Seq(AnyRow) /\ r \in Seq(AnyRow) /\ t = v \o r
        /\ Cardinality(u \ {c}) = n - 1 /\ Cardinality(u \ {c}) \in Nat /\ n \in Nat
    <2>1. /\ Chosen(u) \in u /\ u \ {Chosen(u)} \in SUBSET S
          /\ h[u \ {Chosen(u)}] \in Seq(AnyRow) /\ rows[Chosen(u)] \in Seq(AnyRow)
          /\ h[u] = h[u \ {Chosen(u)}] \o rows[Chosen(u)]
          /\ Cardinality(u) \in Nat
          /\ Cardinality(u \ {Chosen(u)}) = Cardinality(u) - 1
          /\ Cardinality(u \ {Chosen(u)}) \in Nat
      BY <1>4, LastCollected
    <2>2. Cardinality(u) = n
      BY <1>3
    <2> QED BY <1>5, <2>1, <2>2
  <1>7. /\ DOMAIN t = 1..(Len(v) + Len(r)) /\ Len(v) \in Nat /\ Len(r) \in Nat
        /\ DOMAIN v = 1..Len(v) /\ DOMAIN r = 1..Len(r)
        /\ \A i \in 1..Len(v) : t[i] = v[i]
        /\ \A i \in 1..Len(r) : t[Len(v) + i] = r[i]
    BY <1>6, Joined
  <1>8. Good(u \ {c})
    <2>1. ~(n <= n - 1)
      BY <1>6
    <2>2. Cardinality(u \ {c}) \notin Bad
      BY <1>2, <1>6, <2>1
    <2> QED BY <1>6, <2>2
  <1>9. ASSUME NEW x \in u, NEW k \in DOMAIN rows[x]
        PROVE  \E i \in DOMAIN t : t[i] = rows[x][k]
    <2>1. CASE x = c
      <3>1. k \in 1..Len(r) /\ Len(v) + k \in DOMAIN t /\ t[Len(v) + k] = r[k]
        <4>1. k \in DOMAIN r
          BY <1>5, <2>1
        <4> QED BY <1>7, <4>1
      <3> QED BY <1>5, <2>1, <3>1
    <2>2. CASE x # c
      <3>1. PICK i \in DOMAIN v : v[i] = rows[x][k]
        BY <1>5, <1>8, <2>2 DEF HoldsRows
      <3>2. i \in DOMAIN t /\ t[i] = v[i]
        BY <1>7
      <3> QED BY <3>1, <3>2
    <2> QED BY <2>1, <2>2
  <1>10. ASSUME NEW i \in DOMAIN t
         PROVE  \E x \in u : \E k \in DOMAIN rows[x] : t[i] = rows[x][k]
    <2>1. CASE i \in 1..Len(v)
      <3>1. PICK x \in u \ {c} : \E k \in DOMAIN rows[x] : v[i] = rows[x][k]
        <4>1. i \in DOMAIN v
          BY <1>7, <2>1
        <4>2. FromRows(v, rows, u \ {c})
          BY <1>5, <1>8
        <4> QED BY ONLY <4>1, <4>2 DEF FromRows
      <3> QED BY <1>7, <2>1, <3>1
    <2>2. CASE i \notin 1..Len(v)
      <3>1. i - Len(v) \in 1..Len(r) /\ Len(v) + (i - Len(v)) = i
        BY <1>7, <2>2
      <3>2. t[i] = r[i - Len(v)]
        BY <1>7, <3>1
      <3> QED BY <1>5, <1>6, <1>7, <3>1, <3>2
    <2> QED BY <2>1, <2>2
  <1>11. Good(u)
    BY <1>5, <1>9, <1>10 DEF HoldsRows, FromRows
  <1> QED BY <1>3, <1>11

\* The places of the rows under an identifier.
PlacesIn(v, id) == {i \in DOMAIN v : v[i].payment_id = id}

\* The rows of b are together in v, and the only ones under the identifier.
Block(v, id, b) ==
  \E n \in Nat : /\ PlacesIn(v, id) = (n + 1)..(n + Len(b))
                 /\ \A j \in 1..Len(b) : v[n + j] = b[j]

LEMMA BlockAlone ==
  ASSUME NEW b \in Seq(AnyRow), NEW id, \A j \in DOMAIN b : b[j].payment_id = id
  PROVE  Block(b, id, b)
  <1>1. DOMAIN b = 1..Len(b) /\ Len(b) \in Nat
    BY LenProperties
  <1>2. PlacesIn(b, id) = (0 + 1)..(0 + Len(b))
    BY <1>1 DEF PlacesIn
  <1>3. \A j \in 1..Len(b) : b[0 + j] = b[j]
    BY <1>1
  <1> QED BY <1>2, <1>3 DEF Block

LEMMA BlockStays ==
  ASSUME NEW v \in Seq(AnyRow), NEW r \in Seq(AnyRow), NEW t, t = v \o r,
         NEW id, NEW b \in Seq(AnyRow), Block(v, id, b), PlacesIn(r, id) = {}
  PROVE  Block(t, id, b)
  <1>1. PICK n \in Nat : /\ PlacesIn(v, id) = (n + 1)..(n + Len(b))
                         /\ \A j \in 1..Len(b) : v[n + j] = b[j]
    BY DEF Block
  <1>2. /\ DOMAIN t = 1..(Len(v) + Len(r)) /\ Len(v) \in Nat /\ Len(r) \in Nat
        /\ DOMAIN v = 1..Len(v) /\ DOMAIN r = 1..Len(r)
        /\ \A i \in 1..Len(v) : t[i] = v[i]
        /\ \A i \in 1..Len(r) : t[Len(v) + i] = r[i]
    BY Joined
  <1>3. ASSUME NEW i \in DOMAIN t PROVE t[i].payment_id = id <=> i \in PlacesIn(v, id)
    <2>1. CASE i \in 1..Len(v)
      BY <1>2, <2>1 DEF PlacesIn
    <2>2. CASE i \notin 1..Len(v)
      <3>1. i - Len(v) \in 1..Len(r) /\ Len(v) + (i - Len(v)) = i
        BY <1>2, <2>2
      <3>2. t[i] = r[i - Len(v)]
        BY <1>2, <3>1
      <3> QED BY <1>2, <2>2, <3>1, <3>2 DEF PlacesIn
    <2> QED BY <2>1, <2>2
  <1>4. PlacesIn(t, id) = PlacesIn(v, id)
    <2>1. PlacesIn(v, id) \subseteq DOMAIN t
      BY <1>2 DEF PlacesIn
    <2> QED BY <1>3, <2>1 DEF PlacesIn
  <1>5. ASSUME NEW j \in 1..Len(b) PROVE t[n + j] = b[j]
    <2>1. n + j \in PlacesIn(v, id)
      BY <1>1, LenProperties
    <2> QED BY <1>1, <1>2, <2>1 DEF PlacesIn
  <1> QED BY <1>1, <1>4, <1>5 DEF Block

LEMMA BlockMoves ==
  ASSUME NEW v \in Seq(AnyRow), NEW r \in Seq(AnyRow), NEW t, t = v \o r,
         NEW id, NEW b \in Seq(AnyRow), Block(r, id, b), PlacesIn(v, id) = {}
  PROVE  Block(t, id, b)
  <1>1. PICK n \in Nat : /\ PlacesIn(r, id) = (n + 1)..(n + Len(b))
                         /\ \A j \in 1..Len(b) : r[n + j] = b[j]
    BY DEF Block
  <1>2. /\ DOMAIN t = 1..(Len(v) + Len(r)) /\ Len(v) \in Nat /\ Len(r) \in Nat
        /\ DOMAIN v = 1..Len(v) /\ DOMAIN r = 1..Len(r)
        /\ \A i \in 1..Len(v) : t[i] = v[i]
        /\ \A i \in 1..Len(r) : t[Len(v) + i] = r[i]
    BY Joined
  <1>3. Len(b) \in Nat
    BY LenProperties
  <1>4. ASSUME NEW i \in PlacesIn(t, id)
        PROVE  i \in (Len(v) + n + 1)..(Len(v) + n + Len(b))
    <2>1. i \notin 1..Len(v)
      BY <1>2 DEF PlacesIn
    <2>2. i - Len(v) \in 1..Len(r) /\ Len(v) + (i - Len(v)) = i
      BY <1>2, <2>1 DEF PlacesIn
    <2>3. t[i] = r[i - Len(v)]
      BY <1>2, <2>2
    <2>4. i - Len(v) \in PlacesIn(r, id)
      BY <1>2, <2>2, <2>3 DEF PlacesIn
    <2> QED BY <1>1, <1>2, <1>3, <2>2, <2>4
  <1>5. ASSUME NEW i \in (Len(v) + n + 1)..(Len(v) + n + Len(b))
        PROVE  i \in PlacesIn(t, id)
    <2>1. i - Len(v) \in PlacesIn(r, id) /\ Len(v) + (i - Len(v)) = i
      BY <1>1, <1>2, <1>3
    <2>2. i - Len(v) \in 1..Len(r) /\ r[i - Len(v)].payment_id = id
      BY <1>2, <2>1 DEF PlacesIn
    <2>3. t[i] = r[i - Len(v)]
      BY <1>2, <2>1, <2>2
    <2>4. i \in DOMAIN t
      BY <1>2, <2>1, <2>2
    <2> QED BY <2>2, <2>3, <2>4 DEF PlacesIn
  <1>6. ASSUME NEW j \in 1..Len(b) PROVE t[Len(v) + n + j] = b[j]
    <2>1. n + j \in PlacesIn(r, id)
      BY <1>1, <1>3
    <2>2. n + j \in 1..Len(r)
      BY <1>2, <2>1 DEF PlacesIn
    <2>3. t[Len(v) + (n + j)] = r[n + j]
      BY <1>2, <2>2
    <2>4. Len(v) + (n + j) = Len(v) + n + j
      BY <1>2
    <2> QED BY <1>1, <2>3, <2>4
  <1>7. Len(v) + n \in Nat /\ PlacesIn(t, id) = (Len(v) + n + 1)..(Len(v) + n + Len(b))
    <2>1. Len(v) + n \in Nat
      BY <1>2
    <2>2. PlacesIn(t, id) = (Len(v) + n + 1)..(Len(v) + n + Len(b))
      BY ONLY <1>4, <1>5
    <2> QED BY <2>1, <2>2
  <1> QED BY <1>6, <1>7 DEF Block

\* The rows of an element are under an identifier of its own.
Keyed(S, rows, key) ==
  /\ \A x, y \in S : key[x] = key[y] => x = y
  /\ \A x \in S : \A k \in DOMAIN rows[x] : rows[x][k].payment_id = key[x]

LEMMA NothingElse ==
  ASSUME NEW S, NEW rows, NEW key, Keyed(S, rows, key), NEW s, s \in SUBSET S,
         NEW v, FromRows(v, rows, s), NEW id, \A x \in s : key[x] # id
  PROVE  PlacesIn(v, id) = {}
  BY DEF Keyed, FromRows, PlacesIn

\* What is gathered for an element is together, and nothing else is with it.
LEMMA CollectedBlocks ==
  ASSUME NEW S, NEW rows, NEW h, Collects(S, rows, h), NEW key, Keyed(S, rows, key),
         NEW s, s \in SUBSET S, NEW x, x \in s
  PROVE  Block(h[s], key[x], rows[x])
  <1> DEFINE Good(u) == Block(h[u], key[x], rows[x])
             Bad == {n \in Nat : \E u \in SUBSET S : /\ Cardinality(u) = n
                                                     /\ x \in u /\ ~Good(u)}
  <1>0. Cardinality(s) \in Nat
    BY FS_Subset, FS_CardinalityType DEF Collects
  <1>1. SUFFICES ASSUME Bad # {} PROVE FALSE
    BY <1>0
  <1>2. PICK n \in Bad : \A m \in Bad : n <= m
    BY <1>1, LeastNatural
  <1>3. PICK u \in SUBSET S : Cardinality(u) = n /\ x \in u /\ ~Good(u)
    BY <1>2
  <1>4. /\ Chosen(u) \in u /\ u \ {Chosen(u)} \in SUBSET S
        /\ h[u \ {Chosen(u)}] \in Seq(AnyRow) /\ rows[Chosen(u)] \in Seq(AnyRow)
        /\ h[u] = h[u \ {Chosen(u)}] \o rows[Chosen(u)]
        /\ Cardinality(u) \in Nat
        /\ Cardinality(u \ {Chosen(u)}) = Cardinality(u) - 1
        /\ Cardinality(u \ {Chosen(u)}) \in Nat
    <2>1. u # {}
      BY <1>3
    <2> QED BY <2>1, LastCollected
  <1>5. PICK c, v, r, t : c = Chosen(u) /\ v = h[u \ {c}] /\ r = rows[c] /\ t = h[u]
    OBVIOUS
  <1>6. /\ c \in u /\ u \ {c} \in SUBSET S
        /\ v \in Seq(AnyRow) /\ r \in Seq(AnyRow) /\ t = v \o r
        /\ Cardinality(u \ {c}) = n - 1 /\ Cardinality(u \ {c}) \in Nat /\ n \in Nat
    BY <1>3, <1>4, <1>5
  <1>7. rows[x] \in Seq(AnyRow)
    BY DEF Collects
  <1>8. \A y, z \in S : key[y] = key[z] => y = z
    BY DEF Keyed
  <1>9. \A k \in DOMAIN r : r[k].payment_id = key[c]
    BY <1>5, <1>6 DEF Keyed
  <1>10. FromRows(v, rows, u \ {c})
    BY <1>5, <1>6, CollectedHolds
  <1>11. CASE x = c
    <2>1. \A y \in u \ {c} : key[y] # key[x]
      BY <1>6, <1>8, <1>11
    <2>2. PlacesIn(v, key[x]) = {}
      BY <1>6, <1>10, <2>1, NothingElse
    <2>3. Block(r, key[x], r)
      BY <1>6, <1>9, <1>11, BlockAlone
    <2>4. Block(t, key[x], r)
      BY ONLY <1>6, <2>2, <2>3, BlockMoves
    <2> QED BY <1>3, <1>5, <1>11, <2>4
  <1>12. CASE x # c
    <2>1. ~(n <= n - 1)
      BY <1>6
    <2>2. Cardinality(u \ {c}) \notin Bad
      BY <1>2, <1>6, <2>1
    <2>3. Block(v, key[x], rows[x])
      BY <1>3, <1>5, <1>6, <1>12, <2>2
    <2>4. key[c] # key[x]
      BY <1>3, <1>6, <1>8, <1>12
    <2>5. PlacesIn(r, key[x]) = {}
      BY <1>9, <2>4 DEF PlacesIn
    <2>6. Block(t, key[x], rows[x])
      BY ONLY <1>6, <1>7, <2>3, <2>5, BlockStays
    <2> QED BY <1>3, <1>5, <2>6
  <1> QED BY <1>11, <1>12
-----------------------------------------------------------------------------
(***************************************************************************)
(* What becomes of a record on its way, by names of one word.              *)
(***************************************************************************)
MATCHED == "Matched"
MISSING == "Missing externally"
DOUBLED == "Duplicate externally"
AMOUNT == "Amount mismatch"
DIRECTION == "Direction mismatch"
UNEXPECTED == "Unexpected externally"

LEMMA FateNames ==
  /\ Fate = {MATCHED, MISSING, DOUBLED, AMOUNT, DIRECTION}
  /\ MATCHED # MISSING /\ MATCHED # DOUBLED /\ MATCHED # AMOUNT /\ MATCHED # DIRECTION
  /\ MISSING # DOUBLED /\ MISSING # AMOUNT /\ MISSING # DIRECTION
  /\ DOUBLED # AMOUNT /\ DOUBLED # DIRECTION /\ AMOUNT # DIRECTION
  /\ UNEXPECTED # MATCHED
  <1>1. Fate = {MATCHED, MISSING, DOUBLED, AMOUNT, DIRECTION}
    BY Zenon DEF Fate, MATCHED, MISSING, DOUBLED, AMOUNT, DIRECTION
  <1>2. MATCHED # MISSING /\ MATCHED # DOUBLED /\ MATCHED # AMOUNT /\ MATCHED # DIRECTION
    BY Zenon DEF MATCHED, MISSING, DOUBLED, AMOUNT, DIRECTION
  <1>3. MISSING # DOUBLED /\ MISSING # AMOUNT /\ MISSING # DIRECTION
    BY Zenon DEF MATCHED, MISSING, DOUBLED, AMOUNT, DIRECTION
  <1>4. DOUBLED # AMOUNT /\ DOUBLED # DIRECTION /\ AMOUNT # DIRECTION /\ UNEXPECTED # MATCHED
    BY Zenon DEF MATCHED, MISSING, DOUBLED, AMOUNT, DIRECTION, UNEXPECTED
  <1> QED BY <1>1, <1>2, <1>3, <1>4

\* RowsFor, one fate at a time.
LEMMA RowsForEach ==
  ASSUME NEW row
  PROVE  /\ RowsFor(row, MATCHED) = <<row>>
         /\ RowsFor(row, MISSING) = <<>>
         /\ RowsFor(row, DOUBLED) = <<row, row>>
         /\ RowsFor(row, AMOUNT) = <<[row EXCEPT !.amount = @ + 1]>>
         /\ RowsFor(row, DIRECTION) = <<[row EXCEPT !.direction = Other(@)]>>
  <1>1. RowsFor(row, MATCHED) = <<row>>
    BY Zenon DEF RowsFor, MATCHED
  <1>2. RowsFor(row, MISSING) = <<>>
    BY Zenon DEF RowsFor, MISSING
  <1>3. RowsFor(row, DOUBLED) = <<row, row>>
    BY Zenon DEF RowsFor, DOUBLED
  <1>4. RowsFor(row, AMOUNT) = <<[row EXCEPT !.amount = @ + 1]>>
    BY Zenon DEF RowsFor, AMOUNT
  <1>5. RowsFor(row, DIRECTION) = <<[row EXCEPT !.direction = Other(@)]>>
    BY Zenon DEF RowsFor, DIRECTION
  <1> QED BY <1>1, <1>2, <1>3, <1>4, <1>5

\* What the report says of a record is rows under the record's identifier.
LEMMA RowsForTyped ==
  ASSUME NEW row \in AnyRow, NEW fate \in Fate
  PROVE  /\ RowsFor(row, fate) \in Seq(AnyRow)
         /\ \A k \in DOMAIN RowsFor(row, fate) :
              RowsFor(row, fate)[k].payment_id = row.payment_id
  <1> DEFINE Good(s) == /\ s \in Seq(AnyRow)
                        /\ \A k \in DOMAIN s : s[k].payment_id = row.payment_id
  <1>1. row.amount + 1 \in Int /\ Other(row.direction) \in {OUTBOUND, RETURN}
    BY DEF AnyRow, Other
  <1>2. /\ [row EXCEPT !.amount = @ + 1] \in AnyRow
        /\ [row EXCEPT !.amount = @ + 1].payment_id = row.payment_id
        /\ [row EXCEPT !.direction = Other(@)] \in AnyRow
        /\ [row EXCEPT !.direction = Other(@)].payment_id = row.payment_id
    BY <1>1 DEF AnyRow
  <1>3. ASSUME NEW r \in AnyRow, r.payment_id = row.payment_id PROVE Good(<<r>>)
    BY <1>3
  <1>4. Good(<<>>) /\ Good(<<row, row>>)
    OBVIOUS
  <1>5. /\ Good(RowsFor(row, MATCHED)) /\ Good(RowsFor(row, MISSING))
        /\ Good(RowsFor(row, DOUBLED)) /\ Good(RowsFor(row, AMOUNT))
        /\ Good(RowsFor(row, DIRECTION))
    BY <1>2, <1>3, <1>4, RowsForEach
  <1>6. \/ fate = MATCHED \/ fate = MISSING \/ fate = DOUBLED \/ fate = AMOUNT
        \/ fate = DIRECTION
    BY FateNames
  <1>7. Good(RowsFor(row, fate))
    BY ONLY <1>5, <1>6
  <1> QED BY <1>7
-----------------------------------------------------------------------------
\* The rows that a report has of the records, and of what nobody expects.
RecordRows(internal, fates) == [row \in internal |-> RowsFor(row, fates[row])]
ExtraRows(unexpected) == [id \in unexpected |-> <<Row(id, 1, OUTBOUND)>>]

GathersRecords(internal, fates, h) ==
  h = [s \in SUBSET internal |->
         IF s = {} THEN <<>>
         ELSE h[s \ {Chosen(s)}] \o RowsFor(Chosen(s), fates[Chosen(s)])]

GathersExtra(unexpected, h) ==
  h = [s \in SUBSET unexpected |->
         IF s = {} THEN <<>>
         ELSE Append(h[s \ {Chosen(s)}], Row(Chosen(s), 1, OUTBOUND))]

LEMMA ReportIsRecursive ==
  ASSUME NEW internal, NEW fates, NEW unexpected
  PROVE  ReportOf(internal, fates, unexpected)
           = (CHOOSE h : GathersRecords(internal, fates, h))[internal]
             \o (CHOOSE h : GathersExtra(unexpected, h))[unexpected]
  BY DEF ReportOf, FoldSet, MapThenFoldSet, GathersRecords, GathersExtra, Chosen

LEMMA GatheredRecords ==
  ASSUME NEW internal, NEW fates, NEW h
  PROVE  GathersRecords(internal, fates, h)
           <=> CollectsAll(internal, RecordRows(internal, fates), h)
  <1> DEFINE f == [s \in SUBSET internal |->
                     IF s = {} THEN <<>>
                     ELSE h[s \ {Chosen(s)}] \o RowsFor(Chosen(s), fates[Chosen(s)])]
             g == [s \in SUBSET internal |->
                     IF s = {} THEN <<>>
                     ELSE h[s \ {Chosen(s)}] \o RecordRows(internal, fates)[Chosen(s)]]
  <1>1. ASSUME NEW s \in SUBSET internal PROVE f[s] = g[s]
    <2>1. s # {} => Chosen(s) \in internal
      BY DEF Chosen
    <2>2. s # {} => RecordRows(internal, fates)[Chosen(s)]
                      = RowsFor(Chosen(s), fates[Chosen(s)])
      BY <2>1 DEF RecordRows
    <2> QED BY <2>2
  <1>2. f = g
    BY <1>1
  <1> QED BY <1>2 DEF GathersRecords, CollectsAll

LEMMA OneGathersExtra ==
  ASSUME NEW U, IsFiniteSet(U), NEW g, GathersExtra(U, g), NEW h, GathersExtra(U, h)
  PROVE  g = h
  <1>1. ASSUME NEW k, GathersExtra(U, k)
        PROVE  /\ k = [s \in SUBSET U |-> k[s]]
               /\ \A s \in SUBSET U :
                    k[s] = IF s = {} THEN <<>>
                           ELSE Append(k[s \ {Chosen(s)}], Row(Chosen(s), 1, OUTBOUND))
    BY <1>1 DEF GathersExtra
  <1> DEFINE Bad == {n \in Nat : \E s \in SUBSET U : /\ Cardinality(s) = n
                                                     /\ g[s] # h[s]}
  <1>2. Bad = {}
    <2> SUFFICES ASSUME Bad # {} PROVE FALSE
      OBVIOUS
    <2>1. PICK n \in Bad : \A m \in Bad : n <= m
      BY LeastNatural
    <2>2. PICK s \in SUBSET U : Cardinality(s) = n /\ g[s] # h[s]
      BY <2>1
    <2>3. s # {}
      BY <1>1, <2>2
    <2>4. Chosen(s) \in s
      BY <2>3 DEF Chosen
    <2>5. /\ s \ {Chosen(s)} \in SUBSET U /\ Cardinality(s \ {Chosen(s)}) \in Nat
          /\ Cardinality(s \ {Chosen(s)}) = n - 1 /\ n \in Nat
      BY <2>2, <2>4, OneLess
    <2>6. ~(n <= n - 1)
      BY <2>5
    <2>7. Cardinality(s \ {Chosen(s)}) \notin Bad
      BY <2>1, <2>5, <2>6
    <2>8. g[s \ {Chosen(s)}] = h[s \ {Chosen(s)}]
      BY <2>5, <2>7
    <2>9. g[s] = Append(g[s \ {Chosen(s)}], Row(Chosen(s), 1, OUTBOUND))
      BY <1>1, <2>3
    <2>10. h[s] = Append(h[s \ {Chosen(s)}], Row(Chosen(s), 1, OUTBOUND))
      BY <1>1, <2>3
    <2> QED BY ONLY <2>2, <2>8, <2>9, <2>10
  <1>3. ASSUME NEW s \in SUBSET U PROVE g[s] = h[s]
    <2>1. Cardinality(s) \in Nat
      BY FS_Subset, FS_CardinalityType
    <2> QED BY <1>2, <2>1
  <1>4. [s \in SUBSET U |-> g[s]] = [s \in SUBSET U |-> h[s]]
    BY <1>3
  <1> QED BY <1>1, <1>4

LEMMA GatheredExtra ==
  ASSUME NEW U \in SUBSET WorkflowIds, IsFiniteSet(U), NEW h,
         CollectsAll(U, ExtraRows(U), h), Collects(U, ExtraRows(U), h)
  PROVE  GathersExtra(U, h)
  <1> DEFINE rows == ExtraRows(U)
             f == [s \in SUBSET U |->
                     IF s = {} THEN <<>>
                     ELSE Append(h[s \ {Chosen(s)}], Row(Chosen(s), 1, OUTBOUND))]
             g == [s \in SUBSET U |->
                     IF s = {} THEN <<>> ELSE h[s \ {Chosen(s)}] \o rows[Chosen(s)]]
  <1>1. ASSUME NEW s \in SUBSET U PROVE f[s] = g[s]
    <2>1. CASE s = {}
      BY <2>1
    <2>2. CASE s # {}
      <3>1. Chosen(s) \in U /\ s \ {Chosen(s)} \in SUBSET U
        BY <2>2 DEF Chosen
      <3>2. rows[Chosen(s)] = <<Row(Chosen(s), 1, OUTBOUND)>>
        BY <3>1 DEF ExtraRows
      <3>3. h[s \ {Chosen(s)}] \in Seq(AnyRow)
        BY <3>1 DEF Collects
      <3>4. Row(Chosen(s), 1, OUTBOUND) \in AnyRow
        BY <3>1 DEF Row, AnyRow
      <3>5. Append(h[s \ {Chosen(s)}], Row(Chosen(s), 1, OUTBOUND))
              = h[s \ {Chosen(s)}] \o <<Row(Chosen(s), 1, OUTBOUND)>>
        BY <3>3, <3>4, AppendIsConcat
      <3> QED BY <2>2, <3>2, <3>5
    <2> QED BY <2>1, <2>2
  <1>2. f = g
    BY <1>1
  <1> QED BY <1>2 DEF GathersExtra, CollectsAll

\* A report is the rows of the records followed by those nobody expects.
ReportParts(internal, fates, unexpected, hi, hu) ==
  /\ Collects(internal, RecordRows(internal, fates), hi)
  /\ Collects(unexpected, ExtraRows(unexpected), hu)
  /\ ReportOf(internal, fates, unexpected) = hi[internal] \o hu[unexpected]

LEMMA SomeReportParts ==
  ASSUME NEW internal \in SUBSET AnyRow, IsFiniteSet(internal),
         NEW fates \in [internal -> Fate],
         NEW unexpected \in SUBSET WorkflowIds, IsFiniteSet(unexpected)
  PROVE  \E hi, hu : ReportParts(internal, fates, unexpected, hi, hu)
  <1> DEFINE hi == CHOOSE h : GathersRecords(internal, fates, h)
             hu == CHOOSE h : GathersExtra(unexpected, h)
  <1>1. RecordRows(internal, fates) \in [internal -> Seq(AnyRow)]
    BY RowsForTyped DEF RecordRows
  <1>2. ExtraRows(unexpected) \in [unexpected -> Seq(AnyRow)]
    <2>1. \A id \in unexpected : Row(id, 1, OUTBOUND) \in AnyRow
      BY DEF Row, AnyRow
    <2> QED BY <2>1 DEF ExtraRows
  <1>3. PICK h : CollectsAll(internal, RecordRows(internal, fates), h)
    BY <1>1, SomeCollects
  <1>4. GathersRecords(internal, fates, hi)
    <2>1. GathersRecords(internal, fates, h)
      BY <1>3, GatheredRecords
    <2> QED BY <2>1
  <1> HIDE DEF hi
  <1>5. Collects(internal, RecordRows(internal, fates), hi)
    BY <1>1, <1>4, GatheredRecords, CollectsAllCollects
  <1>6. PICK g : CollectsAll(unexpected, ExtraRows(unexpected), g)
    BY <1>2, SomeCollects
  <1>7. Collects(unexpected, ExtraRows(unexpected), g)
    BY <1>2, <1>6, CollectsAllCollects
  <1>8. GathersExtra(unexpected, g)
    BY <1>6, <1>7, GatheredExtra
  <1>9. GathersExtra(unexpected, hu)
    BY <1>8
  <1>10. hu = g
    BY <1>8, <1>9, OneGathersExtra
  <1>11. ReportOf(internal, fates, unexpected) = hi[internal] \o hu[unexpected]
    BY ReportIsRecursive DEF hi
  <1> HIDE DEF hu
  <1>12. ReportParts(internal, fates, unexpected, hi, hu)
    BY <1>5, <1>7, <1>10, <1>11 DEF ReportParts
  <1> QED BY <1>12
-----------------------------------------------------------------------------
(***************************************************************************)
(* reconcile, on records that have identifiers of their own.               *)
(***************************************************************************)
Ids(internal) == {row.payment_id : row \in internal}

\* What is reconciled: records and rows that nobody expects.
Reconcilable(internal, fates, unexpected) ==
  /\ internal \in SUBSET AnyRow /\ IsFiniteSet(internal)
  /\ fates \in [internal -> Fate]
  /\ unexpected \in SUBSET WorkflowIds /\ IsFiniteSet(unexpected)

\* Every record has an identifier that no other record and no stray row has.
OwnIdentifiers(internal, unexpected) ==
  /\ \A row, other \in internal : row.payment_id = other.payment_id => row = other
  /\ unexpected \cap Ids(internal) = {}

\* How a report is laid out.
LaidOut(internal, fates, unexpected, report) ==
  /\ report \in Seq(AnyRow)
  /\ \A row \in internal : Block(report, row.payment_id, RowsFor(row, fates[row]))
  /\ \A id \in unexpected : Block(report, id, <<Row(id, 1, OUTBOUND)>>)
  /\ \A i \in DOMAIN report : report[i].payment_id \in Ids(internal) \cup unexpected

LEMMA ReportLaidOut ==
  ASSUME NEW internal, NEW fates, NEW unexpected,
         Reconcilable(internal, fates, unexpected), OwnIdentifiers(internal, unexpected)
  PROVE  LaidOut(internal, fates, unexpected, ReportOf(internal, fates, unexpected))
  <1>1. /\ internal \in SUBSET AnyRow /\ IsFiniteSet(internal)
        /\ fates \in [internal -> Fate]
        /\ unexpected \in SUBSET WorkflowIds /\ IsFiniteSet(unexpected)
    BY DEF Reconcilable
  <1>2. PICK hi, hu : ReportParts(internal, fates, unexpected, hi, hu)
    BY <1>1, SomeReportParts
  <1>3. PICK rows, extra, v, r, t :
          /\ rows = RecordRows(internal, fates) /\ extra = ExtraRows(unexpected)
          /\ v = hi[internal] /\ r = hu[unexpected]
          /\ t = ReportOf(internal, fates, unexpected)
    OBVIOUS
  <1>4. Collects(internal, rows, hi) /\ Collects(unexpected, extra, hu) /\ t = v \o r
    BY <1>2, <1>3 DEF ReportParts
  <1>5. v \in Seq(AnyRow) /\ r \in Seq(AnyRow)
    BY <1>3, <1>4 DEF Collects
  <1>6. FromRows(v, rows, internal) /\ FromRows(r, extra, unexpected)
    BY <1>3, <1>4, CollectedHolds
  <1> DEFINE key == [row \in internal |-> row.payment_id]
             own == [id \in unexpected |-> id]
  <1>7. \A row \in internal : rows[row] = RowsFor(row, fates[row])
    BY <1>3 DEF RecordRows
  <1>8. \A id \in unexpected : extra[id] = <<Row(id, 1, OUTBOUND)>>
    BY <1>3 DEF ExtraRows
  <1>9. Keyed(internal, rows, key)
    <2>1. \A x, y \in internal : key[x] = key[y] => x = y
      BY DEF OwnIdentifiers
    <2>2. ASSUME NEW x \in internal, NEW k \in DOMAIN rows[x]
          PROVE  rows[x][k].payment_id = key[x]
      <3>1. x \in AnyRow /\ fates[x] \in Fate /\ k \in DOMAIN RowsFor(x, fates[x])
        BY <1>1, <1>7
      <3>2. RowsFor(x, fates[x])[k].payment_id = x.payment_id
        BY <3>1, RowsForTyped
      <3> QED BY <1>7, <3>2
    <2> QED BY <2>1, <2>2 DEF Keyed
  <1>10. Keyed(unexpected, extra, own)
    <2>1. ASSUME NEW x \in unexpected, NEW k \in DOMAIN extra[x]
          PROVE  extra[x][k].payment_id = own[x]
      <3>1. extra[x] = <<Row(x, 1, OUTBOUND)>> /\ k \in DOMAIN extra[x]
        BY <1>8
      <3>2. extra[x][k] = Row(x, 1, OUTBOUND)
        BY <3>1
      <3> QED BY <3>2 DEF Row
    <2> QED BY <2>1 DEF Keyed
  <1>11. ASSUME NEW row \in internal
         PROVE  Block(t, row.payment_id, RowsFor(row, fates[row]))
    <2>1. Block(v, row.payment_id, RowsFor(row, fates[row]))
      <3>1. Block(hi[internal], key[row], rows[row])
        BY <1>4, <1>9, CollectedBlocks
      <3> QED BY <1>3, <1>7, <3>1
    <2>2. PlacesIn(r, row.payment_id) = {}
      <3>1. \A id \in unexpected : own[id] # row.payment_id
        BY DEF OwnIdentifiers, Ids
      <3> QED BY <1>6, <1>10, <3>1, NothingElse
    <2>3. RowsFor(row, fates[row]) \in Seq(AnyRow)
      BY <1>1, RowsForTyped
    <2> QED BY ONLY <1>4, <1>5, <2>1, <2>2, <2>3, BlockStays
  <1>12. ASSUME NEW id \in unexpected
         PROVE  Block(t, id, <<Row(id, 1, OUTBOUND)>>)
    <2>1. Block(r, id, <<Row(id, 1, OUTBOUND)>>)
      <3>1. Block(hu[unexpected], own[id], extra[id])
        BY <1>4, <1>10, CollectedBlocks
      <3> QED BY <1>3, <1>8, <3>1
    <2>2. PlacesIn(v, id) = {}
      <3>1. \A row \in internal : key[row] # id
        BY DEF OwnIdentifiers, Ids
      <3> QED BY <1>6, <1>9, <3>1, NothingElse
    <2>3. <<Row(id, 1, OUTBOUND)>> \in Seq(AnyRow)
      BY <1>1 DEF Row, AnyRow
    <2> QED BY ONLY <1>4, <1>5, <2>1, <2>2, <2>3, BlockMoves
  <1>13. /\ t \in Seq(AnyRow) /\ DOMAIN t = 1..(Len(v) + Len(r))
         /\ Len(v) \in Nat /\ Len(r) \in Nat
         /\ DOMAIN v = 1..Len(v) /\ DOMAIN r = 1..Len(r)
         /\ \A i \in 1..Len(v) : t[i] = v[i]
         /\ \A i \in 1..Len(r) : t[Len(v) + i] = r[i]
    BY <1>4, <1>5, Joined
  <1>14. ASSUME NEW i \in DOMAIN t PROVE t[i].payment_id \in Ids(internal) \cup unexpected
    <2>1. CASE i \in 1..Len(v)
      <3>1. PICK x \in internal : \E k \in DOMAIN rows[x] : v[i] = rows[x][k]
        BY <1>6, <1>13, <2>1 DEF FromRows
      <3>2. t[i].payment_id = key[x]
        BY <1>9, <1>13, <2>1, <3>1 DEF Keyed
      <3> QED BY <3>2 DEF Ids
    <2>2. CASE i \notin 1..Len(v)
      <3>1. i - Len(v) \in 1..Len(r) /\ Len(v) + (i - Len(v)) = i
        BY <1>13, <2>2
      <3>2. t[i] = r[i - Len(v)]
        BY <1>13, <3>1
      <3>3. PICK x \in unexpected : \E k \in DOMAIN extra[x] : r[i - Len(v)] = extra[x][k]
        BY <1>6, <1>13, <3>1 DEF FromRows
      <3>4. t[i].payment_id = own[x]
        BY <1>10, <3>2, <3>3 DEF Keyed
      <3> QED BY <3>4
    <2> QED BY <2>1, <2>2
  <1>15. LaidOut(internal, fates, unexpected, t)
    BY <1>11, <1>12, <1>13, <1>14 DEF LaidOut
  <1> QED BY <1>3, <1>15
-----------------------------------------------------------------------------
\* Classified, one case at a time.
LEMMA ClassifiedEach ==
  ASSUME NEW expected, NEW report, NEW places,
         NEW row, row = report[CHOOSE i \in places : TRUE]
  PROVE  /\ /\ places = {} /\ ~(Cardinality(places) > 1) /\ ~(Cardinality(places) = 1)
            => Classified(expected, report, places) = MISSING
         /\ /\ places # {} /\ Cardinality(places) > 1 /\ ~(Cardinality(places) = 1)
            => Classified(expected, report, places) = DOUBLED
         /\ /\ places # {} /\ ~(Cardinality(places) > 1) /\ Cardinality(places) = 1
            /\ row.direction # expected.direction
            => Classified(expected, report, places) = DIRECTION
         /\ /\ places # {} /\ ~(Cardinality(places) > 1) /\ Cardinality(places) = 1
            /\ row.direction = expected.direction /\ row.amount # expected.amount
            => Classified(expected, report, places) = AMOUNT
         /\ /\ places # {} /\ ~(Cardinality(places) > 1)
            /\ row.direction = expected.direction /\ row.amount = expected.amount
            => Classified(expected, report, places) = MATCHED
  <1>1. /\ places = {} /\ ~(Cardinality(places) > 1) /\ ~(Cardinality(places) = 1)
        => Classified(expected, report, places) = MISSING
    BY Zenon DEF Classified, MISSING
  <1>2. /\ places # {} /\ Cardinality(places) > 1 /\ ~(Cardinality(places) = 1)
        => Classified(expected, report, places) = DOUBLED
    BY Zenon DEF Classified, DOUBLED
  <1>3. /\ places # {} /\ ~(Cardinality(places) > 1) /\ Cardinality(places) = 1
        /\ row.direction # expected.direction
        => Classified(expected, report, places) = DIRECTION
    BY Zenon DEF Classified, DIRECTION
  <1>4. /\ places # {} /\ ~(Cardinality(places) > 1) /\ Cardinality(places) = 1
        /\ row.direction = expected.direction /\ row.amount # expected.amount
        => Classified(expected, report, places) = AMOUNT
    BY Zenon DEF Classified, AMOUNT
  <1>5. /\ places # {} /\ ~(Cardinality(places) > 1)
        /\ row.direction = expected.direction /\ row.amount = expected.amount
        => Classified(expected, report, places) = MATCHED
    BY Zenon DEF Classified, MATCHED
  <1> QED BY <1>1, <1>2, <1>3, <1>4, <1>5

\* A block of one row or of none has its only place, or none.
LEMMA BlockOfOne ==
  ASSUME NEW report, NEW id, NEW row, NEW b, b = <<row>>, Block(report, id, b)
  PROVE  \E n \in Nat : PlacesIn(report, id) = {n} /\ report[n] = row
  <1>1. PICK n \in Nat : /\ PlacesIn(report, id) = (n + 1)..(n + Len(b))
                         /\ \A j \in 1..Len(b) : report[n + j] = b[j]
    BY DEF Block
  <1>2. Len(b) = 1 /\ b[1] = row
    OBVIOUS
  <1>3. PlacesIn(report, id) = {n + 1}
    BY <1>1, <1>2
  <1> QED BY <1>1, <1>2, <1>3

LEMMA BlockOfNone ==
  ASSUME NEW report, NEW id, NEW b, b = <<>>, Block(report, id, b)
  PROVE  PlacesIn(report, id) = {}
  BY DEF Block

LEMMA BlockOfTwo ==
  ASSUME NEW report, NEW id, NEW row, NEW b, b = <<row, row>>, Block(report, id, b)
  PROVE  Cardinality(PlacesIn(report, id)) = 2
  <1>1. PICK n \in Nat : /\ PlacesIn(report, id) = (n + 1)..(n + Len(b))
                         /\ \A j \in 1..Len(b) : report[n + j] = b[j]
    BY DEF Block
  <1>2. Len(b) = 2
    OBVIOUS
  <1>3. PlacesIn(report, id) = (n + 1)..(n + 2)
    BY <1>1, <1>2
  <1>4. Cardinality((n + 1)..(n + 2)) = 2
    BY FS_Interval
  <1> QED BY <1>3, <1>4

LEMMA ClassifiedOne ==
  ASSUME NEW expected, NEW report, NEW places, NEW n, places = {n}, NEW row,
         report[n] = row
  PROVE  /\ row.direction # expected.direction
            => Classified(expected, report, places) = DIRECTION
         /\ row.direction = expected.direction /\ row.amount # expected.amount
            => Classified(expected, report, places) = AMOUNT
         /\ row = expected => Classified(expected, report, places) = MATCHED
  <1>1. Cardinality(places) = 1 /\ places # {} /\ ~(Cardinality(places) > 1)
    <2>1. Cardinality(places) = 1
      BY FS_Singleton
    <2> QED BY <2>1
  <1>2. row = report[CHOOSE i \in places : TRUE]
    OBVIOUS
  <1> QED BY <1>1, <1>2, ClassifiedEach

\* A record is classified by what became of it.
LEMMA ClassifiedAsFate ==
  ASSUME NEW row \in AnyRow, NEW fate \in Fate, NEW report, NEW places,
         places = PlacesIn(report, row.payment_id),
         Block(report, row.payment_id, RowsFor(row, fate))
  PROVE  Classified(row, report, places) = fate
  <1>1. CASE fate = MATCHED
    <2>1. PICK n \in Nat : places = {n} /\ report[n] = row
      <3>1. PICK id, b : id = row.payment_id /\ b = RowsFor(row, fate)
        OBVIOUS
      <3>2. b = <<row>>
        BY <1>1, <3>1, RowsForEach
      <3>3. Block(report, id, b)
        BY <3>1
      <3>4. \E n \in Nat : PlacesIn(report, id) = {n} /\ report[n] = row
        BY ONLY <3>2, <3>3, BlockOfOne
      <3> QED BY <3>1, <3>4
    <2> QED BY <1>1, <2>1, ClassifiedOne
  <1>2. CASE fate = MISSING
    <2>1. places = {}
      BY <1>2, RowsForEach, BlockOfNone
    <2>2. Cardinality(places) = 0
      BY <2>1, FS_EmptySet
    <2>3. ~(Cardinality(places) > 1) /\ ~(Cardinality(places) = 1)
      BY <2>2
    <2> QED BY <1>2, <2>1, <2>3, ClassifiedEach
  <1>3. CASE fate = DOUBLED
    <2>1. Cardinality(places) = 2
      BY <1>3, RowsForEach, BlockOfTwo
    <2>2. places # {}
      BY <2>1, FS_EmptySet
    <2>3. Cardinality(places) > 1 /\ ~(Cardinality(places) = 1)
      BY <2>1
    <2> QED BY <1>3, <2>2, <2>3, ClassifiedEach
  <1>4. CASE fate = AMOUNT
    <2> DEFINE other == [row EXCEPT !.amount = @ + 1]
    <2>1. PICK n \in Nat : places = {n} /\ report[n] = other
      <3>1. PICK id, b : id = row.payment_id /\ b = RowsFor(row, fate)
        OBVIOUS
      <3>2. b = <<other>>
        BY <1>4, <3>1, RowsForEach
      <3>3. Block(report, id, b)
        BY <3>1
      <3>4. \E n \in Nat : PlacesIn(report, id) = {n} /\ report[n] = other
        BY ONLY <3>2, <3>3, BlockOfOne
      <3> QED BY <3>1, <3>4
    <2>2. other.direction = row.direction /\ other.amount # row.amount
      BY DEF AnyRow
    <2> HIDE DEF other
    <2> QED BY <1>4, <2>1, <2>2, ClassifiedOne
  <1>5. CASE fate = DIRECTION
    <2> DEFINE other == [row EXCEPT !.direction = Other(@)]
    <2>1. PICK n \in Nat : places = {n} /\ report[n] = other
      <3>1. PICK id, b : id = row.payment_id /\ b = RowsFor(row, fate)
        OBVIOUS
      <3>2. b = <<other>>
        BY <1>5, <3>1, RowsForEach
      <3>3. Block(report, id, b)
        BY <3>1
      <3>4. \E n \in Nat : PlacesIn(report, id) = {n} /\ report[n] = other
        BY ONLY <3>2, <3>3, BlockOfOne
      <3> QED BY <3>1, <3>4
    <2>2. other.direction # row.direction
      BY DEF AnyRow, Other, OUTBOUND, RETURN
    <2> HIDE DEF other
    <2> QED BY <1>5, <2>1, <2>2, ClassifiedOne
  <1>6. \/ fate = MATCHED \/ fate = MISSING \/ fate = DOUBLED \/ fate = AMOUNT
        \/ fate = DIRECTION
    BY FateNames
  <1> QED BY ONLY <1>1, <1>2, <1>3, <1>4, <1>5, <1>6

\* The item of an expected record, and those of rows that nobody expects.
ExpectedItem(row, report, places) ==
  Item(row.payment_id, Classified(row, report, places), row.direction, row.amount,
       Amount(report, places), places)

StrayItem(id, report, i) ==
  Item(id, UNEXPECTED, report[i].direction, 0, report[i].amount, {i})

LEMMA ItemsForEach ==
  ASSUME NEW internal, NEW report, NEW id, NEW places, places = PlacesIn(report, id)
  PROVE  /\ Expected(internal, id) = {}
            => ItemsFor(internal, report, id) = {StrayItem(id, report, i) : i \in places}
         /\ Expected(internal, id) # {}
            => ItemsFor(internal, report, id)
                 = {Item(id, Classified(row, report, places), row.direction, row.amount,
                         Amount(report, places), places) : row \in Expected(internal, id)}
  <1>1. places = Reported(internal, report, id)
    BY DEF PlacesIn, Reported
  <1>2. Expected(internal, id) = {}
        => ItemsFor(internal, report, id) = {StrayItem(id, report, i) : i \in places}
    BY Zenon, <1>1 DEF ItemsFor, StrayItem, UNEXPECTED
  <1>3. Expected(internal, id) # {}
        => ItemsFor(internal, report, id)
             = {Item(id, Classified(row, report, places), row.direction, row.amount,
                     Amount(report, places), places) : row \in Expected(internal, id)}
    BY Zenon, <1>1 DEF ItemsFor
  <1> QED BY <1>2, <1>3

\* A record under an identifier of its own is what is expected under it.
LEMMA ExpectedOne ==
  ASSUME NEW internal, NEW unexpected, OwnIdentifiers(internal, unexpected)
  PROVE  /\ \A row \in internal : Expected(internal, row.payment_id) = {row}
         /\ \A id : id \notin Ids(internal) => Expected(internal, id) = {}
  BY DEF OwnIdentifiers, Expected, Ids

LEMMA ItemStatus ==
  ASSUME NEW id, NEW verdict, NEW direction, NEW a, NEW b, NEW places
  PROVE  /\ Item(id, verdict, direction, a, b, places).payment_id = id
         /\ Item(id, verdict, direction, a, b, places).status = verdict
  BY DEF Item

\* The items of a record, and of an identifier that nobody expects.
LEMMA RecordItems ==
  ASSUME NEW internal, NEW fates, NEW unexpected, NEW report,
         Reconcilable(internal, fates, unexpected), OwnIdentifiers(internal, unexpected),
         LaidOut(internal, fates, unexpected, report), NEW row \in internal
  PROVE  \E item : /\ ItemsFor(internal, report, row.payment_id) = {item}
                   /\ item.payment_id = row.payment_id /\ item.status = fates[row]
  <1>1. PICK id, places : id = row.payment_id /\ places = PlacesIn(report, id)
    OBVIOUS
  <1>2. Expected(internal, id) = {row}
    BY <1>1, ExpectedOne
  <1>3. row \in AnyRow /\ fates[row] \in Fate
    BY DEF Reconcilable
  <1>4. Block(report, row.payment_id, RowsFor(row, fates[row]))
    BY DEF LaidOut
  <1>5. Classified(row, report, places) = fates[row]
    BY <1>1, <1>3, <1>4, ClassifiedAsFate
  <1>6. ItemsFor(internal, report, id)
          = {Item(id, Classified(r, report, places), r.direction, r.amount,
                  Amount(report, places), places) : r \in Expected(internal, id)}
    <2>1. Expected(internal, id) # {}
      BY <1>2
    <2> QED BY <1>1, <2>1, ItemsForEach
  <1> DEFINE item == Item(id, Classified(row, report, places), row.direction, row.amount,
                          Amount(report, places), places)
  <1>7. ItemsFor(internal, report, id) = {item}
    BY <1>2, <1>6
  <1>8. item.payment_id = id /\ item.status = fates[row]
    BY <1>5, ItemStatus
  <1> QED BY <1>1, <1>7, <1>8

LEMMA StrayItems ==
  ASSUME NEW internal, NEW fates, NEW unexpected, NEW report,
         OwnIdentifiers(internal, unexpected),
         LaidOut(internal, fates, unexpected, report), NEW id \in unexpected
  PROVE  \E item : /\ ItemsFor(internal, report, id) = {item}
                   /\ item.payment_id = id /\ item.status = UNEXPECTED
  <1>1. PICK places, row, b : /\ places = PlacesIn(report, id)
                              /\ row = Row(id, 1, OUTBOUND) /\ b = <<row>>
    OBVIOUS
  <1>2. PICK n \in Nat : places = {n} /\ report[n] = row
    <2>1. Block(report, id, b)
      BY <1>1 DEF LaidOut
    <2>2. \E n \in Nat : PlacesIn(report, id) = {n} /\ report[n] = row
      BY <1>1, <2>1, BlockOfOne
    <2> QED BY <1>1, <2>2
  <1>3. Expected(internal, id) = {}
    <2>1. id \notin Ids(internal)
      BY DEF OwnIdentifiers
    <2> QED BY <2>1, ExpectedOne
  <1>4. ItemsFor(internal, report, id) = {StrayItem(id, report, i) : i \in places}
    BY <1>1, <1>3, ItemsForEach
  <1>5. ItemsFor(internal, report, id) = {StrayItem(id, report, n)}
    BY <1>2, <1>4
  <1>6. /\ StrayItem(id, report, n).payment_id = id
        /\ StrayItem(id, report, n).status = UNEXPECTED
    BY ItemStatus DEF StrayItem
  <1> QED BY <1>5, <1>6

\* What reconcile says, of whom.
Said(internal, fates, unexpected, items) ==
  {<<item.payment_id, item.status>> : item \in items}
    = {<<row.payment_id, fates[row]>> : row \in internal}
        \cup (unexpected \X {UNEXPECTED})

LEMMA ReconcileItems ==
  ASSUME NEW internal, NEW report
  PROVE  reconcile(internal, report)
           = UNION {ItemsFor(internal, report, id) :
                      id \in Ids(internal) \cup {report[i].payment_id : i \in DOMAIN report}}
  BY DEF reconcile, Ids

LEMMA EveryFateSaid ==
  ASSUME NEW internal, NEW fates, NEW unexpected, NEW report, NEW items,
         Reconcilable(internal, fates, unexpected), OwnIdentifiers(internal, unexpected),
         LaidOut(internal, fates, unexpected, report),
         items = reconcile(internal, report)
  PROVE  Said(internal, fates, unexpected, items)
  <1> DEFINE ids == {report[i].payment_id : i \in DOMAIN report}
  <1>0. \A item : item \in items <=>
          \E id \in Ids(internal) \cup ids : item \in ItemsFor(internal, report, id)
    BY ReconcileItems
  <1>1. ASSUME NEW item \in items
        PROVE  \/ \E row \in internal : /\ item.payment_id = row.payment_id
                                        /\ item.status = fates[row]
               \/ item.payment_id \in unexpected /\ item.status = UNEXPECTED
    <2>1. PICK id \in Ids(internal) \cup ids : item \in ItemsFor(internal, report, id)
      BY <1>0
    <2>2. id \in Ids(internal) \/ id \in unexpected
      BY DEF LaidOut
    <2>3. CASE id \in Ids(internal)
      <3>1. PICK row \in internal : row.payment_id = id
        BY <2>3 DEF Ids
      <3>2. PICK it : /\ ItemsFor(internal, report, row.payment_id) = {it}
                      /\ it.payment_id = row.payment_id /\ it.status = fates[row]
        BY RecordItems
      <3> QED BY <2>1, <3>1, <3>2
    <2>4. CASE id \in unexpected
      <3>1. PICK it : /\ ItemsFor(internal, report, id) = {it}
                      /\ it.payment_id = id /\ it.status = UNEXPECTED
        BY <2>4, StrayItems
      <3> QED BY <2>1, <2>4, <3>1
    <2> QED BY <2>2, <2>3, <2>4
  <1>2. ASSUME NEW row \in internal
        PROVE  \E item \in items : /\ item.payment_id = row.payment_id
                                   /\ item.status = fates[row]
    <2>1. PICK it : /\ ItemsFor(internal, report, row.payment_id) = {it}
                    /\ it.payment_id = row.payment_id /\ it.status = fates[row]
      BY RecordItems
    <2>2. row.payment_id \in Ids(internal)
      BY DEF Ids
    <2>3. it \in items
      BY <1>0, <2>1, <2>2
    <2> QED BY <2>1, <2>3
  <1>3. ASSUME NEW id \in unexpected
        PROVE  \E item \in items : item.payment_id = id /\ item.status = UNEXPECTED
    <2>1. PICK it : /\ ItemsFor(internal, report, id) = {it}
                    /\ it.payment_id = id /\ it.status = UNEXPECTED
      BY StrayItems
    <2>2. id \in ids
      <3>1. PICK n \in Nat : PlacesIn(report, id) = {n}
        <4>1. PICK row, b : row = Row(id, 1, OUTBOUND) /\ b = <<row>>
          OBVIOUS
        <4>2. Block(report, id, b)
          BY <4>1 DEF LaidOut
        <4> QED BY <4>1, <4>2, BlockOfOne
      <3>2. n \in DOMAIN report /\ report[n].payment_id = id
        BY <3>1 DEF PlacesIn
      <3> QED BY <3>2
    <2>3. it \in items
      BY <1>0, <2>1, <2>2
    <2> QED BY <2>1, <2>3
  <1> HIDE DEF ids
  <1>4. ASSUME NEW p \in {<<item.payment_id, item.status>> : item \in items}
        PROVE  p \in {<<row.payment_id, fates[row]>> : row \in internal}
                       \cup (unexpected \X {UNEXPECTED})
    <2>1. PICK item \in items : p = <<item.payment_id, item.status>>
      OBVIOUS
    <2> QED BY <1>1, <2>1
  <1>5. ASSUME NEW p \in {<<row.payment_id, fates[row]>> : row \in internal}
        PROVE  p \in {<<item.payment_id, item.status>> : item \in items}
    BY <1>2
  <1>6. ASSUME NEW p \in unexpected \X {UNEXPECTED}
        PROVE  p \in {<<item.payment_id, item.status>> : item \in items}
    <2>1. PICK id \in unexpected : p = <<id, UNEXPECTED>>
      OBVIOUS
    <2> QED BY <1>3, <2>1
  <1> QED BY <1>4, <1>5, <1>6 DEF Said
-----------------------------------------------------------------------------
\* Where nothing is an exception, every record was matched and nobody is a stranger.
LEMMA CleanIsMatched ==
  ASSUME NEW internal, NEW fates, NEW unexpected, NEW items,
         Said(internal, fates, unexpected, items)
  PROVE  /\ Exceptions(items) = {}
            => (\A row \in internal : fates[row] = MATCHED) /\ unexpected = {}
         /\ (\A row \in internal : fates[row] = MATCHED) /\ unexpected = {}
            => Exceptions(items) = {}
  <1> DEFINE said == {<<item.payment_id, item.status>> : item \in items}
             fate == {<<row.payment_id, fates[row]>> : row \in internal}
                       \cup (unexpected \X {UNEXPECTED})
  <1>1. said = fate
    BY DEF Said
  <1>2. Exceptions(items) = {item \in items : item.status # MATCHED}
    BY DEF Exceptions, MATCHED
  <1>3. ASSUME Exceptions(items) = {}
        PROVE  (\A row \in internal : fates[row] = MATCHED) /\ unexpected = {}
    <2>1. \A item \in items : item.status = MATCHED
      BY <1>2, <1>3
    <2>2. \A p \in said : p[2] = MATCHED
      BY <2>1
    <2>3. ASSUME NEW row \in internal PROVE fates[row] = MATCHED
      <3>1. <<row.payment_id, fates[row]>> \in fate
        OBVIOUS
      <3> QED BY <1>1, <2>2, <3>1
    <2>4. ASSUME NEW id \in unexpected PROVE FALSE
      <3>1. <<id, UNEXPECTED>> \in fate
        OBVIOUS
      <3>2. UNEXPECTED = MATCHED
        BY <1>1, <2>2, <3>1
      <3> QED BY <3>2, FateNames
    <2> QED BY <2>3, <2>4
  <1>4. ASSUME \A row \in internal : fates[row] = MATCHED, unexpected = {}
        PROVE  Exceptions(items) = {}
    <2>1. \A p \in fate : p[2] = MATCHED
      BY <1>4
    <2>2. ASSUME NEW item \in items PROVE item.status = MATCHED
      <3>1. PICK p : p = <<item.payment_id, item.status>>
        OBVIOUS
      <3>2. p \in said
        BY <3>1
      <3>3. p[2] = MATCHED
        BY <1>1, <2>1, <3>2
      <3> QED BY <3>1, <3>3
    <2> QED BY <1>2, <2>2
  <1> QED BY <1>3, <1>4

\* The totals of a report in which every record was matched.
LEMMA MatchedTotals ==
  ASSUME NEW internal, NEW fates, NEW report,
         Reconcilable(internal, fates, {}), OwnIdentifiers(internal, {}),
         LaidOut(internal, fates, {}, report),
         \A row \in internal : fates[row] = MATCHED, NEW direction
  PROVE  ExternalTotal(report, direction) = InternalTotal(internal, direction)
  <1> DEFINE S == {r \in internal : r.direction = direction}
             T == {i \in DOMAIN report : report[i].direction = direction}
             f == [row \in S |-> row.amount]
             g == [i \in T |-> report[i].amount]
             h == [row \in S |-> CHOOSE i \in DOMAIN report : report[i] = row]
  <1>1. /\ internal \in SUBSET AnyRow /\ IsFiniteSet(internal) /\ report \in Seq(AnyRow)
        /\ \A i \in DOMAIN report : report[i] \in AnyRow
    BY ElementOfSeq, LenProperties DEF Reconcilable, LaidOut
  <1>2. ASSUME NEW row \in internal
        PROVE  \E n \in DOMAIN report : /\ PlacesIn(report, row.payment_id) = {n}
                                        /\ report[n] = row
    <2>1. PICK id, b : id = row.payment_id /\ b = RowsFor(row, MATCHED)
      OBVIOUS
    <2>2. Block(report, id, b)
      BY <2>1 DEF LaidOut
    <2>3. b = <<row>>
      BY <2>1, RowsForEach
    <2>4. PICK n \in Nat : PlacesIn(report, id) = {n} /\ report[n] = row
      BY ONLY <2>2, <2>3, BlockOfOne
    <2>5. n \in DOMAIN report
      BY <2>4 DEF PlacesIn
    <2> QED BY <2>1, <2>4, <2>5
  <1>3. ASSUME NEW row \in S PROVE h[row] \in T /\ report[h[row]] = row
    <2>1. \E i \in DOMAIN report : report[i] = row
      BY <1>2
    <2> QED BY <2>1
  <1>4. ASSUME NEW i \in T PROVE \E row \in S : h[row] = i
    <2>1. PICK row \in internal : row.payment_id = report[i].payment_id
      BY DEF LaidOut, Ids
    <2>2. PICK n \in DOMAIN report : /\ PlacesIn(report, row.payment_id) = {n}
                                     /\ report[n] = row
      BY <1>2
    <2>3. i = n
      BY <2>1, <2>2 DEF PlacesIn
    <2>4. row \in S
      BY <2>2, <2>3
    <2>5. h[row] \in PlacesIn(report, row.payment_id)
      BY <1>3, <2>4 DEF PlacesIn
    <2> QED BY <2>2, <2>3, <2>4, <2>5
  <1>5. IsFiniteSet(S)
    BY <1>1, FS_Subset
  <1>6. f \in [S -> Int] /\ g \in [T -> Int]
    <2>1. \A row \in S : row.amount \in Int
      BY <1>1 DEF AnyRow
    <2>2. \A i \in T : report[i].amount \in Int
      BY <1>1 DEF AnyRow
    <2> QED BY <2>1, <2>2
  <1>7. h \in [S -> T]
    BY <1>3
  <1>8. \A x, y \in S : h[x] = h[y] => x = y
    BY <1>3
  <1>9. \A x \in S : f[x] = g[h[x]]
    BY <1>3
  <1>10. SumFunction(f) = SumFunction(g)
    <2> HIDE DEF S, T, f, g, h
    <2>1. Pairs(S, T, f, g, h)
      BY <1>4, <1>5, <1>6, <1>7, <1>8, <1>9 DEF Pairs
    <2> QED BY <2>1, SumPairs
  <1>11. InternalTotal(internal, direction) = SumFunction(f)
    BY DEF InternalTotal
  <1>12. ExternalTotal(report, direction) = SumFunction(g)
    BY DEF ExternalTotal, Amount
  <1> QED BY <1>10, <1>11, <1>12
\* A report that repeats the records has each of them.
LEMMA HonestHolds ==
  ASSUME NEW internal, NEW fates, NEW report, Reconcilable(internal, fates, {}),
         report = ReportOf(internal, fates, {}),
         \A row \in internal : fates[row] = MATCHED, NEW x \in internal
  PROVE  LET places == PlacesIn(report, x.payment_id)
         IN  IsFiniteSet(places) /\ \E i \in places : report[i] = x
  <1>1. /\ internal \in SUBSET AnyRow /\ IsFiniteSet(internal)
        /\ fates \in [internal -> Fate]
        /\ {} \in SUBSET WorkflowIds /\ IsFiniteSet({})
    BY DEF Reconcilable
  <1>2. PICK hi, hu : ReportParts(internal, fates, {}, hi, hu)
    BY <1>1, SomeReportParts
  <1>3. PICK rows, extra, v, r : /\ rows = RecordRows(internal, fates)
                                 /\ extra = ExtraRows({})
                                 /\ v = hi[internal] /\ r = hu[{}]
    OBVIOUS
  <1>4. Collects(internal, rows, hi) /\ Collects({}, extra, hu) /\ report = v \o r
    BY <1>2, <1>3 DEF ReportParts
  <1>5. v \in Seq(AnyRow) /\ r \in Seq(AnyRow)
    BY <1>3, <1>4 DEF Collects
  <1>6. /\ DOMAIN report = 1..(Len(v) + Len(r)) /\ Len(v) \in Nat /\ Len(r) \in Nat
        /\ DOMAIN v = 1..Len(v)
        /\ \A i \in 1..Len(v) : report[i] = v[i]
    BY <1>4, <1>5, Joined
  <1>7. HoldsRows(v, rows, internal)
    BY <1>3, <1>4, CollectedHolds
  <1>8. rows[x] = <<x>>
    BY <1>3, RowsForEach DEF RecordRows
  <1>9. PICK i \in DOMAIN v : v[i] = x
    <2>1. 1 \in DOMAIN rows[x] /\ rows[x][1] = x
      BY <1>8
    <2> QED BY <1>7, <2>1 DEF HoldsRows
  <1>10. i \in PlacesIn(report, x.payment_id) /\ report[i] = x
    BY <1>6, <1>9 DEF PlacesIn
  <1>11. IsFiniteSet(1..(Len(v) + Len(r)))
    BY <1>6, FS_Interval
  <1>12. IsFiniteSet(PlacesIn(report, x.payment_id))
    BY <1>6, <1>11, FS_Subset DEF PlacesIn
  <1> QED BY <1>10, <1>12
-----------------------------------------------------------------------------
(***************************************************************************)
(* The records of the network's workflows, which are finitely many.        *)
(***************************************************************************)
FiniteWorkflows == IsFiniteSet(TransferIds) /\ IsFiniteSet(ReturnIds)

LEMMA RecordsFinite ==
  ASSUME FiniteWorkflows, WorkInv
  PROVE  settlement_expectations \in SUBSET AnyRow /\ IsFiniteSet(settlement_expectations)
  <1> DEFINE A == {u \in TransferIds : status[u] = "Completed"}
             B == {u \in ReturnIds : returnStatus[u] = "Completed"}
             out == {Row(t, request[t].amount, OUTBOUND) : t \in A}
             back == {Row(r, returnRequest[r].amount, RETURN) : r \in B}
  <1>1. settlement_expectations = out \cup back
    BY DEF settlement_expectations
  <1>2. IsFiniteSet(A) /\ IsFiniteSet(B)
    BY FS_Subset DEF FiniteWorkflows
  <1>3. IsFiniteSet(out)
    <2> DEFINE f == [t \in A |-> Row(t, request[t].amount, OUTBOUND)]
    <2>1. f \in Surjection(A, out)
      BY DEF Surjection
    <2> QED BY <1>2, <2>1, FS_Surjection
  <1>4. IsFiniteSet(back)
    <2> DEFINE f == [r \in B |-> Row(r, returnRequest[r].amount, RETURN)]
    <2>1. f \in Surjection(B, back)
      BY DEF Surjection
    <2> QED BY <1>2, <2>1, FS_Surjection
  <1>5. ASSUME NEW t \in A PROVE Row(t, request[t].amount, OUTBOUND) \in AnyRow
    <2>1. request[t] \in TransferRequest
      BY AchInputs DEF WorkInv, Asked
    <2>2. request[t].amount \in Int
      BY <2>1 DEF TransferRequest
    <2> QED BY <2>2 DEF Row, AnyRow, WorkflowIds
  <1>6. ASSUME NEW r \in B PROVE Row(r, returnRequest[r].amount, RETURN) \in AnyRow
    <2>1. returnRequest[r] \in ReturnRequest
      BY AchInputs DEF WorkInv, Asked
    <2>2. returnRequest[r].amount \in Int
      BY <2>1 DEF ReturnRequest
    <2> QED BY <2>2 DEF Row, AnyRow, WorkflowIds
  <1>7. IsFiniteSet(out \cup back)
    BY <1>3, <1>4, FS_Union
  <1> QED BY <1>1, <1>5, <1>6, <1>7

\* Whatever happened to each record on its way, reconcile says exactly that of it,
\* and a report without exceptions agrees in both totals; among finitely many
\* workflows, which is what EveryTamperingFound says of one moment.
THEOREM TamperingIsFound ==
  ASSUME FiniteWorkflows
  PROVE  Spec => []EveryTamperingFound
  <1>1. ASSUME WorkInv PROVE EveryTamperingFound
    <2> DEFINE internal == settlement_expectations
               idle == (TransferIds \cup ReturnIds) \ {row.payment_id : row \in internal}
    <2>1. ASSUME IdentifiersApart,
                 NEW fates \in [internal -> Fate], NEW unexpected \in SUBSET idle,
                 NEW report, report = ReportOf(internal, fates, unexpected),
                 NEW items, items = reconcile(internal, report)
          PROVE  /\ Said(internal, fates, unexpected, items)
                 /\ Exceptions(items) = {} =>
                      \A direction \in {OUTBOUND, RETURN} :
                        ExternalTotal(report, direction)
                          = InternalTotal(internal, direction)
      <3>1. Reconcilable(internal, fates, unexpected)
        <4>1. IsFiniteSet(TransferIds \cup ReturnIds)
          BY FS_Union DEF FiniteWorkflows
        <4>2. unexpected \in SUBSET (TransferIds \cup ReturnIds) /\ IsFiniteSet(unexpected)
          BY <4>1, FS_Subset
        <4> QED BY <1>1, <2>1, <4>2, RecordsFinite DEF Reconcilable, WorkflowIds
      <3>2. OwnIdentifiers(internal, unexpected)
        BY <2>1 DEF IdentifiersApart, OwnIdentifiers, Ids
      <3> HIDE DEF internal, idle
      <3>3. LaidOut(internal, fates, unexpected, report)
        BY <2>1, <3>1, <3>2, ReportLaidOut
      <3>4. Said(internal, fates, unexpected, items)
        BY <2>1, <3>1, <3>2, <3>3, EveryFateSaid
      <3>5. ASSUME Exceptions(items) = {}, NEW direction
            PROVE  ExternalTotal(report, direction) = InternalTotal(internal, direction)
        <4>1. (\A row \in internal : fates[row] = MATCHED) /\ unexpected = {}
          BY <3>4, <3>5, CleanIsMatched
        <4> QED BY <3>1, <3>2, <3>3, <4>1, MatchedTotals
      <3> QED BY <3>4, <3>5
    <2>2. ASSUME IdentifiersApart,
                 NEW fates \in [internal -> Fate], NEW unexpected \in SUBSET idle
          PROVE  LET report == ReportOf(internal, fates, unexpected)
                     items == reconcile(internal, report)
                 IN  /\ Said(internal, fates, unexpected, items)
                     /\ Exceptions(items) = {} =>
                          \A direction \in {OUTBOUND, RETURN} :
                            ExternalTotal(report, direction)
                              = InternalTotal(internal, direction)
      BY <2>1, <2>2
    <2> QED BY Zenon, <2>2 DEF EveryTamperingFound, Said, UNEXPECTED
  <1> QED BY <1>1, Invariant, PTL DEF Inv

\* A report that repeats the expectations is clean exactly when no completed return
\* has the identifier of a completed transfer (the keys of reconcile's dictionaries).
THEOREM CleanIffApart ==
  ASSUME FiniteWorkflows
  PROVE  Spec => []CleanIffIdentifiersApart
  <1>1. ASSUME WorkInv PROVE CleanIffIdentifiersApart
    <2>1. PICK internal, fates, report, items :
            /\ internal = settlement_expectations
            /\ fates = [row \in internal |-> MATCHED]
            /\ report = ReportOf(internal, fates, {})
            /\ items = reconcile(internal, report)
      OBVIOUS
    <2>2. items = reconcile(settlement_expectations, HonestReport(settlement_expectations))
      BY <2>1 DEF HonestReport, MATCHED
    <2>3. /\ Reconcilable(internal, fates, {})
          /\ internal \in SUBSET AnyRow /\ IsFiniteSet(internal)
      <3>1. internal \in SUBSET AnyRow /\ IsFiniteSet(internal)
        BY <1>1, <2>1, RecordsFinite
      <3>2. fates \in [internal -> Fate]
        BY <2>1, FateNames
      <3> QED BY <3>1, <3>2, FS_EmptySet DEF Reconcilable
    <2>4. ASSUME IdentifiersApart PROVE Exceptions(items) = {}
      <3>1. OwnIdentifiers(internal, {})
        BY <2>1, <2>4 DEF IdentifiersApart, OwnIdentifiers
      <3>2. LaidOut(internal, fates, {}, report)
        BY <2>1, <2>3, <3>1, ReportLaidOut
      <3>3. Said(internal, fates, {}, items)
        BY <2>1, <2>3, <3>1, <3>2, EveryFateSaid
      <3>4. \A row \in internal : fates[row] = MATCHED
        BY <2>1
      <3> QED BY <3>3, <3>4, CleanIsMatched
    <2>5. ASSUME NEW x \in internal, NEW y \in internal, x.payment_id = y.payment_id, x # y
          PROVE  Exceptions(items) # {}
      <3>1. PICK id, places : id = x.payment_id /\ places = PlacesIn(report, id)
        OBVIOUS
      <3>2. /\ \E i \in places : report[i] = x
            /\ \E i \in places : report[i] = y
            /\ IsFiniteSet(places)
        BY <2>1, <2>3, <2>5, <3>1, HonestHolds
      <3>3. ~(Cardinality(places) <= 1)
        BY <2>5, <3>2, AtMostOne
      <3>4. places # {} /\ Cardinality(places) > 1 /\ ~(Cardinality(places) = 1)
        BY <3>2, <3>3, FS_CardinalityType
      <3>5. PICK e : e \in Expected(internal, id)
        BY <2>5, <3>1 DEF Expected
      <3>6. Classified(e, report, places) = DOUBLED
        BY <3>4, ClassifiedEach
      <3>7. ItemsFor(internal, report, id)
              = {Item(id, Classified(row, report, places), row.direction, row.amount,
                      Amount(report, places), places) : row \in Expected(internal, id)}
        BY <3>1, <3>5, ItemsForEach
      <3> DEFINE item == Item(id, Classified(e, report, places), e.direction, e.amount,
                              Amount(report, places), places)
      <3>8. item \in ItemsFor(internal, report, id)
        BY <3>5, <3>7
      <3>9. item.status = DOUBLED
        BY <3>6, ItemStatus
      <3> HIDE DEF item
      <3>10. item \in items
        BY <2>1, <3>1, <3>8, ReconcileItems DEF Ids
      <3>11. item.status # "Matched"
        BY <3>9, FateNames DEF MATCHED
      <3> QED BY <3>10, <3>11 DEF Exceptions
    <2>6. ASSUME Exceptions(items) = {} PROVE IdentifiersApart
      BY <2>1, <2>5, <2>6 DEF IdentifiersApart
    <2> QED BY <2>2, <2>4, <2>6 DEF CleanIffIdentifiersApart
  <1> QED BY <1>1, Invariant, PTL DEF Inv
=============================================================================
