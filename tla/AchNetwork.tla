----------------------------- MODULE AchNetwork -----------------------------
(***************************************************************************)
(* Outbound ACH transfers and their returns (bank_sim/ach.py,              *)
(* bank_sim/ach_returns.py) on a shared scheduler and a shared ledger.     *)
(*                                                                         *)
(* A step is one call from outside (a request, a return request, an        *)
(* operator calling a public stage method out of turn, the clock moved by  *)
(* its owner) or one run_next, whose callback is a whole handler.  A       *)
(* handler that raises keeps what it had changed before it raised.  The    *)
(* per-workflow event lists and texts are left out.                        *)
(***************************************************************************)
EXTENDS Integers, Sequences, FiniteSets, FiniteSetsExt

CONSTANTS TransferIds,     \* identifiers of outbound transfers
          ReturnIds,       \* identifiers of returns
          AccountIds,      \* local accounts
          Requests,        \* transfer requests, records of TransferRequest
          ReturnRequests,  \* return requests, records of ReturnRequest
          OpeningEntries,  \* the ledger that the network is given
          OtherEntryIds,   \* identifiers of entries that others record
          ReceiveBy,       \* the latest time at which receive is called
          JumpTimes,       \* times that code outside moves the clock to
          JumpWhileQueued, \* whether it does so while events are queued
          DirectIds,       \* workflows whose public stage methods are called directly
          None,            \* Python's None
          MaxTime,         \* bound: no return is received that ends later
          MaxEvents        \* bound: events ever scheduled, never reached

\* valid: _invalid_reason finds nothing wrong with the texts and the amount.
\* described: PendingTransaction and LedgerEntry accept the description, which is
\* not the case of whitespace; an empty one is replaced.
TransferRequest == [source : AccountIds, amount : Nat \ {0}, valid : BOOLEAN,
                    described : BOOLEAN]
ReturnRequest == [original : TransferIds, amount : Nat \ {0}, valid : BOOLEAN]

ASSUME AchInputs == /\ None \notin ReturnIds /\ None \notin ReturnRequests
                    /\ Requests \subseteq TransferRequest
                    /\ ReturnRequests \subseteq ReturnRequest
                    /\ ReceiveBy \in Nat
                    /\ JumpTimes \subseteq Nat
                    /\ JumpWhileQueued \in BOOLEAN
                    /\ DirectIds \subseteq TransferIds \cup ReturnIds
                    /\ MaxTime \in Nat /\ MaxEvents \in Nat

VARIABLES clock, queue, nextOrder, history, lost, jumped,  \* the scheduler
          entries,        \* the ledger
          status,         \* status[t]: AchTransfer.status, Unknown before receive
          request,        \* request[t]: AchTransfer.request
          pending,        \* AchNetwork.pending, the holds
          submissions,    \* AchNetwork.submissions
          returnStatus,   \* returnStatus[r]: AchReturn.status
          returnRequest,  \* returnRequest[r]: AchReturn.request
          returnOf        \* AchReturnProcessor._returns_by_transfer

schedVars == <<clock, queue, nextOrder, history, lost, jumped>>
transferVars == <<status, request, pending, submissions>>
returnVars == <<returnStatus, returnRequest, returnOf>>
vars == <<schedVars, entries, transferVars, returnVars>>

TransferStage == {"validate", "mark_pending", "submit", "process", "complete"}
ReturnStage == {"validate_return", "process_return", "complete_return"}
Callback == [op : TransferStage, id : TransferIds]
              \cup [op : ReturnStage, id : ReturnIds]

Sched == INSTANCE EventScheduler WITH
           Callbacks <- Callback, MaxPush <- 1

EntryIds == (TransferIds \X {"DEBIT"}) \cup (ReturnIds \X {"CREDIT"})
              \cup OtherEntryIds

L == INSTANCE Ledger WITH MaxAmount <- 1, MaxPosting <- MaxTime,
                          MaxEntries <- MaxEvents

\* The ledger is one that Ledger's operations built, and what others record in
\* it does not use the identifiers of this network's transfers and returns.
ASSUME OpeningLedger == /\ OpeningEntries \in Seq(L!Entry)
                        /\ L!Canonical(OpeningEntries)
                        /\ L!UniqueIds(OpeningEntries)
                        /\ L!Ids(OpeningEntries) \subseteq OtherEntryIds
                        /\ OtherEntryIds \cap (TransferIds \X {"DEBIT"}) = {}
                        /\ OtherEntryIds \cap (ReturnIds \X {"CREDIT"}) = {}
-----------------------------------------------------------------------------
(***************************************************************************)
(* Workflow states (_ALLOWED_TRANSITIONS of both files).                   *)
(***************************************************************************)
TransferStatus == {"Unknown", "Received", "Validated", "Pending", "Submitted",
                   "Processing", "Completed", "Rejected"}
ReturnStatus == {"Unknown", "Received", "Validated", "Processing", "Completed",
                 "Rejected"}

AllowedTransitions ==
  [Unknown |-> {}, Received |-> {"Validated", "Rejected"},
   Validated |-> {"Pending"}, Pending |-> {"Submitted"},
   Submitted |-> {"Processing"}, Processing |-> {"Completed"},
   Completed |-> {}, Rejected |-> {}]

AllowedReturnTransitions ==
  [Unknown |-> {}, Received |-> {"Validated", "Rejected"},
   Validated |-> {"Processing"}, Processing |-> {"Completed"},
   Completed |-> {}, Rejected |-> {}]

Target == [mark_pending |-> "Pending", submit |-> "Submitted",
           process |-> "Processing", complete |-> "Completed",
           process_return |-> "Processing", complete_return |-> "Completed"]

\* AchTransfer.transition and AchReturn.transition do not raise.
CanMove(t, to) == to \in AllowedTransitions[status[t]]
CanMoveReturn(r, to) == to \in AllowedReturnTransitions[returnStatus[r]]

Init == /\ Sched!Init /\ clock = 0
        /\ entries = OpeningEntries
        /\ status = [t \in TransferIds |-> "Unknown"]
        /\ request = [t \in TransferIds |-> None]
        /\ pending = <<>>
        /\ submissions = <<>>
        /\ returnStatus = [r \in ReturnIds |-> "Unknown"]
        /\ returnRequest = [r \in ReturnIds |-> None]
        /\ returnOf = [t \in TransferIds |-> None]
-----------------------------------------------------------------------------
(***************************************************************************)
(* What the handlers read and build.                                       *)
(***************************************************************************)
Held(holds) == SumFunction([i \in DOMAIN holds |-> holds[i].amount])

\* available_balance: every hold counts, whatever its account.
AvailableBalance(account) == L!AccountBalance(entries, account) - Held(pending)

\* _validate finds no reason to reject.
Acceptable(t) == /\ request[t].valid
                 /\ request[t].amount <= AvailableBalance(request[t].source)

\* Seeded bug: a transfer may be returned before it has completed.
AcceptableReturnTooEarly(r) ==
  LET asked == returnRequest[r] IN
  /\ asked.valid
  /\ status[asked.original] # "Unknown"
  /\ asked.amount = request[asked.original].amount
  /\ returnOf[asked.original] = None

\* AchReturnProcessor._invalid_reason finds no reason to reject.
AcceptableReturn(r) ==
  LET asked == returnRequest[r] IN
  /\ asked.valid
  /\ status[asked.original] = "Completed"
  /\ asked.amount = request[asked.original].amount
  /\ returnOf[asked.original] = None

Entry(id, account, amount, type, time) ==
  [entry_id |-> id, account_id |-> account, amount |-> amount,
   entry_type |-> type, sequence |-> Len(entries) + 1, posted_at |-> time]

DebitEntry(t) == Entry(<<t, "DEBIT">>, request[t].source, request[t].amount,
                       L!DEBIT, 10)

\* Seeded bug: the correcting entry reuses the identifier of the debit it corrects.
CreditEntrySameId(r, now) ==
  LET asked == returnRequest[r] IN
  Entry(<<asked.original, "DEBIT">>, request[asked.original].source, asked.amount,
        L!CREDIT, now)

CreditEntry(r, now) ==
  LET asked == returnRequest[r] IN
  Entry(<<r, "CREDIT">>, request[asked.original].source, asked.amount,
        L!CREDIT, now)

\* The ledger after an append that may raise.
Recorded(e) == IF L!Accepts(entries, e) THEN Append(entries, e) ELSE entries
-----------------------------------------------------------------------------
(***************************************************************************)
(* The handlers' effects on the workflows and the ledger.  A refused       *)
(* transition raises before it changes anything.                           *)
(***************************************************************************)
MoveTo(t, to) == status' = [status EXCEPT ![t] = to]
MoveReturnTo(r, to) == returnStatus' = [returnStatus EXCEPT ![r] = to]

_validate(t) ==
  /\ CanMove(t, "Validated")
  /\ MoveTo(t, IF Acceptable(t) THEN "Validated" ELSE "Rejected")
  /\ UNCHANGED <<entries, request, pending, submissions, returnVars>>

\* The status moves before the hold is built, which may raise.
_mark_pending(t) ==
  /\ CanMove(t, "Pending")
  /\ MoveTo(t, "Pending")
  /\ pending' = IF request[t].described
                THEN Append(pending, [transaction_id |-> t,
                                      amount |-> request[t].amount,
                                      sequence |-> Len(pending) + 1])
                ELSE pending
  /\ UNCHANGED <<entries, request, submissions, returnVars>>

submit(t) ==
  /\ CanMove(t, "Submitted")
  /\ MoveTo(t, "Submitted")
  /\ submissions' = Append(submissions, t)
  /\ UNCHANGED <<entries, request, pending, returnVars>>

process(t) ==
  /\ CanMove(t, "Processing")
  /\ MoveTo(t, "Processing")
  /\ UNCHANGED <<entries, request, pending, submissions, returnVars>>

\* Seeded bug: the oldest hold is cleared.
completeClearsOldest(t) ==
  /\ CanMove(t, "Completed")
  /\ MoveTo(t, "Completed")
  /\ pending' = SubSeq(pending, 2, Len(pending))
  /\ entries' = IF request[t].described THEN Recorded(DebitEntry(t)) ELSE entries
  /\ UNCHANGED <<request, submissions, returnVars>>

\* The holds that complete keeps: those of the other transfers, in their order.
HoldsWithout(t) ==
  LET kept[n \in 0..Len(pending)] ==
        IF n = 0 THEN <<>>
        ELSE IF pending[n].transaction_id # t THEN Append(kept[n - 1], pending[n])
        ELSE kept[n - 1]
  IN  kept[Len(pending)]

\* The status moves and the hold is cleared before the entry is built and the
\* ledger may refuse it.
complete(t) ==
  /\ CanMove(t, "Completed")
  /\ MoveTo(t, "Completed")
  /\ pending' = HoldsWithout(t)
  /\ entries' = IF request[t].described THEN Recorded(DebitEntry(t)) ELSE entries
  /\ UNCHANGED <<request, submissions, returnVars>>

\* Seeded bug: the return is not registered for its transfer.
validate_returnUnregistered(r) ==
  /\ CanMoveReturn(r, "Validated")
  /\ MoveReturnTo(r, IF AcceptableReturn(r) THEN "Validated" ELSE "Rejected")
  /\ UNCHANGED <<entries, returnRequest, returnOf, transferVars>>

validate_return(r) ==
  /\ CanMoveReturn(r, "Validated")
  /\ IF AcceptableReturn(r)
     THEN /\ MoveReturnTo(r, "Validated")
          /\ returnOf' = [returnOf EXCEPT ![returnRequest[r].original] = r]
     ELSE /\ MoveReturnTo(r, "Rejected")
          /\ UNCHANGED returnOf
  /\ UNCHANGED <<entries, returnRequest, transferVars>>

process_return(r) ==
  /\ CanMoveReturn(r, "Processing")
  /\ MoveReturnTo(r, "Processing")
  /\ UNCHANGED <<entries, returnRequest, returnOf, transferVars>>

complete_return(r, now) ==
  /\ CanMoveReturn(r, "Completed")
  /\ MoveReturnTo(r, "Completed")
  /\ entries' = Recorded(CreditEntry(r, now))
  /\ UNCHANGED <<returnRequest, returnOf, transferVars>>

Handler(call, now) ==
  \/ call.op = "validate" /\ _validate(call.id)
  \/ call.op = "mark_pending" /\ _mark_pending(call.id)
  \/ call.op = "submit" /\ submit(call.id)
  \/ call.op = "process" /\ process(call.id)
  \/ call.op = "complete" /\ complete(call.id)
  \/ call.op = "validate_return" /\ validate_return(call.id)
  \/ call.op = "process_return" /\ process_return(call.id)
  \/ call.op = "complete_return" /\ complete_return(call.id, now)
-----------------------------------------------------------------------------
(***************************************************************************)
(* How a handler ends: what it schedules and whether it raises.            *)
(***************************************************************************)
\* The handler's guarded transition is allowed.
Enters(call) ==
  CASE call.op = "validate" -> CanMove(call.id, "Validated")
    [] call.op = "validate_return" -> CanMoveReturn(call.id, "Validated")
    [] call.op \in TransferStage \ {"validate"} ->
         CanMove(call.id, Target[call.op])
    [] OTHER -> CanMoveReturn(call.id, Target[call.op])

\* Seeded bug: a return's completion is not scheduled.
ContinuesNotToReturn(call) ==
  /\ Enters(call)
  /\ call.op = "validate" => Acceptable(call.id)
  /\ call.op = "mark_pending" => request[call.id].described
  /\ call.op = "validate_return" => AcceptableReturn(call.id)
  /\ call.op \notin {"complete", "process_return", "complete_return"}

\* The handler gets as far as scheduling the next stage.
Continues(call) ==
  /\ Enters(call)
  /\ call.op = "validate" => Acceptable(call.id)
  /\ call.op = "mark_pending" => request[call.id].described
  /\ call.op = "validate_return" => AcceptableReturn(call.id)
  /\ call.op \notin {"complete", "complete_return"}

\* Seeded bug: a submitted transfer's next event is its completion.
NextStageSkips(call, now) ==
  LET at(time, op) == [time |-> time, callback |-> [op |-> op, id |-> call.id]]
  IN CASE call.op = "validate" -> at(2, "mark_pending")
       [] call.op = "mark_pending" -> at(3, "submit")
       [] call.op = "submit" -> at(10, "complete")
       [] call.op = "process" -> at(10, "complete")
       [] call.op = "validate_return" -> at(now + 1, "process_return")
       [] call.op = "process_return" -> at(now + 3, "complete_return")

\* Transfers move at fixed times, returns after fixed delays.
NextStage(call, now) ==
  LET at(time, op) == [time |-> time, callback |-> [op |-> op, id |-> call.id]]
  IN CASE call.op = "validate" -> at(2, "mark_pending")
       [] call.op = "mark_pending" -> at(3, "submit")
       [] call.op = "submit" -> at(5, "process")
       [] call.op = "process" -> at(10, "complete")
       [] call.op = "validate_return" -> at(now + 1, "process_return")
       [] call.op = "process_return" -> at(now + 3, "complete_return")

\* schedule_at refuses a stage that is already in the past.
Pushes(call, now) ==
  IF Continues(call) /\ NextStage(call, now).time >= now
  THEN <<NextStage(call, now)>>
  ELSE <<>>

Returns(call, now) ==
  /\ Enters(call)
  /\ Continues(call) => NextStage(call, now).time >= now
  /\ call.op \in {"mark_pending", "complete"} => request[call.id].described
  /\ call.op = "complete" => L!Accepts(entries, DebitEntry(call.id))
  /\ call.op = "complete_return" =>
       L!Accepts(entries, CreditEntry(call.id, now))
-----------------------------------------------------------------------------
(***************************************************************************)
(* Steps.                                                                  *)
(***************************************************************************)
\* Seeded bug: a validation that is already overdue is scheduled all the same.
receiveOverdue(t, asked) ==
  /\ status[t] = "Unknown"
  /\ clock <= ReceiveBy
  /\ MoveTo(t, "Received")
  /\ request' = [request EXCEPT ![t] = asked]
  /\ queue' = queue \cup Sched!Pushed(<<[time |-> 1,
                             callback |-> [op |-> "validate", id |-> t]]>>)
  /\ nextOrder' = nextOrder + 1
  /\ UNCHANGED <<clock, history, lost, jumped, entries, pending, submissions, returnVars>>

\* AchNetwork.receive.  The transfer is registered before schedule_at can
\* refuse its validation.
receive(t, asked) ==
  /\ status[t] = "Unknown"
  /\ clock <= ReceiveBy
  /\ MoveTo(t, "Received")
  /\ request' = [request EXCEPT ![t] = asked]
  /\ IF clock <= 1
     THEN Sched!ScheduleAt(1, [op |-> "validate", id |-> t])
     ELSE UNCHANGED schedVars
  /\ UNCHANGED <<entries, pending, submissions, returnVars>>

\* AchReturnProcessor.receive; a repeated identifier changes nothing.
receive_return(r, asked) ==
  /\ returnStatus[r] = "Unknown"
  /\ clock + 5 <= MaxTime
  /\ MoveReturnTo(r, "Received")
  /\ returnRequest' = [returnRequest EXCEPT ![r] = asked]
  /\ Sched!ScheduleAt(clock + 1, [op |-> "validate_return", id |-> r])
  /\ UNCHANGED <<entries, returnOf, transferVars>>

\* run_next.
RunNext ==
  \E e \in queue :
    \/ /\ Sched!RunEvent(e, Pushes(e.callback, e.time),
                            Returns(e.callback, e.time))
       /\ IF Enters(e.callback)
          THEN Handler(e.callback, e.time)
          ELSE UNCHANGED <<entries, transferVars, returnVars>>
    \/ /\ Sched!DropOverdue(e)
       /\ UNCHANGED <<entries, transferVars, returnVars>>

PublicCall == [op : {"submit", "process", "complete"}, id : TransferIds]
                \cup [op : ReturnStage, id : ReturnIds]

\* A public stage method called directly, before or after its turn.
CallStage(call) ==
  LET pushes == Pushes(call, clock)
  IN /\ call.id \in DirectIds
     /\ Enters(call)
     /\ Handler(call, clock)
     /\ IF pushes = <<>>
        THEN UNCHANGED schedVars
        ELSE Sched!ScheduleAt(pushes[1].time, pushes[1].callback)

\* AchTransfer.reject called directly.
reject(t) ==
  /\ t \in DirectIds
  /\ CanMove(t, "Rejected")
  /\ MoveTo(t, "Rejected")
  /\ UNCHANGED <<schedVars, entries, request, pending, submissions, returnVars>>

\* AchReturn.reject called directly.
reject_return(r) ==
  /\ r \in DirectIds
  /\ CanMoveReturn(r, "Rejected")
  /\ MoveReturnTo(r, "Rejected")
  /\ UNCHANGED <<schedVars, entries, returnRequest, returnOf, transferVars>>

\* The owner of the clock moves it, as Chapter 9 does between its two runs.
Jump(time) ==
  /\ JumpWhileQueued \/ queue = {}
  /\ Sched!AdvanceTo(time)
  /\ UNCHANGED <<entries, transferVars, returnVars>>

Next == \/ RunNext
        \/ \E t \in TransferIds, asked \in Requests : receive(t, asked)
        \/ \E r \in ReturnIds, asked \in ReturnRequests : receive_return(r, asked)
        \/ \E call \in PublicCall : CallStage(call)
        \/ \E t \in TransferIds : reject(t)
        \/ \E r \in ReturnIds : reject_return(r)
        \/ \E time \in JumpTimes : Jump(time)

Spec == Init /\ [][Next]_vars

\* EventScheduler.run keeps calling run_next while an event is queued.
FairSpec == Spec /\ WF_vars(RunNext)
-----------------------------------------------------------------------------
(***************************************************************************)
(* Properties that hold whatever the callers do.                           *)
(***************************************************************************)
Hold == [transaction_id : TransferIds, amount : Nat \ {0}, sequence : Nat \ {0}]

\* The type invariant of the network, with its ledger and scheduler.
TypeOK == /\ Sched!TypeOK
          /\ L!LedgerType
          /\ status \in [TransferIds -> TransferStatus]
          /\ request \in [TransferIds -> Requests \cup {None}]
          /\ pending \in Seq(Hold)
          /\ submissions \in Seq(TransferIds)
          /\ returnStatus \in [ReturnIds -> ReturnStatus]
          /\ returnRequest \in [ReturnIds -> ReturnRequests \cup {None}]
          /\ returnOf \in [TransferIds -> ReturnIds \cup {None}]

InFlight == {"Pending", "Submitted", "Processing"}
Occurrences(t, seq) == {i \in DOMAIN seq : seq[i] = t}
HoldsOf(t) == {i \in DOMAIN pending : pending[i].transaction_id = t}
DebitsOf(t) == {i \in DOMAIN entries : entries[i].entry_id = <<t, "DEBIT">>}
CreditOf(r) == {i \in DOMAIN entries : entries[i].entry_id = <<r, "CREDIT">>}
CreditsFor(t) ==
  UNION {CreditOf(r) : r \in {q \in ReturnIds : /\ returnRequest[q] # None
                                                /\ returnRequest[q].original = t}}

\* Whatever is called out of turn, and whichever append is refused, a transfer has
\* exactly one hold, of its own amount, from Pending until it completes and none
\* before or after, and is handed to the ACH network exactly once, from Submitted
\* on (_mark_pending, submit and complete, called directly and by the scheduler).
\* The exception is a transfer whose description is refused: it never has a hold.
HeldAndSubmittedOnce ==
  \A t \in TransferIds :
    /\ IF status[t] \in InFlight /\ request[t].described
       THEN \E i \in DOMAIN pending : /\ HoldsOf(t) = {i}
                                      /\ pending[i].amount = request[t].amount
       ELSE HoldsOf(t) = {}
    /\ Cardinality(Occurrences(t, submissions)) <= 1
    /\ Occurrences(t, submissions) # {} <=>
         status[t] \in {"Submitted", "Processing", "Completed"}

\* Money leaves an account only for a completed transfer, and once, even when
\* complete is called again or out of turn; and however many returns are requested
\* for it, and whatever the order in which they are validated, at most one gets
\* past validation, and the one credit that is posted is that one's
\* (the guarded transitions and AchReturnProcessor._returns_by_transfer).
MoneyMovesOnce ==
  \A t \in TransferIds :
    LET accepted == {r \in ReturnIds :
                       /\ returnStatus[r] \in {"Validated", "Processing", "Completed"}
                       /\ returnRequest[r].original = t}
    IN  /\ Cardinality(DebitsOf(t)) <= 1
        /\ DebitsOf(t) # {} => status[t] = "Completed"
        /\ Cardinality(accepted) <= 1
        /\ accepted # {} => status[t] = "Completed"
        /\ Cardinality(CreditsFor(t)) <= 1
        /\ \A c \in CreditsFor(t) : \E r \in accepted :
             returnStatus[r] = "Completed" /\ c \in CreditOf(r)

\* The money of a completed workflow moves in the step that completes it or never,
\* and there are two reasons for never: the description is refused, or the ledger
\* already holds a later entry than the one that would be posted.  No collision of
\* identifiers and no sequence number of a rival loses it (both complete methods,
\* which change the status before the append that may be refused).
MoneyMovesAtCompletion ==
  [][/\ \A t \in TransferIds :
          /\ status[t] # "Completed" /\ status'[t] = "Completed" =>
               \/ Cardinality(DebitsOf(t)') = 1
               \/ ~request[t].described
               \/ L!LastPosted(entries) > 10
          /\ status[t] = "Completed" =>
               status'[t] = "Completed" /\ DebitsOf(t)' = DebitsOf(t)
     /\ \A r \in ReturnIds :
          /\ returnStatus[r] # "Completed" /\ returnStatus'[r] = "Completed" =>
               Cardinality(CreditOf(r)') = 1 \/ L!LastPosted(entries) > clock'
          /\ returnStatus[r] = "Completed" =>
               returnStatus'[r] = "Completed" /\ CreditOf(r)' = CreditOf(r)]_vars

\* The network moves the shared clock and heap only as the scheduler allows.
SchedulerContract == Sched!Contract

\* The network changes the shared ledger only by appends that the ledger accepts.
LedgerContract == L!LedgerContract
-----------------------------------------------------------------------------
(***************************************************************************)
(* Properties of the documented use: requests are received before their    *)
(* validation is due, the clock is moved by hand only when no event is     *)
(* queued, and stages are run by the scheduler.                            *)
(***************************************************************************)
\* A transfer is debited exactly when it is completed, and a return credited
\* exactly when it is completed, after the debit it corrects and on the same
\* account with the same amount (both complete methods).
EffectsMatchStatus ==
  /\ \A t \in TransferIds : DebitsOf(t) # {} <=> status[t] = "Completed"
  /\ \A r \in ReturnIds : CreditOf(r) # {} <=> returnStatus[r] = "Completed"
  /\ \A t \in TransferIds : \A c \in CreditsFor(t) : \E d \in DebitsOf(t) :
       /\ d < c
       /\ entries[d].amount = entries[c].amount
       /\ entries[d].account_id = entries[c].account_id

NextOp == [Received |-> "validate", Validated |-> "mark_pending",
           Pending |-> "submit", Submitted |-> "process",
           Processing |-> "complete"]

EventsFor(t) == {e \in queue : e.callback.op \in TransferStage
                               /\ e.callback.id = t}

\* The hold of a Pending transfer could not be built: _mark_pending has raised
\* before it scheduled the next stage, and nothing does so later.
Stranded(t) == status[t] = "Pending" /\ ~request[t].described

\* No transfer is driven twice, and only one whose description is refused is
\* stranded, while it is Pending: any other unfinished transfer has exactly one
\* queued event, that of its next stage and not overdue, and a finished one has
\* none (each handler schedules its successor unless it raises).
OneEventPerUnfinishedTransfer ==
  \A t \in TransferIds :
    IF status[t] \in DOMAIN NextOp /\ ~Stranded(t)
    THEN \E e \in queue : /\ EventsFor(t) = {e}
                          /\ e.callback.op = NextOp[status[t]]
                          /\ e.time >= clock
    ELSE EventsFor(t) = {}

Outcome(t) == CASE CreditsFor(t) # {} -> "restored"
                [] CreditsFor(t) = {} /\ DebitsOf(t) # {} -> "debited"
                [] DebitsOf(t) = {} /\ status[t] = "Rejected" -> "refused"
                [] OTHER -> "open"

\* What the ledger says t has taken from accounts.
Moved(t) ==
  0 - SumFunction([i \in DebitsOf(t) \cup CreditsFor(t) |-> L!Signed(entries[i])])

Promise ==
  INSTANCE PaymentPromise WITH
    Payments <- TransferIds,
    Amount <- {asked.amount : asked \in Requests},
    outcome <- [t \in TransferIds |-> Outcome(t)],
    moved <- [t \in TransferIds |-> Moved(t)]

\* Transfers and returns together implement the abstract payment: refused
\* without effect, or debited once and restored in full at most once.
KeepsPromise == Promise!Spec

\* The scheduler's run finishes every workflow, whatever the others do: a transfer
\* that is received is completed or rejected, or stranded for ever by its
\* description, and a return is completed or rejected.
EveryWorkflowFinishes ==
  /\ \A t \in TransferIds :
       status[t] = "Received" ~>
         status[t] \in {"Completed", "Rejected"} \/ [](Stranded(t))
  /\ \A r \in ReturnIds :
       returnStatus[r] = "Received" ~> returnStatus[r] \in {"Completed", "Rejected"}
-----------------------------------------------------------------------------
(***************************************************************************)
(* Statements of the documentation that the code does not keep.            *)
(***************************************************************************)
\* The same available funds are not promised twice: what is held for the
\* transfers of an account never exceeds its balance (Chapter 8, Engineering
\* lesson).
FundsPromisedOnce ==
  \A a \in AccountIds :
    SumFunction([i \in {j \in DOMAIN pending :
                          request[pending[j].transaction_id].source = a} |->
                   pending[i].amount])
      <= L!AccountBalance(entries, a)

\* From Pending on a transfer's funds are held (Chapter 8, Pending versus posted
\* financial effects).
PendingHasHold ==
  \A t \in TransferIds : status[t] = "Pending" => HoldsOf(t) # {}

\* Completion appends exactly one debit (docstring of AchNetwork.complete).
CompletedHasDebit ==
  \A t \in TransferIds :
    status[t] = "Completed" => Cardinality(DebitsOf(t)) = 1
=============================================================================
