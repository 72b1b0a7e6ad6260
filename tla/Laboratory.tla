----------------------------- MODULE Laboratory -----------------------------
(***************************************************************************)
(* The end-to-end laboratory (bank_sim/laboratory.py): payments of both    *)
(* retry processors whose work posts on one shared ledger, directly        *)
(* (post), through the idempotent processor (payment_c, payment_f) or      *)
(* through the ordered event processor (payment D), next to a duplicate    *)
(* that is put on the queue without a retry processor.                     *)
(*                                                                         *)
(* The identifier of a payment decides its work, and a work raises exactly *)
(* when the ledger refuses its entry.  Amounts are one, and the report     *)
(* built from the final state is left out, except that it needs the debit  *)
(* of every completed payment.                                             *)
(***************************************************************************)
EXTENDS PaymentRetries

CONSTANTS Works,        \* the works that identifiers may have: functions from
                        \* PaymentIds to LabWork, one of which a run has
          DuplicateId   \* the payment whose duplicate is enqueued directly

VARIABLES works,        \* the work of each identifier in this run
          ledger,       \* Ledger._entries
          keys,         \* the identifiers whose key is in IdempotencyStore
          ordered,      \* the identifiers whose completion event is processed
          refusals      \* auxiliary: when each item's work raised, and how many
                        \* entries the ledger had

labVars == <<works, ledger, keys, ordered, refusals>>
allVars == <<vars, labVars>>

\* at: the fixed posting time, arrived_at + 1 or the completion's arrival order.
LabWork == [kind : {"post"}] \cup [kind : {"keyed", "ordered"}, at : Nat]

ASSUME LaboratoryInputs == /\ Works \subseteq [PaymentIds -> LabWork]
                           /\ DuplicateId \in PaymentIds

L == INSTANCE Ledger WITH
       entries <- ledger, AccountIds <- {"HCCU-DEMO-001"},
       EntryIds <- PaymentIds \X {"OPEN", "DEBIT", "SETTLEMENT"},
       MaxAmount <- 1, MaxPosting <- MaxTime, MaxEntries <- MaxEvents

OpenEntry == [entry_id |-> <<DuplicateId, "OPEN">>, account_id |-> "HCCU-DEMO-001",
              amount |-> 1, entry_type |-> "Credit", sequence |-> 1,
              posted_at |-> 0]

LabInit == /\ Init
           /\ works \in Works
           /\ ledger = <<OpenEntry>>
           /\ keys = {}
           /\ ordered = {}
           /\ refusals = {}
-----------------------------------------------------------------------------
(***************************************************************************)
(* The works.  The state s of a tick, which PaymentRetries passes from     *)
(* attempt to attempt, has the further fields ledger, keys, ordered,       *)
(* raised, whether some work has raised, and ran, the works that ran.      *)
(***************************************************************************)
\* Seeded bug: the sequence is read once, when the tick starts.
DebitStaleSequence(s, id, suffix, time) ==
  [entry_id |-> <<id, suffix>>, account_id |-> "HCCU-DEMO-001", amount |-> 1,
   entry_type |-> "Debit", sequence |-> Len(ledger) + 1, posted_at |-> time]

Debit(s, id, suffix, time) ==
  [entry_id |-> <<id, suffix>>, account_id |-> "HCCU-DEMO-001", amount |-> 1,
   entry_type |-> "Debit", sequence |-> Len(s.ledger) + 1, posted_at |-> time]

\* The state after an append that may raise.
Posted(s, e) == IF L!Accepts(s.ledger, e)
                THEN [s EXCEPT !.ledger = Append(@, e)]
                ELSE [s EXCEPT !.raised = TRUE]

\* post.
Post(s, id, now) == Posted(s, Debit(s, id, "DEBIT", now))

\* Seeded bug: the key is remembered before the append that may raise.
ProcessRemembersFirst(s, id, at) ==
  IF id \in s.keys
  THEN s
  ELSE Posted([s EXCEPT !.keys = @ \cup {id}], Debit(s, id, "DEBIT", at))

\* IdempotentPaymentProcessor.process: later deliveries of payment_f find the key.
Process(s, id, at) ==
  LET after == Posted(s, Debit(s, id, "DEBIT", at)) IN
  IF id \in s.keys THEN s
  ELSE IF after.raised THEN after
  ELSE [after EXCEPT !.keys = @ \cup {id}]

\* OrderedEventProcessor.receive of all the events of payment D: the completion
\* is recorded before the settlement is appended, and is a duplicate from then on.
ReceiveAll(s, id, at) ==
  IF id \in s.ordered
  THEN s
  ELSE Posted([s EXCEPT !.ordered = @ \cup {id}], Debit(s, id, "SETTLEMENT", at))

\* The work of id is called at time now.
Worked(s, id, now) ==
  CASE works[id].kind = "post" -> Post(s, id, now)
    [] works[id].kind = "keyed" -> Process(s, id, works[id].at)
    [] works[id].kind = "ordered" -> ReceiveAll(s, id, works[id].at)

\* An attempt of p, whose work is called if the script says so.
LabAttempted(s, p, now) ==
  LET calls == Verdict(s.payments[p]) = "work" /\ ~Finished(s.payments[p])
      worked == IF calls THEN Worked(s, payments[p].payment_id, now) ELSE s
  IN  Attempted(worked, p, worked.raised, now)

\* What the i-th item of a tick does, unless an earlier one has raised.
LabItem(s, i, now) ==
  LET p == BatchPayments[i]
      after == IF p = 0 THEN Worked(s, DuplicateId, now) ELSE LabAttempted(s, p, now)
  IN  IF s.raised THEN s ELSE [after EXCEPT !.ran = i]

\* The state at the end of a tick.
AfterItems(now) ==
  FoldLeft(LAMBDA s, i : LabItem(s, i, now),
           [payments |-> payments, entries |-> entries,
            pendingRetries |-> pendingRetries, attempts |-> attempts,
            pushes |-> <<>>, ledger |-> ledger, keys |-> keys,
            ordered |-> ordered, raised |-> FALSE, ran |-> 0],
           [i \in DOMAIN BatchPayments |-> i])
-----------------------------------------------------------------------------
(***************************************************************************)
(* Actions.                                                                *)
(***************************************************************************)
\* The work of the item that ran last in the tick of time now has raised.
RaisedAt(s, now) == [arrival_order |-> Queue!Batch[s.ran].arrival_order,
                     at |-> now, known |-> Len(s.ledger)]

\* run_next runs the worker's tick.
RunLabTick(e) ==
  \E s \in {AfterItems(e.time)} :
    /\ IF s.raised THEN Queue!RunTickRaises(e, s.ran, s.pushes)
                   ELSE Queue!RunTick(e, s.pushes)
    /\ TakesOver(s)
    /\ ledger' = s.ledger /\ keys' = s.keys /\ ordered' = s.ordered
    /\ refusals' = refusals \cup IF s.raised THEN {RaisedAt(s, e.time)} ELSE {}
    /\ UNCHANGED works

\* Items that are no payment's; the duplicate takes the place of one submission.
Duplicates == {i \in DOMAIN owner : owner[i] = 0}
MayReceive == Len(payments) + Cardinality(Duplicates) < MaxSubmissions

\* queue.enqueue_ach_transfer of a duplicate delivery: owner 0 is no payment.
enqueue_duplicate ==
  /\ works[DuplicateId].kind = "keyed"
  /\ Duplicates = {} /\ MayReceive
  /\ Queue!enqueue
  /\ owner' = Append(owner, 0)
  /\ UNCHANGED <<payments, entries, pendingRetries, attempts, labVars>>

LabRunNext ==
  \/ \E e \in queue : RunLabTick(e)
  \/ /\ \E e \in queue :
          \/ RunRetry(e)
          \/ Queue!Sched!DropOverdue(e) /\ UNCHANGED <<queueVars, retryVars>>
     /\ UNCHANGED labVars

LabNext == \/ LabRunNext
           \/ enqueue_duplicate
           \/ MayReceive /\ Submit /\ UNCHANGED labVars
           \/ Jump /\ UNCHANGED labVars

LabSpec == LabInit /\ [][LabNext]_allVars

\* As for PaymentRetries.
FairLabSpec == LabSpec /\ ([]<>(queue = {}) \/ []<><<LabRunNext>>_allVars)
-----------------------------------------------------------------------------
(***************************************************************************)
(* Properties.                                                             *)
(***************************************************************************)
DebitsOf(id) ==
  {i \in DOMAIN ledger : ledger[i].entry_id \in {id} \X {"DEBIT", "SETTLEMENT"}}

PaymentsOf(id) == {p \in DOMAIN payments : payments[p].payment_id = id}

\* The owners of the items whose work has raised.
RaisedOwners == {owner[o + 1] : o \in failed}

DuplicateDelivered == \E i \in DOMAIN completed :
                        owner[completed[i].arrival_order + 1] = 0

\* Retries, duplicates, reordering and isolation together leave the ledger with
\* what the payments' outcomes say: a payment that succeeded has one debit under
\* its identifier, which the settlement report looks up, and a debit belongs to a
\* payment that succeeded or is that of the duplicate, delivered before it.  The
\* exception is an ordered payment submitted again after its settlement was
\* refused: all its events are duplicates by then.
EffectsMatchOutcomes ==
  \A id \in DOMAIN works :
    LET succeeded == {p \in PaymentsOf(id) : payments[p].outcome = "succeeded"}
    IN  /\ Cardinality(DebitsOf(id)) <= 1
        /\ succeeded # {} /\ DebitsOf(id) = {} =>
             works[id].kind = "ordered" /\ PaymentsOf(id) \cap RaisedOwners # {}
        /\ DebitsOf(id) # {} /\ succeeded = {} =>
             id = DuplicateId /\ DuplicateDelivered

\* Whether the ledger of that moment explains why the work of p, with identifier id,
\* raised: r is its record in refusals.
Explained(r, p, id) ==
  LET known == {i \in DOMAIN ledger : i <= r.known}
  IN  IF works[id].kind = "post"
      THEN \/ /\ known \cap DebitsOf(id) # {}
              /\ \E q \in PaymentsOf(id) \ {p} : payments[q].outcome = "succeeded"
           \/ \E i \in known, x \in PaymentIds :
                /\ ledger[i].posted_at > r.at
                /\ i \in DebitsOf(x) /\ works[x].kind # "post"
      ELSE \E i \in known : ledger[i].posted_at > works[id].at

\* When a work raises, the ledger of that moment explains it.  A work that posts
\* at the clock's time has its entry there already, from another payment with its
\* identifier that succeeded, or an entry of a work with a fixed posting time lies
\* ahead of the clock.  A work with a fixed posting time lies behind some entry.
\* So neither the sequence nor an earlier attempt of its own ever refuses an entry.
RefusalsExplained ==
  works # <<>> =>
    /\ failed = {r.arrival_order : r \in refusals}
    /\ \A r \in refusals :
         LET p == owner[r.arrival_order + 1]
         IN  Explained(r, p, IF p = 0 THEN DuplicateId ELSE payments[p].payment_id)
=============================================================================
