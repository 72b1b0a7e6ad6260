---------------------------- MODULE OrderedEvents ---------------------------
(***************************************************************************)
(* The processor that puts payment events back into workflow order before  *)
(* they have a financial effect (bank_sim/ordering.py).                    *)
(*                                                                         *)
(* A step is one delivery: the whole of receive with the drain of the      *)
(* buffer it triggers.  An event's revision equals its sequence and its    *)
(* type is determined by it (PaymentEvent.__post_init__), so only the      *)
(* sequence is kept; its identifier names its payment, its sequence and a  *)
(* version.  Only the arrival order of a completion is ever read.  The     *)
(* list of decisions is kept as a count per decision.                      *)
(***************************************************************************)
EXTENDS Integers, Sequences, FiniteSets, FiniteSetsExt

CONSTANTS Payments,      \* payment identifiers
          Versions,      \* versions of one event, each with its own identifier
          Amounts,       \* amounts an event may carry
          None,          \* Python's None
          OpeningEntries,  \* the ledger that the processor is given
          OtherEntryIds,   \* identifiers of its entries
          MaxDeliveries  \* bound: deliveries

COMPLETED == 4           \* the sequence of PaymentCompleted
Sequence == 1..COMPLETED

\* What the processor keeps of a PaymentEvent.
Event == [version : Versions, amount : Amounts, arrival_order : Nat]

VARIABLES last,       \* last[p]: _PaymentOrderingState.last_sequence
          amount,     \* amount[p]: _PaymentOrderingState.amount
          buffers,    \* buffers[p][s]: the buffered event of sequence s, or None
          processed,  \* _processed_event_ids
          decisions,  \* how often each decision was recorded in _results
          received,   \* _events_received
          entries,    \* the ledger
          raised,     \* auxiliary: completions whose ledger append raised
          delivered   \* auxiliary: <<p, s, amount>> of every delivery

vars == <<last, amount, buffers, processed, decisions, received, entries, raised,
          delivered>>

L == INSTANCE Ledger WITH
       EntryIds <- (Payments \X {"SETTLEMENT"}) \cup OtherEntryIds,
       AccountIds <- {"HCCU-DEMO-001"},
       MaxAmount <- 1, MaxPosting <- MaxDeliveries, MaxEntries <- MaxDeliveries

ASSUME OrderingInputs == /\ Amounts \subseteq Nat \ {0}
                         /\ None \notin Amounts /\ None \notin Event
                         /\ MaxDeliveries \in Nat
                         /\ OpeningEntries \in Seq(L!Entry)
                         /\ L!Canonical(OpeningEntries)
                         /\ L!UniqueIds(OpeningEntries)
                         /\ L!Ids(OpeningEntries) \subseteq OtherEntryIds
                         /\ (Payments \X {"SETTLEMENT"}) \cap OtherEntryIds = {}

Decision == {"processed", "buffered", "stale", "duplicate", "rejected"}

Init == /\ last = [p \in Payments |-> 0]
        /\ amount = [p \in Payments |-> None]
        /\ buffers = [p \in Payments |-> [s \in Sequence |-> None]]
        /\ processed = {}
        /\ decisions = [d \in Decision |-> 0]
        /\ received = 0
        /\ entries = OpeningEntries
        /\ raised = {}
        /\ delivered = {}
-----------------------------------------------------------------------------
(***************************************************************************)
(* The decisions of receive.                                               *)
(***************************************************************************)
IsDuplicate(p, s, version) == <<p, s, version>> \in processed

IsStale(p, s) == s <= last[p]

\* Seeded bug: a gap of one missing event is let through.
IsFutureByTwo(p, s) == s > last[p] + 2

IsFuture(p, s) == s > last[p] + 1

Conflicts(known, offered) == known # None /\ known # offered

\* _drain: the last sequence it applies when from has been applied with amount
\* cents: it stops at the first gap or at a buffered event of another amount.
DrainEnd(buffer, from, cents) ==
  Max({m \in from..COMPLETED :
         \A s \in (from + 1)..m : buffer[s] # None /\ buffer[s].amount = cents})

Count(d, n) == [decisions EXCEPT ![d] = @ + n]

LedgerTakes(entry) == L!Accepts(entries, entry)

\* Seeded bug: the payment is settled as soon as its completion has arrived.
SettlesOnArrival(p, s, final) == s = COMPLETED \/ buffers[p][COMPLETED] # None

\* Applying the sequences s to final has the financial effect.
Settles(p, s, final) == COMPLETED \in s..final

SettlementEntry(p, cents, time) ==
  [entry_id |-> <<p, "SETTLEMENT">>, account_id |-> "HCCU-DEMO-001",
   amount |-> cents, entry_type |-> L!DEBIT, sequence |-> Len(entries) + 1,
   posted_at |-> time]
-----------------------------------------------------------------------------
(***************************************************************************)
(* Deliveries.                                                             *)
(***************************************************************************)
\* Nothing is applied: only the decision is recorded.
Refused(decision) ==
  /\ decisions' = Count(decision, 1)
  /\ UNCHANGED <<last, amount, buffers, processed, entries, raised>>

\* A future event: it is buffered unless its place is taken.
Buffered(p, s, event) ==
  IF buffers[p][s] # None
  THEN Refused("rejected")
  ELSE /\ buffers' = [buffers EXCEPT ![p][s] = event]
       /\ decisions' = Count("buffered", 1)
       /\ UNCHANGED <<last, amount, processed, entries, raised>>

\* Seeded bug: what has been drained stays in the buffer.
ClearedNothing(p, first, final) == buffers

\* Seeded bug: a drained event that conflicts stays in the buffer.
ClearedApplied(p, first, final) ==
  [buffers EXCEPT ![p] = [s \in Sequence |-> IF s \in first..final
                                             THEN None ELSE buffers[p][s]]]

\* The buffers without the events that the drain pops: those it applies and one
\* that conflicts.
Cleared(p, first, final) ==
  [buffers EXCEPT ![p] = [s \in Sequence |-> IF s \in first..(final + 1)
                                             THEN None ELSE buffers[p][s]]]

\* The identifiers of the delivered event and of the events drained after it.
AppliedIds(p, s, event, final) ==
  {<<p, s, event.version>>} \cup
    {<<p, n, buffers[p][n].version>> : n \in (s + 1)..final}

\* The expected event, of the payment's amount: it is applied, then the buffer
\* is drained.  A completion whose settlement the ledger refuses raises after
\* the payment's state has changed and before its decision is recorded.
Applied(p, s, event) ==
  LET final == DrainEnd(buffers[p], s, event.amount)
      conflict == final < COMPLETED /\ buffers[p][final + 1] # None
      completion == IF s = COMPLETED THEN event ELSE buffers[p][COMPLETED]
      settles == Settles(p, s, final)
      entry == SettlementEntry(p, event.amount, completion.arrival_order)
      refused == settles /\ ~LedgerTakes(entry)
  IN /\ last' = [last EXCEPT ![p] = final]
     /\ amount' = [amount EXCEPT ![p] = event.amount]
     /\ processed' = processed \cup AppliedIds(p, s, event, final)
     /\ buffers' = Cleared(p, s + 1, final)
     /\ decisions' =
          [decisions EXCEPT
             !["processed"] = @ + final - s + 1 - (IF refused THEN 1 ELSE 0),
             !["rejected"] = @ + (IF conflict THEN 1 ELSE 0)]
     /\ entries' = IF settles /\ ~refused THEN Append(entries, entry) ELSE entries
     /\ raised' = IF refused THEN raised \cup {p} ELSE raised

\* OrderedEventProcessor.receive.  The code drains the buffer after a rejected
\* expected event as well; nothing applicable waits then (PrefixThenGap),
\* so that drain does nothing.
receive(p, s, event) ==
  /\ received < MaxDeliveries
  /\ received' = received + 1
  /\ delivered' = delivered \cup {<<p, s, event.amount>>}
  /\ \/ /\ IsDuplicate(p, s, event.version)
        /\ Refused("duplicate")
     \/ /\ ~IsDuplicate(p, s, event.version)
        /\ \/ /\ IsStale(p, s)
              /\ Refused("stale")
           \/ /\ ~IsStale(p, s) /\ IsFuture(p, s)
              /\ Buffered(p, s, event)
           \/ /\ ~IsStale(p, s) /\ ~IsFuture(p, s)
              /\ Conflicts(amount[p], event.amount)
              /\ Refused("rejected")
           \/ /\ ~IsStale(p, s) /\ ~IsFuture(p, s)
              /\ ~Conflicts(amount[p], event.amount)
              /\ Applied(p, s, event)

\* Deliveries are numbered as they arrive; an event may be delivered again and
\* in any order.
Next == \E p \in Payments, s \in Sequence, version \in Versions, cents \in Amounts :
          receive(p, s, [version |-> version, amount |-> cents,
                         arrival_order |-> IF s = COMPLETED THEN received + 1
                                                            ELSE 0])

Spec == Init /\ [][Next]_vars
-----------------------------------------------------------------------------
(***************************************************************************)
(* Properties.                                                             *)
(***************************************************************************)
EventId == Payments \X Sequence \X Versions

\* The type invariant of the processor and its ledger.
TypeOK == /\ last \in [Payments -> 0..COMPLETED]
          /\ amount \in [Payments -> Amounts \cup {None}]
          /\ buffers \in [Payments -> [Sequence -> Event \cup {None}]]
          /\ processed \subseteq EventId
          /\ decisions \in [Decision -> Nat]
          /\ received \in Nat
          /\ L!LedgerType
          /\ raised \subseteq Payments
          /\ delivered \subseteq Payments \X Sequence \X Amounts

\* The events applied to a payment are exactly one for each of the sequences 1 to
\* last_sequence, in spite of reordering, redelivery and rival versions; and between
\* deliveries the buffer holds only events behind the gap: nothing that could be
\* applied is left, nothing applied or overtaken stays (receive and its drain).
PrefixThenGap ==
  \A p \in Payments, s \in Sequence :
    /\ IF s <= last[p]
       THEN \E v \in Versions : {w \in Versions : <<p, s, w>> \in processed} = {v}
       ELSE \A v \in Versions : <<p, s, v>> \notin processed
    /\ buffers[p][s] # None => s > last[p] + 1

DebitsOf(p) == {i \in DOMAIN entries : entries[i].entry_id = <<p, "SETTLEMENT">>}

\* A payment is debited only once its whole workflow has been applied, once, and
\* with the amount of its workflow, whatever is buffered, redelivered or rejected.
DebitOnlyIfCompleted ==
  \A p \in Payments :
    /\ Cardinality(DebitsOf(p)) <= 1
    /\ \A i \in DebitsOf(p) :
         last[p] = COMPLETED /\ entries[i].amount = amount[p]

Sequences(p) == {s \in Sequence : \E cents \in Amounts : <<p, s, cents>> \in delivered}
AmountsOf(p) == {cents \in Amounts : \E s \in Sequence : <<p, s, cents>> \in delivered}

\* The order of delivery is irrelevant: when the events delivered for a payment
\* agree on its amount, the payment has advanced to the end of the longest prefix
\* of sequences that has been delivered at all.
OrderIsIrrelevant ==
  \A p \in Payments :
    Cardinality(AmountsOf(p)) <= 1 =>
      last[p] = Max({n \in 0..COMPLETED : 1..n \subseteq Sequences(p)})

Waiting == {w \in Payments \X Sequence : buffers[w[1]][w[2]] # None}

\* Every delivery is decided: it was applied, refused as stale, duplicate or
\* conflicting, is still buffered, or raised; buffered events are decided again
\* when they are drained (OrderingStatistics).
EveryDeliveryDecided ==
  received = decisions["processed"] + decisions["stale"] + decisions["duplicate"]
             + decisions["rejected"] + Cardinality(Waiting) + Cardinality(raised)

\* The processor changes the ledger only by appends that the ledger accepts.
LedgerContract == L!LedgerContract
-----------------------------------------------------------------------------
(***************************************************************************)
(* A statement of the documentation that the code does not keep.           *)
(***************************************************************************)
\* A payment, whether delivered in order or not, creates one settlement debit
\* (Chapter 16, Preserving ledger correctness).
CompletedHasDebit ==
  \A p \in Payments : last[p] = COMPLETED => Cardinality(DebitsOf(p)) = 1
=============================================================================
