--------------------------- MODULE AccountWriters ---------------------------
(***************************************************************************)
(* The synchronous writers of one shared ledger: deposits, withdrawals     *)
(* with their balance projection, internal transfers and the idempotent    *)
(* payment processor (bank_sim/deposits.py, withdrawals.py, balances.py,   *)
(* transfers.py, idempotency.py).                                          *)
(*                                                                         *)
(* Each call either has its effect or leaves everything as it was: it is   *)
(* rejected for its funds, refused by the ledger, or conflicts with a      *)
(* remembered key.  Such a call is no step here.  Validation of texts and  *)
(* the calls' acknowledgements, other than their number, are left out.     *)
(***************************************************************************)
EXTENDS Integers, Sequences, FiniteSets, FiniteSetsExt, Functions

CONSTANTS AccountIds,
          PaymentAccount,  \* the account that payments are debited from
          RequestIds,      \* deposit, withdrawal, transfer and request ids
          Keys,            \* idempotency keys
          PendingLists,    \* lists of pending activity given to withdrawals
          MaxAmount,       \* bound: the largest amount of a request
          MaxArrival,      \* bound: the latest arrival of a delivery
          MaxEntries,      \* bound: how long the ledger grows
          MaxAcknowledged  \* bound: deliveries acknowledged

VARIABLES entries,          \* Ledger._entries
          posted,           \* auxiliary: the results returned as posted
          records,          \* IdempotencyStore._records
          created,          \* IdempotentPaymentProcessor._ledger_entries_created
          acknowledged      \* the length of its _acknowledgements

vars == <<entries, posted, records, created, acknowledged>>

L == INSTANCE Ledger WITH
       EntryIds <- RequestIds \X {"ENTRY", "DEBIT", "CREDIT"},
       MaxPosting <- Max({MaxArrival + 1, MaxEntries})

PENDING_DEBIT == "Pending Debit"
PENDING_CREDIT == "Pending Credit"

PendingTransaction == [transaction_id : STRING, amount : Nat \ {0},
                       transaction_type : {PENDING_DEBIT, PENDING_CREDIT},
                       sequence : Nat \ {0}]

ASSUME WriterInputs == /\ PaymentAccount \in AccountIds
                       /\ IsFiniteSet(AccountIds)
                       /\ PendingLists \subseteq Seq(PendingTransaction)
                       /\ MaxAmount \in Nat \ {0} /\ MaxArrival \in Nat
                       /\ MaxEntries \in Nat /\ MaxAcknowledged \in Nat

Amount == 1..MaxAmount

Init == /\ entries = <<>>
        /\ posted = {}
        /\ records = <<>>
        /\ created = 0
        /\ acknowledged = 0
-----------------------------------------------------------------------------
(***************************************************************************)
(* Balances and entries.                                                   *)
(***************************************************************************)
PendingOf(pending, type) ==
  SumFunction([i \in {j \in DOMAIN pending : pending[j].transaction_type = type} |->
                 pending[i].amount])

\* project_balances raises unless the pending list is numbered from one and
\* repeats no identifier.
ProjectionDefined(pending) ==
  /\ \A i \in DOMAIN pending : pending[i].sequence = i
  /\ \A i, j \in DOMAIN pending :
       pending[i].transaction_id = pending[j].transaction_id => i = j

\* Seeded bug: pending debits are not subtracted from what is available.
AvailableIgnoringHolds(pending) ==
  L!Replay(entries) + PendingOf(pending, PENDING_DEBIT)
                    + PendingOf(pending, PENDING_CREDIT)

\* project_balances' available balance: the replay is of the whole ledger.
AvailableBalance(pending) ==
  L!Replay(entries) - PendingOf(pending, PENDING_DEBIT)
                    + PendingOf(pending, PENDING_CREDIT)

\* The entry at the given place after the end of the ledger.
EntryAfter(place, id, account, amount, type, time) ==
  [entry_id |-> id, account_id |-> account, amount |-> amount,
   entry_type |-> type, sequence |-> Len(entries) + place, posted_at |-> time]

LedgerTakes(e) == L!Accepts(entries, e)

Record(id, e) == [request |-> id, amount |-> e.amount,
                  first_processed_at |-> e.posted_at,
                  duplicate_delivery_count |-> 0]

Remembered(key, record) ==
  [k \in DOMAIN records \cup {key} |-> IF k = key THEN record ELSE records[k]]

Unpaid == UNCHANGED <<records, created, acknowledged>>
-----------------------------------------------------------------------------
(***************************************************************************)
(* Actions: calls that are not refused.                                    *)
(***************************************************************************)
\* Entries of deposits, withdrawals and transfers are posted at the time of their
\* own sequence number.
post_deposit(id, account, amount) ==
  LET e == EntryAfter(1, <<id, "ENTRY">>, account, amount, L!CREDIT,
                      Len(entries) + 1)
  IN  /\ LedgerTakes(e)
      /\ entries' = Append(entries, e)
      /\ posted' = posted \cup {[kind |-> "deposit", id |-> id,
                                 account |-> account, amount |-> amount]}
      /\ Unpaid

process_withdrawal(id, account, amount, pending) ==
  LET e == EntryAfter(1, <<id, "ENTRY">>, account, amount, L!DEBIT,
                      Len(entries) + 1)
  IN  /\ ProjectionDefined(pending)
      /\ amount <= AvailableBalance(pending)
      /\ LedgerTakes(e)
      /\ entries' = Append(entries, e)
      /\ posted' = posted \cup {[kind |-> "withdrawal", id |-> id,
                                 account |-> account, amount |-> amount]}
      /\ Unpaid

TransferEntries(id, source, destination, amount) ==
  LET first == Len(entries) + 1 IN
  <<EntryAfter(1, <<id, "DEBIT">>, source, amount, L!DEBIT, first),
    EntryAfter(2, <<id, "CREDIT">>, destination, amount, L!CREDIT, first + 1)>>

\* Seeded bug: the result is posted although the ledger refused the batch.
process_transferReportsAnyway(id, source, destination, amount) ==
  LET batch == TransferEntries(id, source, destination, amount) IN
  /\ source # destination
  /\ amount <= L!AccountBalance(entries, source)
  /\ entries' = IF L!AcceptsBatch(entries, batch) THEN entries \o batch
                ELSE entries
  /\ posted' = posted \cup {[kind |-> "transfer", id |-> id, amount |-> amount,
                             source |-> source, destination |-> destination]}
  /\ Unpaid

process_transfer(id, source, destination, amount) ==
  LET batch == TransferEntries(id, source, destination, amount) IN
  /\ source # destination
  /\ amount <= L!AccountBalance(entries, source)
  /\ L!AcceptsBatch(entries, batch)
  /\ entries' = entries \o batch
  /\ posted' = posted \cup {[kind |-> "transfer", id |-> id, amount |-> amount,
                             source |-> source, destination |-> destination]}
  /\ Unpaid

\* Seeded bug: the key is remembered before the append that may raise.
process_firstRemembersFirst(id, amount, arrived, key) ==
  LET e == EntryAfter(1, <<id, "DEBIT">>, PaymentAccount, amount, L!DEBIT,
                      arrived + 1)
  IN  /\ key \notin DOMAIN records
      /\ records' = Remembered(key, Record(id, e))
      /\ IF LedgerTakes(e)
         THEN /\ entries' = Append(entries, e)
              /\ created' = created + 1
              /\ acknowledged' = acknowledged + 1
         ELSE UNCHANGED <<entries, created, acknowledged>>
      /\ UNCHANGED posted

\* IdempotentPaymentProcessor.process of a key that is not remembered: the debit
\* is appended, then the key is remembered.  No funds are checked.
process_first(id, amount, arrived, key) ==
  LET e == EntryAfter(1, <<id, "DEBIT">>, PaymentAccount, amount, L!DEBIT,
                      arrived + 1)
  IN  /\ key \notin DOMAIN records
      /\ LedgerTakes(e)
      /\ entries' = Append(entries, e)
      /\ records' = Remembered(key, Record(id, e))
      /\ created' = created + 1
      /\ acknowledged' = acknowledged + 1
      /\ UNCHANGED posted

\* process of a remembered key: the same request and amount are acknowledged
\* again, anything else is a conflict.
process_duplicate(id, amount, key) ==
  /\ key \in DOMAIN records
  /\ records[key].request = id /\ records[key].amount = amount
  /\ records' = [records EXCEPT ![key].duplicate_delivery_count = @ + 1]
  /\ acknowledged' = acknowledged + 1
  /\ UNCHANGED <<entries, posted, created>>

Room(n) == Len(entries) + n <= MaxEntries

Next ==
  \E id \in RequestIds, amount \in Amount :
    \/ /\ Room(1)
       /\ \E account \in AccountIds :
            \/ post_deposit(id, account, amount)
            \/ \E pending \in PendingLists :
                 process_withdrawal(id, account, amount, pending)
    \/ /\ Room(2)
       /\ \E source, destination \in AccountIds :
            process_transfer(id, source, destination, amount)
    \/ /\ Room(1) /\ acknowledged < MaxAcknowledged
       /\ \E arrived \in 0..MaxArrival, key \in Keys :
            process_first(id, amount, arrived, key)
    \/ /\ acknowledged < MaxAcknowledged
       /\ \E key \in Keys : process_duplicate(id, amount, key)

Spec == Init /\ [][Next]_vars
-----------------------------------------------------------------------------
(***************************************************************************)
(* Properties.                                                             *)
(***************************************************************************)
Payments == SumFunction([k \in DOMAIN records |-> records[k].amount])

Effect(result, account) ==
  CASE result.kind = "deposit" ->
         IF result.account = account THEN result.amount ELSE 0
    [] result.kind = "withdrawal" ->
         IF result.account = account THEN 0 - result.amount ELSE 0
    [] result.kind = "transfer" ->
         IF result.source = account THEN 0 - result.amount
         ELSE IF result.destination = account THEN result.amount ELSE 0

\* Money comes from and goes to the workflows that reported it: each account's
\* replayed balance is the sum of the effects of the results returned as posted
\* and the payments remembered under keys, and the whole-ledger replay that
\* withdrawals look at is the sum of the accounts.  A refused append, a colliding
\* identifier or a rejected request never leaves half of its effect.
BalancesExplained ==
  /\ \A a \in AccountIds :
       L!AccountBalance(entries, a) =
         SumFunction([r \in posted |-> Effect(r, a)])
           - (IF a = PaymentAccount THEN Payments ELSE 0)
  /\ L!ReplayDefined(entries)
  /\ L!Replay(entries) =
       SumFunction([a \in AccountIds |-> L!AccountBalance(entries, a)])

\* The most that pending credits ever promise.
PendingCredits ==
  Max({0} \cup {PendingOf(p, PENDING_CREDIT) - PendingOf(p, PENDING_DEBIT) :
                  p \in {q \in PendingLists : ProjectionDefined(q)}})

\* What withdrawals and transfers spend was there: the bank as a whole only goes
\* below zero by payments, which the processor takes without looking at funds, and
\* by the pending credits that withdrawals were told of.  (Of a single account it
\* is not true: withdrawals look at the whole ledger.)
FundsCovered == L!Replay(entries) + Payments + PendingCredits >= 0

\* A key stands for one debit: whatever is delivered again, late, or under another
\* key, each remembered key has exactly the entry of its request, no two keys
\* share one, and every acknowledgement is a first processing or a counted
\* duplicate (the append that may refuse comes before the key is remembered).
KeyMeansOneDebit ==
  /\ \A k \in DOMAIN records :
       \E i \in DOMAIN entries :
         /\ entries[i].entry_id = <<records[k].request, "DEBIT">>
         /\ entries[i].account_id = PaymentAccount
         /\ entries[i].entry_type = L!DEBIT
         /\ entries[i].amount = records[k].amount
         /\ entries[i].posted_at = records[k].first_processed_at
  /\ IsInjective([k \in DOMAIN records |-> records[k].request])
  /\ created = Cardinality(DOMAIN records)
  /\ acknowledged = created
       + SumFunction([k \in DOMAIN records |-> records[k].duplicate_delivery_count])

\* Whatever is called in whatever order, the writers only extend the ledger by
\* entries and batches that it accepts.
LedgerContract == L!LedgerContract
=============================================================================
