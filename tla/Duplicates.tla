----------------------------- MODULE Duplicates -----------------------------
(***************************************************************************)
(* Scripts of repeated deliveries, processed naively                       *)
(* (bank_sim/duplicates.py) and idempotently (process_idempotently of      *)
(* bank_sim/idempotency.py), each on a ledger of its own.                  *)
(*                                                                         *)
(* The script grows by one delivery at a time.  Both loops are functions   *)
(* of it; once one raises, nothing more of it is processed.  A delivery    *)
(* carries its own amount, and its order is its place in the script.       *)
(***************************************************************************)
EXTENDS Ledger, SequencesExt

CONSTANTS RequestIds,       \* the original requests' identifiers
          DeliveryAmounts,  \* the amounts a delivery may carry
          MaxNumber,        \* bound: the largest delivery number
          MaxArrival,       \* bound: the latest arrival
          MaxDeliveries     \* bound: the length of a script

ASSUME ScriptBounds == /\ DeliveryAmounts \subseteq Nat \ {0}
                       /\ MaxNumber \in Nat /\ MaxArrival \in Nat
                       /\ MaxDeliveries \in Nat

PaymentDelivery == [original_request_id : RequestIds, amount : DeliveryAmounts,
                    delivery_number : 1..MaxNumber, arrived_at : 0..MaxArrival]

VARIABLE script     \* DeliverySequence.deliveries

\* One more delivery; arrival times may not move backward.
deliver == \E item \in PaymentDelivery :
             /\ Len(script) < MaxDeliveries
             /\ script # <<>> => Last(script).arrived_at <= item.arrived_at
             /\ script' = Append(script, item)

OpenEntry == [entry_id |-> <<"OPEN">>, account_id |-> "HCCU-DEMO-001",
              amount |-> 1, entry_type |-> CREDIT, sequence |-> 1,
              posted_at |-> 0]

DebitOf(ledger, item, id) ==
  [entry_id |-> id, account_id |-> "HCCU-DEMO-001",
   amount |-> item.amount, entry_type |-> DEBIT, sequence |-> Len(ledger) + 1,
   posted_at |-> item.arrived_at + 1]

\* The state after an append that may raise.
Posted(s, e) == IF Accepts(s.ledger, e) THEN [s EXCEPT !.ledger = Append(@, e)]
                                        ELSE [s EXCEPT !.raised = TRUE]

\* process_naively debits every delivery under an identifier of its own.
process_naively ==
  FoldLeft(LAMBDA s, item :
             IF s.raised THEN s
             ELSE Posted(s, DebitOf(s.ledger, item,
                              <<item.original_request_id, "DELIVERY",
                                item.delivery_number>>)),
           [ledger |-> <<OpenEntry>>, raised |-> FALSE], script)

\* DuplicateStatistics.
Requests == {script[i].original_request_id : i \in DOMAIN script}
duplicate_deliveries == Len(script) - Cardinality(Requests)

\* Seeded bug: every delivery derives a key of its own.
idempotency_key_forDelivery(item) ==
  <<item.original_request_id, item.delivery_number>>

idempotency_key_for(item) == item.original_request_id

\* IdempotentPaymentProcessor.process: a new key is remembered with its result
\* once its debit is appended.  A remembered one is acknowledged again when the
\* delivery asks for the same payment, and raises IdempotencyConflictError else.
process(s, item) ==
  LET key    == idempotency_key_for(item)
      result == [key |-> key, original_request_id |-> item.original_request_id,
                 amount |-> item.amount]
      record == {r \in s.records : r.key = key}
      after  == Posted(s, DebitOf(s.ledger, item, <<item.original_request_id, "DEBIT">>))
  IN  IF record = {result} THEN [s EXCEPT !.duplicates = @ + 1]
      ELSE IF record # {} THEN [s EXCEPT !.raised = TRUE]
      ELSE IF after.raised THEN after
      ELSE [after EXCEPT !.records = @ \cup {result}]

process_idempotently ==
  FoldLeft(LAMBDA s, item : IF s.raised THEN s ELSE process(s, item),
           [ledger |-> <<OpenEntry>>, records |-> {}, duplicates |-> 0,
            raised |-> FALSE],
           script)
-----------------------------------------------------------------------------
\* The deliveries of requests that were delivered before.
Repeats ==
  {i \in DOMAIN script : \E j \in 1..(i - 1) :
     script[j].original_request_id = script[i].original_request_id}

\* Those that ask for another amount than an earlier delivery of the request.
Conflicts ==
  {i \in DOMAIN script : \E j \in 1..(i - 1) :
     /\ script[j].original_request_id = script[i].original_request_id
     /\ script[j].amount # script[i].amount}

\* The deliveries before the first of those.
Taken == {i \in DOMAIN script : \A j \in Conflicts : i < j}

\* What duplicate prevention saves, for every script.  The protected loop debits
\* each request once and acknowledges its repetitions, up to the first delivery
\* that asks for another amount, where it raises and takes no more of the script.
\* The naive loop raises exactly when a delivery number is repeated for a request.
\* Where neither does, the naive one took from the account the amounts of the
\* repeated deliveries on top, as many as the statistics of both chapters count
\* (process_naively against process_idempotently).
DuplicatesAreTheDifference ==
  LET naive == process_naively
      protected == process_idempotently
      requests == {script[i].original_request_id : i \in Taken}
  IN  /\ naive.raised <=>
           \E i, j \in DOMAIN script :
             /\ i # j
             /\ script[i].original_request_id = script[j].original_request_id
             /\ script[i].delivery_number = script[j].delivery_number
      /\ protected.raised <=> Conflicts # {}
      /\ {protected.ledger[i].entry_id : i \in DOMAIN protected.ledger \ {1}}
           = requests \X {"DEBIT"}
      /\ protected.duplicates = Cardinality(Taken) - Cardinality(requests)
      /\ ~protected.raised =>
           /\ protected.duplicates = duplicate_deliveries
           /\ ~naive.raised =>
                Replay(protected.ledger) - Replay(naive.ledger)
                  = SumFunction([i \in Repeats |-> script[i].amount])
=============================================================================
