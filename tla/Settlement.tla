----------------------------- MODULE Settlement -----------------------------
(***************************************************************************)
(* Settlement expectations and their reconciliation with an external       *)
(* report (bank_sim/settlement.py) for the workflows of an ACH network.    *)
(*                                                                         *)
(* Expectations and reports are snapshots: nothing here changes the        *)
(* network.  A report is a sequence of rows, a row's place standing for    *)
(* its external reference.  Times, texts and the order of the displayed    *)
(* items are left out.                                                     *)
(***************************************************************************)
EXTENDS AchNetwork

OUTBOUND == "Outbound"
RETURN == "Return"

Row(id, amount, direction) ==
  [payment_id |-> id, amount |-> amount, direction |-> direction]

\* Seeded bug: a transfer is expected as soon as the network processes it.
settlement_expectationsEarly ==
  {Row(t, request[t].amount, OUTBOUND) :
     t \in {u \in TransferIds : status[u] \in {"Processing", "Completed"}}}
  \cup {Row(r, returnRequest[r].amount, RETURN) :
     r \in {u \in ReturnIds : returnStatus[u] = "Completed"}}

\* Completed workflows only, one record for each identifier and direction.
settlement_expectations ==
  {Row(t, request[t].amount, OUTBOUND) :
     t \in {u \in TransferIds : status[u] = "Completed"}}
  \cup {Row(r, returnRequest[r].amount, RETURN) :
     r \in {u \in ReturnIds : returnStatus[u] = "Completed"}}
-----------------------------------------------------------------------------
(***************************************************************************)
(* reconcile.                                                              *)
(***************************************************************************)
\* internal_by_id: the expectations come sorted, so that of two with one
\* identifier the return, being the last, is kept.
Expected(internal, id) ==
  LET rows == {row \in internal : row.payment_id = id}
  IN  {row \in rows : \A other \in rows : other.direction = RETURN =>
                                            row.direction = RETURN}

\* Seeded bug: external rows are grouped by the matching key.
ReportedByKey(internal, report, id) ==
  {i \in DOMAIN report : /\ report[i].payment_id = id
                         /\ \A row \in Expected(internal, id) :
                              report[i].direction = row.direction}

\* external_by_id: the places of the rows under an identifier.
Reported(internal, report, id) ==
  {i \in DOMAIN report : report[i].payment_id = id}

\* Seeded bug: a second row for a payment is not noticed.
ClassifiedOnce(expected, report, places) ==
  LET row == report[CHOOSE i \in places : \A j \in places : i <= j] IN
  CASE places = {} -> "Missing externally"
    [] places # {} /\ row.direction # expected.direction -> "Direction mismatch"
    [] places # {} /\ row.direction = expected.direction
         /\ row.amount # expected.amount -> "Amount mismatch"
    [] OTHER -> "Matched"

\* The precedence: missing, duplicate, direction, amount, matched.
Classified(expected, report, places) ==
  LET row == report[CHOOSE i \in places : TRUE] IN
  CASE places = {} -> "Missing externally"
    [] Cardinality(places) > 1 -> "Duplicate externally"
    [] Cardinality(places) = 1 /\ row.direction # expected.direction ->
         "Direction mismatch"
    [] Cardinality(places) = 1 /\ row.direction = expected.direction
         /\ row.amount # expected.amount -> "Amount mismatch"
    [] OTHER -> "Matched"

Item(id, verdict, direction, internal, external, places) ==
  [payment_id |-> id, status |-> verdict, direction |-> direction,
   internal_amount |-> internal, external_amount |-> external,
   external_references |-> places]

Amount(report, places) == SumFunction([i \in places |-> report[i].amount])

ItemsFor(internal, report, id) ==
  LET places == Reported(internal, report, id)
  IN  IF Expected(internal, id) = {}
      THEN {Item(id, "Unexpected externally", report[i].direction, 0,
                 report[i].amount, {i}) : i \in places}
      ELSE {Item(id, Classified(row, report, places), row.direction, row.amount,
                 Amount(report, places), places) : row \in Expected(internal, id)}

\* ReconciliationReport.items.
reconcile(internal, report) ==
  UNION {ItemsFor(internal, report, id) :
           id \in {row.payment_id : row \in internal}
                    \cup {report[i].payment_id : i \in DOMAIN report}}

Exceptions(items) == {item \in items : item.status # "Matched"}

\* _totals.
InternalTotal(internal, direction) ==
  SumFunction([row \in {r \in internal : r.direction = direction} |-> row.amount])
ExternalTotal(report, direction) ==
  Amount(report, {i \in DOMAIN report : report[i].direction = direction})
-----------------------------------------------------------------------------
(***************************************************************************)
(* The reports that are reconciled: those of _matched_report and of        *)
(* describe_reconciliation_exceptions, for the workflows of this network.  *)
(* Each expected record has a fate of its own on its way through the       *)
(* external report, and rows may be reported that nobody expects.          *)
(***************************************************************************)
Fate == {"Matched", "Missing externally", "Duplicate externally",
         "Amount mismatch", "Direction mismatch"}

Other(direction) == IF direction = OUTBOUND THEN RETURN ELSE OUTBOUND

\* What the report says of a record.
RowsFor(row, fate) ==
  CASE fate = "Matched" -> <<row>>
    [] fate = "Missing externally" -> <<>>
    [] fate = "Duplicate externally" -> <<row, row>>
    [] fate = "Amount mismatch" -> <<[row EXCEPT !.amount = @ + 1]>>
    [] fate = "Direction mismatch" -> <<[row EXCEPT !.direction = Other(@)]>>

ReportOf(internal, fates, unexpected) ==
  FoldSet(LAMBDA row, report : report \o RowsFor(row, fates[row]), <<>>, internal)
    \o FoldSet(LAMBDA id, report : Append(report, Row(id, 1, OUTBOUND)), <<>>,
               unexpected)

HonestReport(internal) ==
  ReportOf(internal, [row \in internal |-> "Matched"], {})
-----------------------------------------------------------------------------
(***************************************************************************)
(* Properties.                                                             *)
(***************************************************************************)
\* No identifier is used by a completed transfer and by a completed return.
IdentifiersApart ==
  \A row, other \in settlement_expectations :
    row.payment_id = other.payment_id => row = other

\* The expectations derived from the workflows' statuses explain the ledger:
\* every account's balance is its opening balance less the outbound records of
\* its transfers plus the return records of theirs, at every moment and not only
\* when the day is over (settlement_expectations, both complete methods).
ExpectationsExplainBalances ==
  \A a \in AccountIds :
    LET out == {row \in settlement_expectations :
                  row.direction = OUTBOUND /\ request[row.payment_id].source = a}
        back == {row \in settlement_expectations :
                   /\ row.direction = RETURN
                   /\ request[returnRequest[row.payment_id].original].source = a}
    IN  L!AccountBalance(entries, a) =
          L!AccountBalance(OpeningEntries, a)
          - InternalTotal(out, OUTBOUND) + InternalTotal(back, RETURN)

\* Whatever happened to each record on its way, all at once, reconcile says
\* exactly that of it, calls every other row unexpected, and a report without
\* exceptions agrees with the expectations in both totals; as long as transfers
\* and returns have identifiers of their own (reconcile's precedence).
EveryTamperingFound ==
  LET internal == settlement_expectations
      idle == (TransferIds \cup ReturnIds) \ {row.payment_id : row \in internal}
  IN  IdentifiersApart =>
        \A fates \in [internal -> Fate], unexpected \in SUBSET idle :
          LET report == ReportOf(internal, fates, unexpected)
              items == reconcile(internal, report)
          IN  /\ {<<item.payment_id, item.status>> : item \in items}
                   = {<<row.payment_id, fates[row]>> : row \in internal}
                       \cup (unexpected \X {"Unexpected externally"})
              /\ Exceptions(items) = {} =>
                   \A direction \in {OUTBOUND, RETURN} :
                     ExternalTotal(report, direction)
                       = InternalTotal(internal, direction)

\* A report that repeats the expectations is free of exceptions exactly when no
\* completed return carries the identifier of a completed transfer: records are
\* unique by identifier and direction, and matched by identifier alone
\* (matching_key against internal_by_id and external_by_id).
CleanIffIdentifiersApart ==
  Exceptions(reconcile(settlement_expectations,
                       HonestReport(settlement_expectations))) = {}
    <=> IdentifiersApart
=============================================================================
