-------------------------- MODULE MCAccountWriters --------------------------
(* A small instance of AccountWriters for TLC: two accounts, two requests  *)
(* whose identifiers collide across the workflows, two keys.               *)
EXTENDS AccountWriters

Pending(id, type, n) == [transaction_id |-> id, amount |-> 1,
                         transaction_type |-> type, sequence |-> n]

\* No activity, a hold, a hold with a larger credit, and a list that is not
\* numbered from one.
MCPendingLists ==
  {<<>>,
   <<Pending("p1", "Pending Debit", 1)>>,
   <<Pending("p1", "Pending Debit", 1), Pending("p2", "Pending Credit", 2),
     Pending("p3", "Pending Credit", 3)>>,
   <<Pending("p1", "Pending Credit", 2)>>}
=============================================================================
