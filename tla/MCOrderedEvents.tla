-------------------------- MODULE MCOrderedEvents ---------------------------
(* Small instances of OrderedEvents for TLC, on the chapter's ledger.      *)
EXTENDS OrderedEvents

Opening(time) == <<[entry_id |-> <<"OPEN", "OPEN">>,
                    account_id |-> "HCCU-DEMO-001", amount |-> 9,
                    entry_type |-> "Credit", sequence |-> 1, posted_at |-> time]>>
MCOtherEntryIds == {<<"OPEN", "OPEN">>}

\* The ledger of the chapter, and one that another workflow has written to later.
MCOpening == Opening(0)
MCLaterOpening == Opening(5)
=============================================================================
