---------------------------- MODULE MCAchNetwork ----------------------------
(* Small instances of AchNetwork for TLC: two funded accounts, two         *)
(* transfers that may be too large together or alone, and two returns.     *)
EXTENDS AchNetwork

Open(n, account, cents) ==
  [entry_id |-> <<account, "OPEN">>, account_id |-> account, amount |-> cents,
   entry_type |-> "Credit", sequence |-> n, posted_at |-> 0]

MCOpening == <<Open(1, "acct1", 3), Open(2, "acct2", 1)>>

MCOtherEntryIds == AccountIds \X {"OPEN"}

Asked(account, cents) ==
  [source |-> account, amount |-> cents, valid |-> TRUE, described |-> TRUE]
Invalid(asked) == [asked EXCEPT !.valid = FALSE]
Undescribed(asked) == [asked EXCEPT !.described = FALSE]

MCRequests == {Asked("acct1", 2), Asked("acct1", 4), Asked("acct2", 1),
               Invalid(Asked("acct2", 1)), Undescribed(Asked("acct1", 2))}

MCReturnRequests ==
  {[original |-> t, amount |-> 2, valid |-> TRUE] : t \in TransferIds}

\* Two rival returns of one transfer.
MCRivalReturns == {[original |-> "t1", amount |-> 2, valid |-> TRUE]}

\* For runs in which callers do anything: fewer requests, more interleavings.
MCFewRequests == {Asked("acct1", 2), Undescribed(Asked("acct1", 2))}

\* A ledger of eleven deposits, as post_deposit records them.
DepositNames == <<"d1", "d2", "d3", "d4", "d5", "d6", "d7", "d8", "d9", "d10",
                  "d11">>
MCElevenDeposits ==
  [n \in 1..11 |-> [entry_id |-> <<DepositNames[n], "ENTRY">>,
                    account_id |-> "acct1", amount |-> 1,
                    entry_type |-> "Credit", sequence |-> n, posted_at |-> n]]
MCDepositIds == {<<DepositNames[n], "ENTRY">> : n \in 1..11}
=============================================================================
