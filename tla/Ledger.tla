------------------------------- MODULE Ledger -------------------------------
(***************************************************************************)
(* The append-only ledger and its balance projections (bank_sim/ledger.py, *)
(* bank_sim/transfers.py account_balance).                                 *)
(*                                                                         *)
(* Entry identifiers are pairs <<workflow identifier, suffix>>, because    *)
(* every writer builds them by adding a suffix to the identifier of its    *)
(* workflow and different writers use the same suffix.  _entry_ids is the  *)
(* set of the identifiers of the entries, so it is derived here.  Text     *)
(* validation and the return references of an entry are left out.          *)
(***************************************************************************)
EXTENDS Integers, Sequences, FiniteSets, FiniteSetsExt

CONSTANTS EntryIds,    \* identifiers an entry may carry
          AccountIds,  \* accounts an entry may name
          MaxAmount,   \* bound: the largest amount of an entry, in cents
          MaxPosting,  \* bound: the latest posting time
          MaxEntries   \* bound: how long the ledger grows

ASSUME LedgerBounds == /\ MaxAmount \in Nat \ {0}
                       /\ MaxPosting \in Nat
                       /\ MaxEntries \in Nat

VARIABLE entries       \* Ledger._entries

CREDIT == "Credit"
DEBIT == "Debit"

\* What LedgerEntry and Money accept: positive amounts and sequences,
\* nonnegative posting times.
Entry == [entry_id : EntryIds, account_id : AccountIds, amount : Nat \ {0},
          entry_type : {CREDIT, DEBIT}, sequence : Nat \ {0}, posted_at : Nat]

Ids(ledger) == {ledger[i].entry_id : i \in DOMAIN ledger}
-----------------------------------------------------------------------------
(***************************************************************************)
(* Appending.                                                              *)
(***************************************************************************)
\* The time a new entry may not precede.
LastPosted(ledger) ==
  IF ledger = <<>> THEN 0 ELSE ledger[Len(ledger)].posted_at

\* Seeded bug: the identifier is not looked up.
AcceptsRepeatedId(ledger, e) == /\ e.sequence = Len(ledger) + 1
                                /\ e.posted_at >= LastPosted(ledger)

\* append takes e; otherwise it raises and the ledger is unchanged.
Accepts(ledger, e) == /\ e.sequence = Len(ledger) + 1
                      /\ e.entry_id \notin Ids(ledger)
                      /\ e.posted_at >= LastPosted(ledger)

\* Seeded bug: identifiers inside the batch are not compared.
AcceptsBatchStaleIds(ledger, batch) ==
  /\ batch # <<>>
  /\ \A i \in DOMAIN batch :
       /\ batch[i].sequence = Len(ledger) + i
       /\ batch[i].entry_id \notin Ids(ledger)
       /\ batch[i].posted_at >= IF i = 1 THEN LastPosted(ledger)
                                         ELSE batch[i - 1].posted_at

\* append_batch takes the whole batch; otherwise it raises before it changes
\* anything.
AcceptsBatch(ledger, batch) ==
  /\ batch # <<>>
  /\ \A i \in DOMAIN batch :
       /\ batch[i].sequence = Len(ledger) + i
       /\ batch[i].entry_id \notin Ids(ledger)
       /\ \A j \in 1..(i - 1) : batch[j].entry_id # batch[i].entry_id
       /\ batch[i].posted_at >= IF i = 1 THEN LastPosted(ledger)
                                         ELSE batch[i - 1].posted_at
-----------------------------------------------------------------------------
(***************************************************************************)
(* Projections.                                                            *)
(***************************************************************************)
\* The effect of one entry on a balance.
Signed(e) == IF e.entry_type = CREDIT THEN e.amount ELSE 0 - e.amount

\* replay: it reads every entry, whatever its account, and raises unless the
\* sequence is contiguous.
ReplayDefined(ledger) == \A i \in DOMAIN ledger : ledger[i].sequence = i
Replay(ledger) == SumFunction([i \in DOMAIN ledger |-> Signed(ledger[i])])

\* account_balance of transfers.py: the entries of one account.
AccountBalance(ledger, account) ==
  SumFunction([i \in {j \in DOMAIN ledger : ledger[j].account_id = account} |->
                 Signed(ledger[i])])
-----------------------------------------------------------------------------
(***************************************************************************)
(* The ledger on its own: callers append anything of the bounded inputs.   *)
(***************************************************************************)
Candidates == [entry_id : EntryIds, account_id : AccountIds,
               amount : 1..MaxAmount, entry_type : {CREDIT, DEBIT},
               sequence : 1..(MaxEntries + 1), posted_at : 0..MaxPosting]

LedgerInit == entries = <<>>

append == \E e \in Candidates : /\ Len(entries) < MaxEntries
                                /\ Accepts(entries, e)
                                /\ entries' = Append(entries, e)

append_batch == \E e, f \in Candidates :
                  /\ Len(entries) + 2 <= MaxEntries
                  /\ AcceptsBatch(entries, <<e, f>>)
                  /\ entries' = entries \o <<e, f>>

LedgerNext == append \/ append_batch

LedgerSpec == LedgerInit /\ [][LedgerNext]_entries
-----------------------------------------------------------------------------
(***************************************************************************)
(* What the ledger promises to every writer.                               *)
(***************************************************************************)
\* The type invariant of the ledger.
LedgerType == entries \in Seq(Entry)

Canonical(ledger) ==
  /\ \A i \in DOMAIN ledger : ledger[i].sequence = i
  /\ \A i \in DOMAIN ledger \ {1} :
       ledger[i - 1].posted_at <= ledger[i].posted_at

UniqueIds(ledger) ==
  \A i, j \in DOMAIN ledger : ledger[i].entry_id = ledger[j].entry_id => i = j

\* The ledger stays fit for replay and records no fact twice: sequence numbers
\* are contiguous from 1, posting times never decrease and an identifier names one
\* entry, across appends and inside batches and whichever workflow wrote them
\* (Ledger.append and Ledger.append_batch).
WellFormed == Canonical(entries) /\ UniqueIds(entries)

\* later extends ledger by one accepted batch (an append is a batch of one).
Extends(ledger, later) ==
  LET batch == SubSeq(later, Len(ledger) + 1, Len(later))
  IN  later = ledger \o batch /\ AcceptsBatch(ledger, batch)

\* The abstract specification a writer has to implement: it starts from a
\* well-formed ledger and only ever extends it by accepted batches.
LedgerContract == /\ LedgerType /\ WellFormed
            /\ [][LedgerType' /\ Extends(entries, entries')]_entries

\* append_batch is all or nothing and no laxer than append: it takes a pair
\* exactly when two appends, one after the other, would take both (the batch's
\* own bookkeeping of known identifiers, sequence and time).
BatchMeansOneByOne ==
  Len(entries) + 2 <= MaxEntries =>
    \A e, f \in Candidates :
      AcceptsBatch(entries, <<e, f>>) <=>
        Accepts(entries, e) /\ Accepts(Append(entries, e), f)
=============================================================================
