# Formal model of the digital banking systems laboratory

This directory specifies the simulation in `src/src/bank_sim` in TLA+,
model-checks it with TLC on small instances and proves with TLAPS, for every value
of the constants, each safety invariant and the refinement that those runs check.
Liveness is model-checked only. Line numbers are in `PROJECT.json` (`map`), which
names the source lines that every definition stands for.

## 1. The system

`bank_sim` is a single-threaded Python simulation of a small bank. There are no
threads and no I/O in its core; what makes it hard is *virtual* concurrency. All
workflows share one `EventScheduler` (a heap of callbacks ordered by simulated
time and insertion order), one clock and often one append-only `Ledger`, and
each multi-step workflow is a chain of callbacks that interleaves with all
others. A callback that raises leaves behind whatever it had done before.

| Component | State | Operations | Talks to |
|---|---|---|---|
| Clock and scheduler (`clock.py`, `scheduler.py`) | time; heap of (time, order, callback); order counter; history | `schedule_at`, `schedule_after`, `run_next`, `run`, `advance_to`, `advance_by` | calls back into everything |
| Ledger (`ledger.py`) | entries, known identifiers | `append`, `append_batch`, `replay` | written by all workflows |
| Balances (`balances.py`) | none | `project_balances` | reads the ledger and pending activity |
| Deposits, withdrawals, transfers | none of their own | `post_deposit`, `process_withdrawal`, `process_transfer` | ledger, balances |
| ACH transfers (`ach.py`) | transfers with status, holds, submissions | `receive`, then `_validate`, `_mark_pending`, `submit`, `process`, `complete` at times 1, 2, 3, 5, 10 | scheduler, ledger |
| ACH returns (`ach_returns.py`) | returns with status, return by transfer | `receive`, then `validate`, `process`, `complete` | scheduler, ledger, reads ACH transfers |
| Settlement (`settlement.py`) | none: snapshots | `settlement_expectations`, `reconcile` | reads ACH workflows and an external report |
| Payment queue (`payment_queues.py`) | waiting line, completed, depth, tick flag | `enqueue`, `wake`, the worker's tick | scheduler, the payments' work |
| Worker pool (`worker_capacity.py`) | waiting line, workers with their current payment | `enqueue`, dispatch, complete | scheduler |
| Retries (`retries.py`) | payments with attempts, pending retries | `submit`, attempt, delayed retry | payment queue, scheduler |
| Dead letters (`dead_letters.py`) | the same, and the isolated entries | `submit`, attempt, delayed retry, `isolate` | payment queue, scheduler |
| Duplicates, idempotency | records by key, counters | `process_naively`, `process`, `process_idempotently` | ledger |
| Ordered events (`ordering.py`) | per payment: last sequence, amount, buffer | `receive` with its drain | ledger |
| Onboarding (`onboarding.py`) | an application's statuses, reason, history | `submit`, `begin_review`, two checks, `approve`, `reject` | nothing |
| Laboratory (`laboratory.py`) | none of its own | `run_laboratory`: payments A to F | queue, dead letters, idempotency, ordering, ledger, settlement |
| Institutions, CLI | constants; none | none; scripted scenarios | the modules above |

What is hard about it, and what makes each part correct:

* **Scheduler.** Callbacks schedule for the current minute, raise half-way, and
  share a clock that code outside may move past queued events (the return
  chapter does it). Completion must stay in (time, order) order, and no event
  may be duplicated, forgotten, or dropped other than by foreign code.
* **Ledger.** Different workflows append with their own idea of time and derive
  identifiers by suffix. The ledger must refuse what does not fit, as a whole,
  and stay fit for replay.
* **ACH.** Status, hold, submission and debit change at different steps, status
  before money. Two transfers compete for funds, two returns for one transfer.
  Public stage methods may be called out of turn. Money must move exactly as the
  statuses say, once, and be given back once at most.
* **Queue, retries, dead letters.** One flag stands for the queued tick; work
  that raises ends the tick; retries re-enter the line behind later arrivals.
  No payment may be lost, doubled, overtaken or attempted beyond its limit.
* **Ordered events.** Any order, redelivery, rival versions; the applied events
  must be a gap-free prefix, independent of the order of delivery.
* **Worker pool.** Several completions fall in one minute; work that raises keeps
  its worker for ever. Capacity must change when payments are completed, never
  what the ledger says.
* **Laboratory.** Works that post at the clock's time meet works that post at
  fixed times. Outcomes and ledger must tell the same story, because the
  settlement report is built from both.
* **Settlement.** Several exceptions meet in one report; records are unique by
  identifier and direction but are matched by identifier.
* **Synchronous writers.** Three ways to look at a balance and two conventions
  for posting times meet in one ledger; a refused call must leave nothing.

`PROJECT.json` lists the hazards line by line with the properties that cover
them.

## 2. Modules

```
EventScheduler          clock.py, scheduler.py
Ledger                  ledger.py, account_balance
   |  instantiated, on the component's own variables, by
   +-- AchNetwork       ach.py, ach_returns.py          implements PaymentPromise
   |      +-- Settlement       settlement.py            reads the network's states
   +-- PaymentQueue     payment_queues.py               (scheduler only)
   |      +-- PaymentRetries   retries.py, dead_letters.py
   |             +-- Laboratory   laboratory.py         (and the ledger)
   +-- WorkerPool       worker_capacity.py              (and the ledger)
   +-- OrderedEvents    ordering.py                     (ledger only)
   +-- AccountWriters   deposits, withdrawals, balances,
   |                    transfers, idempotency          (ledger only)
   +-- Duplicates       duplicates.py, idempotency.py   (ledger only)
Onboarding              onboarding.py                   on its own
PaymentPromise          the abstract payment: refused, or debited once and
                        restored at most once

Ledger_proofs           EventScheduler, Ledger, Duplicates, Onboarding
AchNetwork_proofs       AchNetwork, PaymentPromise, Settlement
PaymentQueue_proofs     PaymentQueue
Laboratory_proofs       PaymentRetries, Laboratory
WorkerPool_proofs       WorkerPool
OrderedEvents_proofs    OrderedEvents
AccountWriters_proofs   AccountWriters
DataLemmas              sequences, sets and sums, for all of these
```

One step of a model is one Python call from outside, or one `run_next`, whose
callback is a whole handler with every call it makes. The heap is a set of
events. Names follow the code; `lost`, `jumped`, `failed`, `raised`,
`delivered`, `posted`, `owner` and `refusals` are auxiliary and only record what
happened.
Every module `MCx` gives `x` its small instance for TLC. Definitions named in a
comment "Seeded bug" are variants of the definition that follows them; they are
not part of the model and serve to show that a property can fail.

* **EventScheduler.** `RunEvent` is `run_next` on an event that is due: pop,
  advance, perform the callback's `schedule_at` calls (`pushes`), then record the
  execution or, if the callback raises, not. `DropOverdue` is `run_next` when
  `advance_to` raises after the pop. On its own, callbacks may schedule anything
  allowed and may raise. `Contract` is what components have to implement.
* **Ledger.** `Accepts` and `AcceptsBatch` are the checks of `append` and
  `append_batch`; identifiers are pairs (workflow, suffix), because collisions
  between the workflows' suffixes are possible. `LedgerContract`: start well formed and
  only ever be extended by an accepted batch.
* **AchNetwork.** One operator per handler over (status, hold, submissions,
  ledger), with `Continues`/`NextStage`/`Returns` saying what it schedules and
  whether it raises: `complete` changes the status and drops the hold *before* the
  append that may be refused, `receive` registers the transfer *before*
  `schedule_at` may refuse, and `_mark_pending` changes the status *before* it
  builds the hold. Building it raises for a description of nothing but whitespace,
  which `_invalid_reason` lets pass: a request is `described` or not, and one that is
  not stays Pending without a hold or a next stage (`Stranded`), unless someone calls
  the later stages directly. `complete` raises for it too, at the ledger entry.
  `CallStage` is a direct call of a public stage method.
* **PaymentQueue.** `RunTick` takes up to `Capacity` payments and runs their work;
  `RunTickRaises` is the tick cut short by the k-th payment's work.
* **PaymentRetries.** An attempt is a function from the processors' state to
  their next state, folded over the payments that a tick takes; retries are
  callbacks on the shared heap. Both processors share one queue, as the code
  allows; they differ in how they count retries and in `GiveUp`.
* **Laboratory.** Extends `PaymentRetries` by what the payments' works do. A work is
  a function on the state that a tick passes from attempt to attempt: `Post` posts
  at the clock's time, `Process` through the idempotent processor and `ReceiveAll`
  through the ordered one at fixed times. A work raises exactly when the ledger
  refuses its entry, and then the tick ends. `enqueue_duplicate` is payment C's
  second delivery, which no retry processor owns. `LabSpec` lets the payments be
  submitted in any order, between any two events, with any script.
* **WorkerPool.** `Dispatch` assigns the waiting payments to the idle workers and
  schedules their completions, inside `enqueue` and inside `RunComplete`. The work
  is that of `run_worker_capacity`, which raises when an identifier is posted
  twice; the worker is then never freed (`RunCompleteRaises`).
* **Settlement.** `settlement_expectations` and `reconcile` are operators on the
  state of `AchNetwork`. A report is built by giving each expected record a fate
  (reported, missing, repeated, changed, redirected) and adding unknown rows.
* **Duplicates.** `process_naively` and `process_idempotently` are folds over a
  script that grows by one delivery at a time. A delivery carries its own amount;
  a record of the idempotent processor is its key with the result it was made for,
  and a delivery with a remembered key and another result raises
  (`IdempotencyConflictError`), which ends the loop.
* **Onboarding.** One action per operation of an application.
* **OrderedEvents.** `receive` is one step with its drain; a settlement that the
  ledger refuses raises in the middle, after the state has changed.
* **AccountWriters.** A call that is rejected or refused changes nothing in the
  code, so it is no step. `posted` collects the results that callers were given.

## 3. Runs

| Run | Question | Bounds |
|---|---|---|
| `scheduler_and_ledger` | order and whereabouts of events, cause of overdue ones, emptying of the heap; well-formedness, batch = two appends; naive against idempotent processing; decisions of an application | 4 events, times 0..2, 2 pushes per callback; 3 entries, 3 identifiers, 2 times; scripts of 3 deliveries of 2 requests, 2 amounts, 3 delivery numbers, arrivals 0..1; one application |
| `ach_documented` | statuses vs. money, one event per transfer, refinement of `PaymentPromise`, termination; expectations vs. balances, every tampered report | 2 transfers, 2 returns, one with a transfer's identifier, 4 kinds of request and one whose description is refused |
| `ach_any_calls` | what survives calls out of turn, a moved clock, late requests, refused descriptions and appends | 2 transfers, 2 returns of one of them, direct calls on `t1` and `r1`, returns received up to minute 3, one jump time |
| `ordered_events` | prefix and gap, order independence, accounting, settlement | one payment, 7 deliveries, 2 versions, 2 amounts, a ledger that may refuse |
| `payment_queue` | order, capacity, tick flag, waits, completion | 5 payments, capacity 2, raising work, one jump time |
| `payment_retries` | attempts in flight, policy, decision; in the laboratory also outcomes vs. ledger, causes of refusals | 3 payments, 1 retry, scripts of 0..2 failures, 2 identifiers, capacity 2, 2 assignments of works |
| `worker_pool` | ledger vs. capacity, completions, starts, metrics, progress | 4 payments, 1 to 3 workers, 3 patterns of repeated identifiers, one jump time |
| `account_writers` | balances, funds, keys | 4 entries, 2 accounts, 2 requests, 2 keys, 3 acknowledgements |
| `ach_funds_promised_twice` | *violated*: held funds never exceed the balance | as `ach_documented` |
| `ach_completed_without_debit` | *violated*: a completed transfer has its debit | a ledger of eleven deposits |
| `ach_pending_without_hold` | *violated*: a pending transfer has its hold | as `ach_documented` |
| `ordered_lost_debit` | *violated*: a completed payment has its settlement | 2 payments, 8 deliveries |

Why the bounds are enough. Components are symmetric in their workflows, so two of
each give every pairwise race; a third payment in `payment_retries` is needed for a
payment of the other processor to share the tick in which a retry competes for
capacity 2. Scripts of two failures against one retry cover no failure, recovery and
exhaustion. Five payments at capacity 2 give two full ticks and one partly filled
one. Seven deliveries are the four sequences in any order with three redeliveries or
rivals. The time bounds are beyond the last time a workflow can reach, except in
`ach_any_calls`, whose returns are received early enough to end by minute 8: those
that end later by themselves are in `ach_documented`, and direct calls after the
jump to minute 12 end the others late. The scheduler's event bounds inside
components are never reached. In `account_writers` four entries allow a deposit, a
transfer and one debit that competes with them, and arrivals up to 4 let a payment
be posted later than the next deposit. Four payments keep one waiting while three
workers are busy, and identifiers repeated next to each other and apart make one,
two or all workers raise. Two expectations and two unknown rows meet every pair of
the five fates. Three deliveries are a request, its repetition and one with another
amount in every order, or two of these next to a delivery of the other request.

Three runs hold more than one specification, because the parts are small or
share most of their state; each behaviour belongs to one of them. `scheduler_and_ledger`
moves either the scheduler, or the ledger, or the script of `Duplicates`, or the
application of `Onboarding`; `payment_retries` holds `PaymentRetries` with external
work that may raise at will (`works` is empty) next to `Laboratory` with two
assignments of works, one with an idempotent and one with an ordered payment;
`ach_documented` evaluates `Settlement` in every state of the network.

Some properties have exceptions that are behaviour of the code, not
of the model. Those of the ACH network except the transfer whose description is
refused after it became Pending (finding 3): it has no hold
(`HeldAndSubmittedOnce`), no next event (`OneEventPerUnfinishedTransfer`) and no end
(`EveryWorkflowFinishes`). `MoneyMovesAtCompletion` says that the debit and the
credit enter the ledger with the completion or never, and names all the reasons for
never: that description, or an entry of the ledger that was posted later (finding
2). `DuplicatesAreTheDifference` compares the two ways of processing a script where
neither raises, and says exactly which scripts make either raise.
`EffectsMatchOutcomes` excepts an ordered payment that is submitted
again after its settlement was refused: its events are duplicates by then, so it
succeeds without a debit (the same cause as finding 4, and `run_laboratory`'s
report would then fail with StopIteration). `RefusalsExplained` judges each work
that raised by the ledger of that moment, which `refusals` dates: a work that posts
at the clock's time finds the entry of another payment of its identifier, which
succeeded, or an entry with a fixed posting time ahead of the clock; a work with a
fixed time finds an entry ahead of that. The sequence number and the payment's own
earlier attempts are never the reason. `CleanIffIdentifiersApart` says
that an honest report is free of exceptions *exactly* when no completed return
has the identifier of a completed transfer: `matching_key` (and its docstring,
`settlement.py:35`) includes the direction, but `reconcile` looks records up by
identifier alone. The scenarios never use one identifier for both.

What the violated runs show:

1. `_validate` checks funds in minute 1, the hold appears in minute 2. Two
   transfers validated in the same minute are both accepted, against Chapter 8's
   "prevents the same available funds from being promised twice".
2. Deposits are posted at their sequence number, ACH debits at minute 10. On a
   ledger that already holds eleven deposits `complete` marks the transfer
   Completed, drops its hold, and then the append is refused.
3. `_mark_pending` moves a transfer to Pending and then builds its hold, which
   raises for a description of nothing but whitespace. Validation had accepted it,
   so the transfer stays Pending, nothing is held for it and no stage is scheduled.
4. `OrderedEventProcessor` posts a settlement at the arrival order of its
   completion event. If the completion was buffered while another payment
   settled, the append is refused after the payment was marked complete, and a
   redelivery is a duplicate.

`ach_documented` and `ach_any_calls` are the two halves of one question:
the first assumes what the chapters do (requests before minute 1, the clock
moved only when nothing is queued, stages run by the scheduler) and shows the
full promise, the second drops these assumptions and shows what is left.

**Fairness.** Liveness is checked under weak fairness of `RunNext` only:
`EventScheduler.run` is a loop that calls `run_next` while the heap is not
empty, and the tests and scenarios call `run` after submitting work. In
`PaymentRetries` the same condition is written out, because `RunNext` is enabled
exactly while an event is queued; `Laboratory` does the same. `EveryPaymentDecided`
says that again and again nothing is undecided, unless some work raised or an
event was dropped, instead of one leads-to per payment, which is
cheaper to check. Nothing is assumed about callers.
`CHECK_DEADLOCK FALSE` is set where the system really stops: when the workflows
are finished and the bounds are used up.

## 4. Proofs

The modules `*_proofs` are checked by `tlapm` (SMT, Zenon and LS4) for every value
of the constants. The assumptions are those named in the modules, which TLC
evaluates on the instances: bounds are natural numbers, capacities and amounts are
positive, and what a workflow is given is well formed. Two of these say something
about the code's surroundings. `OpeningLedger` and `OrderingInputs` let the ledger
hold any well-formed entries before the first call, except identifiers that belong
to the workflows under proof: an entry `t1-DEBIT` of someone else would be taken for
the transfer's own. `WriterInputs` wants a finite set of accounts, without which a
sum over the accounts means nothing. The last column names what a theorem assumes in
addition: the use that the chapters make of the code (`DocumentedUse`, which is what
`ach_documented` checks), or that a sum or a report is over finitely many things.

| Property of a run | Theorem | Hypotheses beyond the module's |
|---|---|---|
| `HistoryChronological`, `EveryEventExplained` | `Ledger_proofs`: `Chronological`, `Explained` | |
| `WellFormed`, `BatchMeansOneByOne` | `Ledger_proofs`: `StaysWellFormed`, `BatchIsTwoAppends` | |
| `DuplicatesAreTheDifference` | `Ledger_proofs`: `DuplicatePrevention` | |
| `DecisionSupported` | `Ledger_proofs`: `Supported` | |
| `HeldAndSubmittedOnce`, `MoneyMovesOnce`, `MoneyMovesAtCompletion` | `AchNetwork_proofs`: `HeldOnce`, `MoneyOnce`, `MoneyAtCompletion` | |
| `SchedulerContract` | `AchNetwork_proofs`: `KeepsSchedulerContract` | |
| `OneEventPerUnfinishedTransfer`, `EffectsMatchStatus`, `KeepsPromise` | `AchNetwork_proofs`: `OneEventEach`, `EffectsMatch`, `ImplementsPromise` | `DocumentedUse` |
| `ExpectationsExplainBalances` | `AchNetwork_proofs`: `ExpectationsExplain` | `DocumentedUse` |
| `EveryTamperingFound`, `CleanIffIdentifiersApart` | `AchNetwork_proofs`: `TamperingIsFound`, `CleanIffApart` | `FiniteWorkflows` |
| `EveryPaymentInItsPlace`, `CapacityPerMinute`, `FlagFollowsTick`, `WaitMatchesPosition` | `PaymentQueue_proofs`: `NoneLostOrOvertaken`, `CapacityKept`, `FlagTellsTick`, `WaitAsPromised` | |
| `OneAttemptUnderWay`, `PolicyKept` | `Laboratory_proofs`: `OneAttempt`, `Policy` of `Spec`, `LabOneAttempt`, `LabPolicy` of `LabSpec` | |
| `EffectsMatchOutcomes`, `RefusalsExplained` | `Laboratory_proofs`: `LedgerMatches`, `Refusals` | |
| `OneCompletionPerBusyWorker`, `LedgerFollowsArrivals`, `StartsAsInFifoPool`, `MetricsAddUp` | `WorkerPool_proofs`: `OneCompletion`, `LedgerInArrivalOrder`, `StartsInFifo`, `MetricsExplained` | |
| `PrefixThenGap`, `DebitOnlyIfCompleted`, `OrderIsIrrelevant`, `EveryDeliveryDecided` | `OrderedEvents_proofs`: `AppliedInOrder`, `DebitedWhenCompleted`, `OrderOfDelivery`, `DeliveriesAccounted` | |
| `BalancesExplained`, `KeyMeansOneDebit` | `AccountWriters_proofs`: `MoneyIsExplained`, `OneDebitPerKey` | |
| `FundsCovered` | `AccountWriters_proofs`: `SpentWasThere` | `PendingBounded` |

The same modules prove the type invariants of the scheduler, the ledger, the ACH
network, the queue, the worker pool and the ordered events, and that the ACH
network, ordered events and the synchronous writers keep the ledger's contract. The retry processors' and
the laboratory's types are part of their inductive invariants. A component that
keeps a contract inherits what is proved of it, for every ledger and every set of
callbacks.

*Scheduler.* The properties are proved of `Contract`, in which neither the callbacks
nor the number of events is bounded, and `Spec => Contract` is proved separately.
Chronological completion is not inductive alone: the step that appends to the
history needs every completed event to come before every queued one
(`PastBeforeFuture`), which in turn needs the completed times to be no later than
the clock and the orders to be fresh (`OrdersFresh`), because a callback may
schedule for the current minute and only the insertion order separates it from what
has run. That every event is in one place needs freshness again, and
`OverdueOnlyByJump` needs `jumped <= clock`. `SchedInv` is the conjunction; there is
one lemma per action and one step per conjunct. `Explained` joins two invariants of
the scheduler into the one that the run checks.

*Ledger.* `LedgerContract => [](LedgerType /\ WellFormed)`: a single lemma shows
that an accepted batch of any length keeps sequence numbers, posting times and
identifiers in order, splitting on the old part, the seam and the batch. `append` is
shown to be a batch of one. `BatchIsTwoAppends` shows that `append_batch` is neither
laxer nor stricter than appending.

*ACH.* There are two invariants, as there are two runs. `Inv` holds for any callers:
stages run out of turn, any clock, any opening ledger. It ties each of the five
places a transfer leaves a trace to its status: holds (`HoldsInFlight`), submissions
(`SubmittedOnce`), the ledger (`DebitsCompleted`: an entry with a transfer's debit
identifier means that the transfer is completed, and has its amount and account),
returns (`ReturnsRegistered`, `CreditsCompleted`). `MoneyMovesOnce` then follows
because identifiers are unique in the ledger. The converse, that a completed
transfer has its debit, is false for any callers (run
`ach_completed_without_debit`); `MoneyMovesAtCompletion` is what is left of it. Its
proof shows that at a completion the identifier is free and the sequence number the
next one, so that only the posting time and the description can refuse the entry,
and that every other step keeps the entries of each workflow. `DocInv` adds it under
`DocumentedUse`: requests come before minute 1, the clock is moved only while
nothing is queued, stages are run by the scheduler, and no opening entry is posted
after minute 10, the minute at which debits are. Its further parts are that nothing
is overdue, that each unfinished transfer that is not `Stranded` has exactly the
event of its next stage at that stage's time (`NextStageQueued`), so that no
completion comes late, and that nothing in the ledger is posted after both minute 10
and the clock (`PostedInTime`), so that the ledger refuses no completion.
`ImplementsPromise` is the refinement: under `DocInv` what the ledger says of a
transfer, which is how `PaymentPromise` is instantiated, is what its status says
(`Phase`, `Taken`, `LedgerTellsPhases`); each action changes one transfer's phase
along one of the promise's actions or none, so every step maps to a step or a
stutter.

*Payment queue.* The waiting payments are the last arrivals in order (`LineInOrder`)
and those before them have left in order (`LeftInOrder`), which a tick of any length
keeps. `OneTick` says where the one tick of the flag is; `StartedBefore` says that
whatever completed did so before the queued tick is due, so a minute has one tick
and no more than its capacity. `WaitMatchesPosition` looks back at completed
payments; inductive is its counterpart for the waiting ones (`PromiseAhead`: the one
at place *i* starts *ceil(i/capacity)* ticks from now, as its position promised),
with `OnTime` for when the next tick is due.

*Retries.* `RetryInv` says who owns each entry of the line (`LineInv`), that neither
the heap nor what was lost from it holds two retries of one payment (`HeapInv`), and
that each payment is in exactly one of five places, which its record shows
(`GoodNow`): waiting, in a retry on the heap, lost with a dropped retry, broken by
work that raised, or settled, which is decided or refused its isolation. In the log
an attempt that another one follows ended in `retry`, with the delay between them,
and `pendingRetries` counts the retries on the heap and the dropped ones. One
attempt keeps this (`AttemptKeepsGood`), whatever the verdict. A tick runs several
attempts inside one step, so its effect is followed item by item: `Stage` describes
the state after the first *m* payments, each item leads from one stage to the next,
and the last stage is what the step leaves (`TickKeeps`, and `RaisingTickKeeps`
where the tick is cut short).

*Laboratory.* `LabInv` adds `Effects`, which relates the ledger, the remembered keys
and the ordered payments to the outcomes: a debit in the ledger belongs to a payment
that succeeded or, under the duplicate's identifier, to the delivered duplicate, and
a payment that succeeded has its debit, unless it is an ordered one whose settlement
was refused before. One item of a tick either returns, with its debit posted or
remembered (`Returned`), or raises, for a reason that the ledger still shows later
(`RaisedInstead`, `Refusal`), because entries are never removed; which item raised,
when, and how long the ledger was then is kept with the reason (`RaisedWorks`).
`EffectsMatchOutcomes` and `RefusalsExplained` are read off this invariant. The
invariant of the retry processors is used as it stands, because a work changes
nothing that it speaks of (`CallsNoWork` does the same for the steps that run no
work); `PolicyKept` and `OneAttemptUnderWay` hold for the laboratory by the same
argument.

*Worker pool.* `Inv` says where each payment is by its arrival order: the last
arrivals wait in order (`LineInOrder`), those before them were taken once each
(`TakenInOrder`), and each busy worker has one completion, on the heap or lost from
it, and then the worker stays busy (`OneEnd`). Completions fall due in the order in
which the payments arrived (`DueInOrder`), because every payment takes equally long;
that is why the ledger follows the arrivals whatever the number of workers
(`PostedOnce`, `OnTime`). `StartsAsInFifoPool` needs one more invariant
(`FifoStarts`), by which, while no worker is stuck, payments end in the order of
arrival and each one starts when the line of equal servers says. `MetricsAddUp` has
two: the integral of the depth is the sum of what each arrival has waited so far
(`AreaExplained`), and no worker was busy for longer than the time since the first
arrival (`BusyWithin`). `Moves` lists what a step can do to the pool, so that these
two need not look at the scheduler again.

*Settlement.* `ExpectationsExplainBalances` needs to know what in the ledger is the
network's. `OpeningStays` shows that it is the opening ledger followed by records of
the workflows. The places of one account are then split into opening entries, debits
and credits, the debits are matched one to one with the completed transfers and the
credits with the completed returns, and the sums agree (`BalanceSplits`). The two
properties of `reconcile` speak of one state and any report made from it. A report
is a fold over a set, which visits its rows in an order left open; proved is that
each identifier's rows form a block of it (`CollectedBlocks`, `ReportLaidOut`), so
that what `reconcile` finds for an identifier depends on its fate alone
(`ClassifiedAsFate`, `EveryFateSaid`).

*Duplicates.* After *k* deliveries the naive ledger has an entry for each of them,
or the loop has raised because a delivery number came twice for a request
(`NaiveSound`). The protected one has an entry for each request seen before the
first delivery whose amount differs from its request's first one, a record with that
first amount, and a count of the other deliveries; it has raised exactly if such a
delivery is among the *k* (`ProtectedSound`). Where neither has raised, what their
replays differ by is the sum over the repeats.

*Ordered events.* `PrefixThenGap` with the types, `DebitsSettled` (a settlement
entry means a completed payment of its amount) and `Followed` (what was delivered is
applied, buffered, or came after a rival amount) is inductive. One lemma describes a
`receive` with its drain whatever its length (`AppliedStep`), one each carries the
invariant over ignoring, buffering and applying an event. `OrderIsIrrelevant`
follows from `Followed`; `EveryDeliveryDecided` has an invariant of its own, because
a drain decides as many events as it takes out of the buffer, less one when the
ledger refuses.

*Synchronous writers.* `Inv` says that each posted result has its entry
(`PostedIsWritten`), each key its debit (`KeysHaveDebits`), no two keys one request
(`KeysApart`), and that each balance is the sum of what results and keys explain
(`AccountsExplained`). A fresh identifier is what makes it inductive: the ledger
took the entry, so its identifier was free, so neither a posted result nor a
remembered key had it, and the sums grow by exactly one term. `FundsCovered` is
proved on top of it from what a step does to the whole replay and the payments
(`FundsMove`). `PendingBounded`, its hypothesis, says that there is a most that the
pending credits of the given lists exceed the pending debits by, as there is for
every finite set of lists; without it the bound in the property is no number.

*Onboarding.* An application's remembered checks are those of its history
(`ChecksLogged`), and a decision is its last record and has its facts
(`DecisionLogged`).

*Sums.* `SumFunction` of the community modules takes one chosen element away after
the other. That this is a sum needs an induction over finite sets, and the library's
induction theorems cannot be used. `DataLemmas` uses instead that a nonempty set of
naturals has a least element (`LeastNatural`): a smallest counterexample is refuted.
In this way it is proved that the recursion defines a function (`SomeAddsUp`,
`OneAddsUp`), that the order does not matter (`AnyFirst`), and then what the proofs
use: a sum grows by the value of a new element and changes by the change of one
(`SumGrows`, `SumChanges`).

*Folds.* A tick, a script, a report and a reconciliation are folds over sequences or
sets of any length. Each is unfolded into the sequence of its prefix states, defined
by a recursive function (`AttemptRun`, `ItemRun`, `NaiveRun`, `ProtectedRun`); an
invariant of these states is proved like that of a loop, by refuting the least place
at which it fails, again without an induction theorem.

Only model-checked: liveness under fairness and everything that needs ENABLED, which
is out of the prover's reach. These are `EveryEventLeavesTheHeap` of the scheduler,
`EveryWorkflowFinishes` of the ACH network, and the properties of completion of the
queue, the retry processors and the worker pool (`EveryPaymentCompletes`,
`EveryPaymentDecided`, `EveryPaymentServed`). The four violated runs are
counterexamples and have no theorem. The type invariants of `PaymentRetries` and
`Laboratory` document the types of their variables; what is inductive about types
there is `StateTyped`, `LineInv` and `HeapInv`.

## 5. Not modelled

* **Institutions**: validated constants without operations that change state.
* **CLI and `describe_*`**: formatting of results.
* Inside modelled components: text validation, descriptions, display events, the
  return references of ledger entries, and statistics other than those named in
  properties. `run_capacity_scenario` and `run_worker_capacity` compare capacities
  in one report; only their arrivals and works are modelled. The laboratory's
  reconciliation is not repeated: its input is what `EffectsMatchOutcomes` is
  about, and `reconcile` is checked in `ach_documented`.
* Nothing is persisted and nothing runs in parallel, so there are no crashes,
  restarts or data races to model.

## 6. What is left

Every invariant that a run checks has a theorem. Open is what the tools or the
scope exclude: liveness for every value of the constants, the two components of
section 5, and the combined report of `run_capacity_scenario` and
`run_worker_capacity`. A change of the code that touches a mapped line should
start at the definition's entry in `PROJECT.json`, rerun TLC, and then repair the
lemma of the action concerned; the lemmas are named for the actions and the
conjuncts that they keep.
