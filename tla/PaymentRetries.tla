--------------------------- MODULE PaymentRetries ---------------------------
(***************************************************************************)
(* Bounded retries on the payment queue: RetryScheduler                    *)
(* (bank_sim/retries.py) and DeadLetterProcessor with its DeadLetterQueue  *)
(* (bank_sim/dead_letters.py), sharing one queue and one event scheduler.  *)
(*                                                                         *)
(* Both queue an attempt, and an attempt that fails transiently schedules  *)
(* a retry, which queues the next attempt.  Scripted failures are counted; *)
(* their messages are left out.  A payment is known by the position of its *)
(* submission; payment_id is kept because the dead-letter queue compares   *)
(* it.  The payment's work is external: it returns or it raises.           *)
(***************************************************************************)
EXTENDS Integers, Sequences, FiniteSets, FiniteSetsExt, SequencesExt

CONSTANTS MaximumRetries,   \* maximum_retries, of both processors
          RetryDelay,       \* retry_delay, of both processors
          PaymentIds,       \* identifiers that payments are submitted under
          Capacity, WorkRaises, JumpTimes, JumpWhileQueued,  \* the queue's
          MaxSubmissions,   \* bound: payments ever submitted
          MaxFailures,      \* bound: length of a failure script
          MaxTime, MaxEvents  \* the scheduler's bounds, never reached

ASSUME RetryInputs == /\ MaximumRetries \in Nat
                      /\ RetryDelay \in Nat \ {0}
                      /\ Capacity \in Nat \ {0}
                      /\ MaxSubmissions \in Nat /\ MaxFailures \in Nat

VARIABLES clock, queue, nextOrder, history, lost, jumped,      \* the scheduler
          waiting, completed, nextArrival, maximumDepth,       \* the queue
          tickScheduled, failed,
          payments,        \* _payments of both processors, by submission
          entries,         \* DeadLetterQueue._entries
          pendingRetries,  \* _pending_retries of each processor
          attempts,        \* RetryScheduler._attempts, and ._results
          owner            \* auxiliary: the payment of each queued attempt

schedVars == <<clock, queue, nextOrder, history, lost, jumped>>
queueVars == <<waiting, completed, nextArrival, maximumDepth, tickScheduled,
               failed>>
retryVars == <<payments, entries, pendingRetries, attempts, owner>>
vars == <<schedVars, queueVars, retryVars>>

Processor == {"retries", "dead_letters"}
Outcome == {"none", "succeeded", "failed"}  \* "failed" is also isolated

Submission == 1..MaxSubmissions

Queue == INSTANCE PaymentQueue WITH
           OtherCallbacks <- {<<"retry", p>> : p \in Submission},
           MaxPayments <- MaxSubmissions * (MaximumRetries + 1),
           MaxArrivalTime <- 0

Payment == [processor : Processor, payment_id : PaymentIds, failures : Nat,
            permanent : BOOLEAN, attempts : Nat, retry_count : Nat,
            outcome : Outcome, worked : Nat]  \* worked: calls of its work

Attempt == [payment : Submission, attempt_number : Nat, attempted_at : Nat,
            result : {"retry", "succeeded", "failed"}]

Init == /\ Queue!Init
        /\ payments = <<>>
        /\ entries = <<>>
        /\ pendingRetries = [r \in Processor |-> 0]
        /\ attempts = <<>>
        /\ owner = <<>>
-----------------------------------------------------------------------------
(***************************************************************************)
(* One attempt, as a function from the processors' state to the state that *)
(* it leaves: s has the fields payments, entries, pendingRetries, attempts *)
(* and pushes, the events it schedules.                                    *)
(***************************************************************************)
\* Seeded bug: a retry is allowed after the last one.
VerdictOneMore(pay) ==
  IF pay.processor = "dead_letters" /\ pay.permanent THEN "fail"
  ELSE IF pay.attempts + 1 > pay.failures THEN "work"
  ELSE IF pay.attempts <= MaximumRetries THEN "retry"
  ELSE "fail"

\* What the attempt decides before it calls the work.  Permanent reasons, which
\* only the dead-letter processor has, come first; it counts its retries, the
\* retry scheduler derives them from the attempt's number.
Verdict(pay) ==
  LET number == pay.attempts + 1
      used == IF pay.processor = "retries" THEN number - 1 ELSE pay.retry_count
  IN  IF pay.processor = "dead_letters" /\ pay.permanent THEN "fail"
      ELSE IF number > pay.failures THEN "work"
      ELSE IF used < MaximumRetries THEN "retry"
      ELSE "fail"

\* The dead-letter processor queues and makes no attempt for a finished payment.
Finished(pay) == pay.processor = "dead_letters" /\ pay.outcome # "none"

Noted(s, p, result, now) ==
  [s EXCEPT !.attempts = Append(@, [payment |-> p,
              attempt_number |-> s.payments[p].attempts, attempted_at |-> now,
              result |-> result])]

\* A retry is counted and scheduled after the delay.
RetryLater(s, p, now) ==
  LET r == s.payments[p].processor IN
  [Noted(s, p, "retry", now) EXCEPT
     !.payments[p].retry_count = IF r = "dead_letters" THEN @ + 1 ELSE @,
     !.pendingRetries[r] = @ + 1,
     !.pushes = Append(@, [time |-> now + RetryDelay,
                           callback |-> <<"retry", p>>])]

Isolated(s, id) == \E i \in DOMAIN s.entries : s.entries[i].payment_id = id

\* The retry scheduler gives the payment up; the dead-letter processor isolates
\* it, unless its identifier is isolated already: then nothing more happens.
GiveUp(s, p, now) ==
  LET pay == s.payments[p] IN
  IF pay.processor = "retries"
  THEN [Noted(s, p, "failed", now) EXCEPT !.payments[p].outcome = "failed"]
  ELSE IF Isolated(s, pay.payment_id)
  THEN s
  ELSE [Noted(s, p, "failed", now) EXCEPT
          !.payments[p].outcome = "failed",
          !.entries = Append(@, [payment_id |-> pay.payment_id,
                                 retry_count |-> pay.retry_count,
                                 isolated_at |-> now])]

\* Seeded bug: a raising work is treated as a transient failure.
WorkRetried(s, p, raises, now) ==
  LET called == [s EXCEPT !.payments[p].worked = @ + 1]
  IN  IF raises THEN RetryLater(called, p, now)
      ELSE [Noted(called, p, "succeeded", now)
              EXCEPT !.payments[p].outcome = "succeeded"]

\* The work is called; when it raises, nothing after the call happens.
Work(s, p, raises, now) ==
  LET called == [s EXCEPT !.payments[p].worked = @ + 1]
  IN  IF raises THEN called
      ELSE [Noted(called, p, "succeeded", now)
              EXCEPT !.payments[p].outcome = "succeeded"]

\* The callback that an attempt queues.
Attempted(s, p, raises, now) ==
  LET verdict == Verdict(s.payments[p])
      counted == [s EXCEPT !.payments[p].attempts = @ + 1]
  IN  IF Finished(s.payments[p]) THEN s ELSE
      CASE verdict = "work" -> Work(counted, p, raises, now)
        [] verdict = "retry" -> RetryLater(counted, p, now)
        [] verdict = "fail" -> GiveUp(counted, p, now)
-----------------------------------------------------------------------------
(***************************************************************************)
(* Actions.                                                                *)
(***************************************************************************)
\* submit of either processor, between two events: the payment is registered and
\* its first attempt is queued.
submit(processor, id, failures, permanent) ==
  /\ Len(payments) < MaxSubmissions
  /\ payments' = Append(payments,
       [processor |-> processor, payment_id |-> id, failures |-> failures,
        permanent |-> permanent, attempts |-> 0, retry_count |-> 0,
        outcome |-> "none", worked |-> 0])
  /\ owner' = Append(owner, Len(payments) + 1)
  /\ Queue!enqueue
  /\ UNCHANGED <<entries, pendingRetries, attempts>>

\* Seeded bug: the retry does not wake the worker.
RunRetryNoWake(e) ==
  LET p == e.callback[2] IN
  /\ e.callback[1] = "retry"
  /\ pendingRetries' = [pendingRetries EXCEPT ![payments[p].processor] = @ - 1]
  /\ owner' = Append(owner, p)
  /\ Queue!EnqueueAt(e.time)
  /\ Queue!Sched!RunEvent(e, <<>>, TRUE)
  /\ UNCHANGED <<payments, entries, attempts>>

\* run_next runs a retry: it queues the next attempt, except that the dead-letter
\* processor checks once more that the payment is not finished.
RunRetry(e) ==
  LET p == e.callback[2] IN
  /\ e.callback[1] = "retry"
  /\ pendingRetries' = [pendingRetries EXCEPT ![payments[p].processor] = @ - 1]
  /\ owner' = IF Finished(payments[p]) THEN owner ELSE Append(owner, p)
  /\ IF Finished(payments[p])
     THEN Queue!Sched!RunEvent(e, <<>>, TRUE) /\ UNCHANGED queueVars
     ELSE /\ Queue!Sched!RunEvent(e, Queue!WakePushes(e.time), TRUE)
          /\ Queue!EnqueueAt(e.time)
  /\ UNCHANGED <<payments, entries, attempts>>

\* The payments of the attempts that a tick takes.
BatchPayments == [i \in DOMAIN Queue!Batch |->
                    owner[Queue!Batch[i].arrival_order + 1]]

\* The processors' state once the first n attempts of a tick at time now have
\* run, where the work of the last one raises if raises.
AfterAttempts(n, raises, now) ==
  FoldLeft(LAMBDA s, i : Attempted(s, BatchPayments[i], raises /\ i = n, now),
           [payments |-> payments, entries |-> entries,
            pendingRetries |-> pendingRetries, attempts |-> attempts,
            pushes |-> <<>>],
           [i \in 1..n |-> i])

TakesOver(s) == /\ payments' = s.payments
                /\ entries' = s.entries
                /\ pendingRetries' = s.pendingRetries
                /\ attempts' = s.attempts
                /\ UNCHANGED owner

\* run_next runs the worker's tick, whose work is the attempts.
RunTick(e) ==
  \E s \in {AfterAttempts(Len(BatchPayments), FALSE, e.time)} :
    Queue!RunTick(e, s.pushes) /\ TakesOver(s)

\* A tick in which the work of the k-th attempt is called and raises.
RunTickRaises(e, k) ==
  /\ Verdict(payments[BatchPayments[k]]) = "work"
  /\ \E s \in {AfterAttempts(k, TRUE, e.time)} :
       Queue!RunTickRaises(e, k, s.pushes) /\ TakesOver(s)

RunNext ==
  \E e \in queue :
    \/ RunRetry(e)
    \/ RunTick(e)
    \/ \E k \in DOMAIN BatchPayments : RunTickRaises(e, k)
    \/ Queue!Sched!DropOverdue(e) /\ UNCHANGED <<queueVars, retryVars>>

\* The retry scheduler never looks at the identifier: one is enough for it.
Submit ==
  \/ \E failures \in 0..MaxFailures :
       submit("retries", CHOOSE id \in PaymentIds : TRUE, failures, FALSE)
  \/ \E failures \in 0..MaxFailures, id \in PaymentIds :
       submit("dead_letters", id, failures, FALSE)
  \/ \E id \in PaymentIds : submit("dead_letters", id, 0, TRUE)

Jump == \E time \in JumpTimes : Queue!Jump(time) /\ UNCHANGED retryVars

Next == RunNext \/ Submit \/ Jump

Spec == Init /\ [][Next]_vars

\* EventScheduler.run keeps calling run_next while an event is queued: weak
\* fairness of RunNext, which is enabled exactly while one is, written out because
\* TLC is slow to find out that it is enabled.
FairSpec == Spec /\ ([]<>(queue = {}) \/ []<><<RunNext>>_vars)
-----------------------------------------------------------------------------
(***************************************************************************)
(* Properties.                                                             *)
(***************************************************************************)
\* The type invariant of the processors, their queue and their scheduler.
TypeOK == /\ Queue!TypeOK
          /\ payments \in Seq(Payment)
          /\ entries \in Seq([payment_id : PaymentIds, retry_count : Nat,
                              isolated_at : Nat])
          /\ pendingRetries \in [Processor -> Nat]
          /\ attempts \in Seq(Attempt)
          /\ owner \in Seq(DOMAIN payments)

Waits(p) == {i \in DOMAIN waiting : owner[waiting[i].arrival_order + 1] = p}
Retries(p) == {e \in queue : e.callback = <<"retry", p>>}
DroppedRetries(p) == {l \in lost : l.event.callback = <<"retry", p>>}
Raised(p) == {o \in failed : owner[o + 1] = p}
Decided(p) == payments[p].outcome # "none"

\* A dead-letter payment that was given up under an identifier that another
\* payment had already isolated: it has no outcome and no further attempt.
Refused(p) == /\ payments[p].processor = "dead_letters" /\ ~Decided(p)
              /\ payments[p].attempts > 0
              /\ \E i \in DOMAIN entries :
                   entries[i].payment_id = payments[p].payment_id

\* Every undecided payment has exactly one attempt under way (it waits in the
\* queue, or its retry is scheduled, or that retry was dropped as overdue, or its
\* work raised), a decided one has none, the only exception being a payment whose
\* isolation was refused; and the pending counters agree with the heap.  No tick,
\* retry, raise or interleaving of the two processors loses or doubles an attempt.
OneAttemptUnderWay ==
  /\ \A p \in DOMAIN payments :
       LET places == Cardinality(Waits(p)) + Cardinality(Retries(p))
                     + Cardinality(DroppedRetries(p)) + Cardinality(Raised(p))
       IN \/ places = IF Decided(p) THEN 0 ELSE 1
          \/ places = 0 /\ Refused(p)
  /\ \A r \in Processor :
       pendingRetries[r] =
         SumFunction(
           [p \in {q \in DOMAIN payments : payments[q].processor = r} |->
              Cardinality(Retries(p)) + Cardinality(DroppedRetries(p))])

\* The retry policy is kept by both processors whatever shares the queue: a payment
\* has one attempt more than the allowed retries at most, is given up only with
\* its retries used up (or for a permanent reason) and succeeds on the attempt
\* after its scripted failures; its work is called once at most, and never when it
\* is given up; and two attempts of it are at least the delay apart.
PolicyKept ==
  /\ \A p \in DOMAIN payments :
       LET pay == payments[p] IN
       /\ pay.attempts <= MaximumRetries + 1
       /\ pay.worked <= 1
       /\ pay.outcome = "failed" => /\ pay.worked = 0
                                    /\ pay.permanent \/ pay.attempts = MaximumRetries + 1
       /\ pay.outcome = "succeeded" => /\ pay.worked = 1
                                       /\ pay.attempts = pay.failures + 1
  /\ \A i, j \in DOMAIN attempts :
       i < j /\ attempts[i].payment = attempts[j].payment =>
         /\ attempts[i].result = "retry"
         /\ attempts[j].attempted_at >= attempts[i].attempted_at + RetryDelay

\* Again and again every payment submitted so far is decided or its isolation
\* refused, unless some work raises or an event is dropped as overdue (the retries
\* are bounded and run keeps the worker ticking).
EveryPaymentDecided ==
  []<>(\/ \A p \in DOMAIN payments : Decided(p) \/ Refused(p)
       \/ failed # {}
       \/ lost # {})
=============================================================================
