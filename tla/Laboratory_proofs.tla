-------------------------- MODULE Laboratory_proofs --------------------------
(***************************************************************************)
(* Proofs about the retry processors, on their own and in the laboratory.  *)
(***************************************************************************)
EXTENDS Laboratory, DataLemmas

-----------------------------------------------------------------------------
(***************************************************************************)
(* The processors' state in the middle of a tick.                          *)
(*                                                                         *)
(* Besides the payments (pays), the isolated entries (ents), the pending   *)
(* counters (pend) and the attempts (atts) it is said of: the payments     *)
(* that wait (W), the retries that are queued, as pairs of a payment and   *)
(* the time it is due (R), the payments whose retry was dropped (D) and    *)
(* those whose work raised (F).                                            *)
(***************************************************************************)
Isolation == [payment_id : PaymentIds, retry_count : Nat, isolated_at : Nat]

Of(R) == {r[1] : r \in R}

\* A payment whose next attempt is under way.
Live(pay) == /\ pay.outcome = "none" /\ pay.worked = 0
             /\ pay.attempts <= MaximumRetries
             /\ pay.attempts <= pay.failures
             /\ pay.processor = "dead_letters" => pay.retry_count = pay.attempts

\* A payment whose work raised.
Broken(pay) == /\ pay.outcome = "none" /\ pay.worked = 1
               /\ pay.attempts <= MaximumRetries + 1

\* A payment that is not attempted again: decided, or its isolation was refused.
Settled(ents, pay) ==
  /\ pay.attempts <= MaximumRetries + 1
  /\ \/ /\ pay.outcome = "succeeded" /\ pay.worked = 1
        /\ pay.attempts = pay.failures + 1
     \/ /\ pay.outcome = "failed" /\ pay.worked = 0
        /\ pay.permanent \/ pay.attempts = MaximumRetries + 1
     \/ /\ pay.outcome = "none" /\ pay.worked = 0 /\ pay.attempts > 0
        /\ pay.processor = "dead_letters"
        /\ \E i \in DOMAIN ents : ents[i].payment_id = pay.payment_id

\* A payment is in one place at most.
Apart(W, R, D, F) == /\ W \cap Of(R) = {} /\ W \cap D = {} /\ W \cap F = {}
                     /\ Of(R) \cap D = {} /\ Of(R) \cap F = {} /\ D \cap F = {}

\* What each payment's record says follows from its place.
Placed(pays, ents, W, R, D, F) ==
  /\ W \subseteq DOMAIN pays /\ Of(R) \subseteq DOMAIN pays
  /\ D \subseteq DOMAIN pays /\ F \subseteq DOMAIN pays
  /\ \A p \in W \cup Of(R) \cup D : Live(pays[p])
  /\ \A p \in F : Broken(pays[p])
  /\ \A p \in DOMAIN pays \ (W \cup Of(R) \cup D \cup F) : Settled(ents, pays[p])

\* The attempts so far, and when the next one may come.
Logged(pays, atts, W, R, now) ==
  /\ \A i \in DOMAIN atts :
       /\ atts[i].payment \in DOMAIN pays
       /\ atts[i].attempted_at <= now
       /\ atts[i].payment \in W =>
            atts[i].result = "retry" /\ atts[i].attempted_at + RetryDelay <= now
       /\ \A r \in R : atts[i].payment = r[1] =>
            atts[i].result = "retry" /\ atts[i].attempted_at + RetryDelay <= r[2]
  /\ \A i, j \in DOMAIN atts :
       i < j /\ atts[i].payment = atts[j].payment =>
         /\ atts[i].result = "retry"
         /\ atts[j].attempted_at >= atts[i].attempted_at + RetryDelay

\* The payments of one processor among those in S.
Under(pays, S, r) == {p \in S : pays[p].processor = r}

\* The pending counters are the retries that were not run.
Counted(pays, pend, R, D) ==
  \A r \in Processor : pend[r] = Cardinality(Under(pays, Of(R) \cup D, r))

Typed(pays, ents, pend, atts) ==
  /\ pays \in Seq(Payment)
  /\ ents \in Seq(Isolation)
  /\ pend \in [Processor -> Nat]
  /\ atts \in Seq(Attempt)

Good(pays, ents, pend, atts, W, R, D, F, now) ==
  /\ Typed(pays, ents, pend, atts)
  /\ Apart(W, R, D, F)
  /\ Placed(pays, ents, W, R, D, F)
  /\ Logged(pays, atts, W, R, now)
  /\ Counted(pays, pend, R, D)
-----------------------------------------------------------------------------
\* What one attempt of p makes of the state: the payment's new record is q, and
\* there is a record a of the attempt, except of one that came to nothing.
SameButAttempted(pay, q) ==
  /\ q \in Payment
  /\ q.processor = pay.processor /\ q.payment_id = pay.payment_id
  /\ q.failures = pay.failures /\ q.permanent = pay.permanent
  /\ q.attempts = pay.attempts + 1

TriedPayment(pays, ents, pays2, ents2, p, q) ==
  /\ SameButAttempted(pays[p], q)
  /\ pays2 = [pays EXCEPT ![p] = q]
  /\ ents2 \in Seq(Isolation)
  /\ \A i \in DOMAIN ents : \E j \in DOMAIN ents2 :
       ents2[j].payment_id = ents[i].payment_id

Recorded(atts, atts2, p, now, result) ==
  \E a \in Attempt : /\ a.payment = p /\ a.attempted_at = now /\ a.result = result
                     /\ atts2 = Append(atts, a)

TriedRetry(pend, pend2, atts, atts2, R, R2, F, F2, now, p, q) ==
  /\ Live(q)
  /\ Recorded(atts, atts2, p, now, "retry")
  /\ pend2 = [pend EXCEPT ![q.processor] = @ + 1]
  /\ R2 = R \cup {<<p, now + RetryDelay>>} /\ F2 = F

TriedWork(pend, pend2, atts, atts2, R, R2, F, F2, p, q) ==
  /\ Broken(q)
  /\ atts2 = atts /\ pend2 = pend /\ R2 = R /\ F2 = F \cup {p}

TriedLast(ents2, pend, pend2, atts, atts2, R, R2, F, F2, now, p, q) ==
  /\ Settled(ents2, q)
  /\ \/ atts2 = atts
     \/ Recorded(atts, atts2, p, now, "succeeded")
     \/ Recorded(atts, atts2, p, now, "failed")
  /\ pend2 = pend /\ R2 = R /\ F2 = F

\* Where p goes from the waiting line.
Moves(ents2, R, R2, F, F2, p, q) ==
  \/ Live(q) /\ Of(R2) = Of(R) \cup {p} /\ F2 = F
  \/ Broken(q) /\ Of(R2) = Of(R) /\ F2 = F \cup {p}
  \/ Settled(ents2, q) /\ Of(R2) = Of(R) /\ F2 = F

OneMoves(pays, ents, pays2, ents2, W, R, D, F, R2, F2, p, q) ==
  /\ pays \in Seq(Payment) /\ Apart(W, R, D, F) /\ Placed(pays, ents, W, R, D, F)
  /\ p \in W /\ TriedPayment(pays, ents, pays2, ents2, p, q)
  /\ Moves(ents2, R, R2, F, F2, p, q)

LEMMA TriedPlaced ==
  ASSUME NEW pays, NEW ents, NEW pays2, NEW ents2, NEW W, NEW R, NEW D, NEW F,
         NEW R2, NEW F2, NEW p, NEW q,
         OneMoves(pays, ents, pays2, ents2, W, R, D, F, R2, F2, p, q)
  PROVE  /\ Apart(W \ {p}, R2, D, F2) /\ Placed(pays2, ents2, W \ {p}, R2, D, F2)
         /\ pays2 \in Seq(Payment) /\ DOMAIN pays2 = DOMAIN pays
         /\ \A x \in DOMAIN pays : pays2[x].processor = pays[x].processor
  <1>0. /\ pays \in Seq(Payment) /\ Apart(W, R, D, F) /\ Placed(pays, ents, W, R, D, F)
        /\ p \in W /\ TriedPayment(pays, ents, pays2, ents2, p, q)
        /\ Moves(ents2, R, R2, F, F2, p, q)
    BY DEF OneMoves
  <1>1. /\ p \in DOMAIN pays /\ DOMAIN pays = 1..Len(pays) /\ Len(pays) \in Nat
        /\ \A x \in DOMAIN pays : pays[x] \in Payment
    BY <1>0, LenProperties, ElementOfSeq DEF Placed
  <1>2. /\ DOMAIN pays2 = DOMAIN pays /\ pays2[p] = q
        /\ \A x \in DOMAIN pays : x # p => pays2[x] = pays[x]
    BY <1>0, <1>1 DEF TriedPayment
  <1>3. pays2 \in Seq(Payment)
    <2>1. pays2 \in [1..Len(pays) -> Payment]
      BY <1>0, <1>1 DEF TriedPayment, SameButAttempted
    <2> QED BY <1>1, <2>1, SeqDef
  <1>4. \A x \in DOMAIN pays : pays2[x].processor = pays[x].processor
    BY <1>0, <1>2 DEF TriedPayment, SameButAttempted
  <1>5. ASSUME NEW x \in DOMAIN pays, Settled(ents, pays[x])
        PROVE  Settled(ents2, pays[x])
    BY <1>0, <1>5 DEF Settled, TriedPayment
  <1>6. Apart(W \ {p}, R2, D, F2)
    BY <1>0 DEF Apart, Moves
  <1>7. Placed(pays2, ents2, W \ {p}, R2, D, F2)
    <2>1. /\ W \subseteq DOMAIN pays /\ Of(R) \subseteq DOMAIN pays
          /\ D \subseteq DOMAIN pays /\ F \subseteq DOMAIN pays
      BY <1>0 DEF Placed
    <2>2. p \notin Of(R) /\ p \notin D /\ p \notin F
      BY <1>0 DEF Apart
    <2>3. \A x \in (W \ {p}) \cup Of(R2) \cup D : Live(pays2[x])
      BY <1>0, <1>1, <1>2, <2>1, <2>2 DEF Placed, Moves
    <2>4. \A x \in F2 : Broken(pays2[x])
      BY <1>0, <1>1, <1>2, <2>1, <2>2 DEF Placed, Moves
    <2>5. \A x \in DOMAIN pays \ ((W \ {p}) \cup Of(R2) \cup D \cup F2) : Settled(ents2, pays2[x])
      <3> SUFFICES ASSUME NEW x \in DOMAIN pays,
                          x \notin (W \ {p}) \cup Of(R2) \cup D \cup F2
                   PROVE  Settled(ents2, pays2[x])
        OBVIOUS
      <3>1. CASE x = p
        BY <1>0, <3>1, <1>2 DEF Moves
      <3>2. CASE x # p
        <4>1. x \notin W \cup Of(R) \cup D \cup F
          BY <1>0, <3>2 DEF Moves
        <4> QED BY <1>0, <4>1, <3>2, <1>2, <1>5 DEF Placed
      <3> QED BY <3>1, <3>2
    <2> QED BY <1>0, <1>1, <1>2, <2>1, <2>3, <2>4, <2>5 DEF Placed, Moves
  <1> QED BY <1>2, <1>3, <1>4, <1>6, <1>7

\* One more attempt in the log.
LEMMA OneMoreAttempt ==
  ASSUME NEW pays, NEW atts, NEW atts2, NEW W, NEW R, NEW R2, NEW p, NEW now,
         NEW result,
         atts \in Seq(Attempt), now \in Nat, RetryDelay \in Nat, p \in W,
         p \in DOMAIN pays, p \notin Of(R),
         Logged(pays, atts, W, R, now), Recorded(atts, atts2, p, now, result),
         \/ R2 = R
         \/ R2 = R \cup {<<p, now + RetryDelay>>} /\ result = "retry"
  PROVE  atts2 \in Seq(Attempt) /\ Logged(pays, atts2, W \ {p}, R2, now)
  <1>1. PICK a \in Attempt : /\ a.payment = p /\ a.attempted_at = now
                             /\ a.result = result /\ atts2 = Append(atts, a)
    BY DEF Recorded
  <1>2. PICK n \in Nat : n = Len(atts)
    BY LenProperties
  <1>3. /\ atts2 \in Seq(Attempt)
        /\ DOMAIN atts = 1..n /\ DOMAIN atts2 = 1..(n + 1)
        /\ \A i \in 1..n : atts2[i] = atts[i] /\ atts[i] \in Attempt
        /\ atts2[n + 1] = a
    BY <1>1, <1>2, AppendOne
  <1>4. \A i \in 1..n : atts[i].attempted_at \in Nat
    BY <1>3 DEF Attempt
  <1>5. \A i \in DOMAIN atts2 : i \in 1..n \/ i = n + 1
    BY <1>3
  <1>6. ASSUME NEW i \in DOMAIN atts2
        PROVE  /\ atts2[i].payment \in DOMAIN pays
               /\ atts2[i].attempted_at <= now
               /\ atts2[i].payment \in W \ {p} =>
                    /\ atts2[i].result = "retry"
                    /\ atts2[i].attempted_at + RetryDelay <= now
               /\ \A r \in R2 : atts2[i].payment = r[1] =>
                    /\ atts2[i].result = "retry"
                    /\ atts2[i].attempted_at + RetryDelay <= r[2]
    <2>1. CASE i \in 1..n
      <3>1. /\ atts2[i] = atts[i] /\ atts2[i].payment \in DOMAIN pays
            /\ atts2[i].attempted_at <= now
            /\ atts2[i].payment \in W =>
                 /\ atts2[i].result = "retry"
                 /\ atts2[i].attempted_at + RetryDelay <= now
            /\ \A r \in R : atts2[i].payment = r[1] =>
                 /\ atts2[i].result = "retry"
                 /\ atts2[i].attempted_at + RetryDelay <= r[2]
        BY <2>1, <1>3 DEF Logged
      <3>2. ASSUME atts2[i].payment = p
            PROVE  atts2[i].result = "retry" /\ atts2[i].attempted_at + RetryDelay <= now + RetryDelay
        BY <3>1, <3>2, <2>1, <1>4
      <3> QED BY <3>1, <3>2
    <2>2. CASE i = n + 1
      <3>1. \A r \in R : r[1] # p
        BY DEF Of
      <3> QED BY <2>2, <3>1, <1>1, <1>3
    <2> QED BY <2>1, <2>2, <1>5
  <1>7. ASSUME NEW i \in DOMAIN atts2, NEW j \in DOMAIN atts2, i < j,
               atts2[i].payment = atts2[j].payment
        PROVE  /\ atts2[i].result = "retry"
               /\ atts2[j].attempted_at >= atts2[i].attempted_at + RetryDelay
    <2>1. i \in 1..n /\ (j \in 1..n \/ j = n + 1)
      BY <1>5, <1>7, <1>2, <1>3
    <2>2. CASE j \in 1..n
      BY <2>1, <2>2, <1>3, <1>7 DEF Logged
    <2>3. CASE j = n + 1
      <3>1. atts2[j].attempted_at = now /\ atts[i].payment = p /\ atts2[i] = atts[i]
        BY <2>1, <2>3, <1>1, <1>3, <1>7
      <3>2. atts[i].result = "retry" /\ atts[i].attempted_at + RetryDelay <= now
        BY <3>1, <2>1, <1>3 DEF Logged
      <3> QED BY <3>1, <3>2, <2>1, <1>4
    <2> QED BY <2>1, <2>2, <2>3
  <1> QED BY <1>3, <1>6, <1>7 DEF Logged

LEMMA SameLog ==
  ASSUME NEW pays, NEW atts, NEW W, NEW R, NEW p, NEW now, Logged(pays, atts, W, R, now)
  PROVE  Logged(pays, atts, W \ {p}, R, now)
  BY DEF Logged

\* The log of the payments is about their positions.
LEMMA LogOfPositions ==
  ASSUME NEW pays, NEW pays2, NEW atts, NEW W, NEW R, NEW now,
         Logged(pays, atts, W, R, now), DOMAIN pays \subseteq DOMAIN pays2
  PROVE  Logged(pays2, atts, W, R, now)
  BY DEF Logged

LEMMA OneMoreRetry ==
  ASSUME NEW R, NEW p, NEW t
  PROVE  Of(R \cup {<<p, t>>}) = Of(R) \cup {p}
  <1>1. <<p, t>>[1] = p
    OBVIOUS
  <1>2. ASSUME NEW x \in Of(R \cup {<<p, t>>}) PROVE x \in Of(R) \cup {p}
    <2>1. PICK r \in R \cup {<<p, t>>} : x = r[1]
      BY <1>2 DEF Of
    <2> QED BY <1>1, <2>1 DEF Of
  <1>3. ASSUME NEW x \in Of(R) \cup {p} PROVE x \in Of(R \cup {<<p, t>>})
    <2>1. ASSUME x \in Of(R) PROVE x \in Of(R \cup {<<p, t>>})
      BY <2>1 DEF Of
    <2>2. ASSUME x = p PROVE x \in Of(R \cup {<<p, t>>})
      <3>1. <<p, t>> \in R \cup {<<p, t>>} /\ x = <<p, t>>[1]
        BY <2>2, <1>1
      <3> QED BY <3>1 DEF Of
    <2> QED BY <1>3, <2>1, <2>2
  <1> QED BY <1>2, <1>3

\* A retry more, of a payment that had none.
MorePending(pays, pays2, pend, pend2, R, R2, D, p, t) ==
  /\ Counted(pays, pend, R, D) /\ pend \in [Processor -> Nat]
  /\ IsFiniteSet(DOMAIN pays) /\ Of(R) \subseteq DOMAIN pays /\ D \subseteq DOMAIN pays
  /\ p \in DOMAIN pays /\ p \notin Of(R) /\ p \notin D
  /\ pays[p].processor \in Processor
  /\ \A x \in DOMAIN pays : pays2[x].processor = pays[x].processor
  /\ R2 = R \cup {<<p, t>>} /\ pend2 = [pend EXCEPT ![pays[p].processor] = @ + 1]

LEMMA OneMorePending ==
  ASSUME NEW pays, NEW pays2, NEW pend, NEW pend2, NEW R, NEW R2, NEW D, NEW p, NEW t,
         MorePending(pays, pays2, pend, pend2, R, R2, D, p, t)
  PROVE  pend2 \in [Processor -> Nat] /\ Counted(pays2, pend2, R2, D)
  <1>0. /\ Counted(pays, pend, R, D) /\ pend \in [Processor -> Nat]
        /\ IsFiniteSet(DOMAIN pays) /\ Of(R) \subseteq DOMAIN pays /\ D \subseteq DOMAIN pays
        /\ p \in DOMAIN pays /\ p \notin Of(R) /\ p \notin D
        /\ pays[p].processor \in Processor
        /\ \A x \in DOMAIN pays : pays2[x].processor = pays[x].processor
        /\ R2 = R \cup {<<p, t>>} /\ pend2 = [pend EXCEPT ![pays[p].processor] = @ + 1]
    BY DEF MorePending
  <1>1. Of(R2) = Of(R) \cup {p}
    BY <1>0, OneMoreRetry
  <1>2. pend2 \in [Processor -> Nat]
    BY <1>0
  <1>3. ASSUME NEW r \in Processor
        PROVE  pend2[r] = Cardinality(Under(pays2, Of(R2) \cup D, r))
    <2>1. /\ IsFiniteSet(Under(pays, Of(R) \cup D, r))
          /\ p \notin Under(pays, Of(R) \cup D, r)
      <3>1. Under(pays, Of(R) \cup D, r) \subseteq DOMAIN pays
        BY <1>0 DEF Under
      <3> QED BY <1>0, <3>1, FS_Subset DEF Under
    <2>2. CASE r = pays[p].processor
      <3>1. Under(pays2, Of(R2) \cup D, r) = Under(pays, Of(R) \cup D, r) \cup {p}
        BY <1>0, <2>2, <1>1 DEF Under
      <3>2. Cardinality(Under(pays2, Of(R2) \cup D, r))
              = Cardinality(Under(pays, Of(R) \cup D, r)) + 1
        BY <3>1, <2>1, FS_AddElement
      <3>3. pend2[r] = pend[r] + 1
        BY <1>0, <2>2
      <3> QED BY <1>0, <3>2, <3>3 DEF Counted
    <2>3. CASE r # pays[p].processor
      <3>1. Under(pays2, Of(R2) \cup D, r) = Under(pays, Of(R) \cup D, r)
        BY <1>0, <2>3, <1>1 DEF Under
      <3>2. pend2[r] = pend[r]
        BY <1>0, <2>3
      <3> QED BY <1>0, <3>1, <3>2 DEF Counted
    <2> QED BY <2>2, <2>3
  <1> QED BY <1>2, <1>3 DEF Counted

LEMMA SamePending ==
  ASSUME NEW pays, NEW pays2, NEW pend, NEW R, NEW R2, NEW D, NEW D2,
         Counted(pays, pend, R, D), Of(R) \subseteq DOMAIN pays, D \subseteq DOMAIN pays,
         \A x \in DOMAIN pays : pays2[x].processor = pays[x].processor,
         Of(R2) \cup D2 = Of(R) \cup D
  PROVE  Counted(pays2, pend, R2, D2)
  <1>1. \A r : Under(pays2, Of(R2) \cup D2, r) = Under(pays, Of(R) \cup D, r)
    BY DEF Under
  <1> QED BY <1>1 DEF Counted

\* Whatever an attempt comes to, it leaves a good state.
TriedSomehow(ents2, pend, pend2, atts, atts2, R, R2, F, F2, now, p, q) ==
  \/ TriedRetry(pend, pend2, atts, atts2, R, R2, F, F2, now, p, q)
  \/ TriedWork(pend, pend2, atts, atts2, R, R2, F, F2, p, q)
  \/ TriedLast(ents2, pend, pend2, atts, atts2, R, R2, F, F2, now, p, q)

LEMMA TriedKeepsGood ==
  ASSUME NEW pays, NEW ents, NEW pend, NEW atts, NEW pays2, NEW ents2, NEW pend2,
         NEW atts2, NEW W, NEW R, NEW D, NEW F, NEW R2, NEW F2, NEW now \in Nat,
         NEW p, NEW q,
         Good(pays, ents, pend, atts, W, R, D, F, now), p \in W,
         TriedPayment(pays, ents, pays2, ents2, p, q),
         TriedSomehow(ents2, pend, pend2, atts, atts2, R, R2, F, F2, now, p, q)
  PROVE  Good(pays2, ents2, pend2, atts2, W \ {p}, R2, D, F2, now)
  <1>1. /\ pays \in Seq(Payment) /\ Apart(W, R, D, F) /\ Placed(pays, ents, W, R, D, F)
        /\ Logged(pays, atts, W, R, now) /\ Counted(pays, pend, R, D)
        /\ pend \in [Processor -> Nat] /\ atts \in Seq(Attempt)
    BY DEF Good, Typed
  <1>2. /\ p \in DOMAIN pays /\ Of(R) \subseteq DOMAIN pays /\ D \subseteq DOMAIN pays
        /\ p \notin Of(R) /\ p \notin D
        /\ q.processor = pays[p].processor /\ q.processor \in Processor
        /\ RetryDelay \in Nat
    BY <1>1, RetryInputs DEF Placed, Apart, TriedPayment, SameButAttempted, Payment
  <1>3. IsFiniteSet(DOMAIN pays)
    <2>1. DOMAIN pays = 1..Len(pays) /\ Len(pays) \in Nat
      BY <1>1, LenProperties
    <2> QED BY <2>1, FS_Interval
  <1>4. ents2 \in Seq(Isolation)
    BY DEF TriedPayment
  <1>5. ASSUME Apart(W \ {p}, R2, D, F2), Placed(pays2, ents2, W \ {p}, R2, D, F2),
               pays2 \in Seq(Payment), DOMAIN pays2 = DOMAIN pays,
               atts2 \in Seq(Attempt), Logged(pays, atts2, W \ {p}, R2, now),
               pend2 \in [Processor -> Nat], Counted(pays2, pend2, R2, D)
        PROVE  Good(pays2, ents2, pend2, atts2, W \ {p}, R2, D, F2, now)
    BY <1>4, <1>5, LogOfPositions DEF Good, Typed
  <1>6. CASE TriedRetry(pend, pend2, atts, atts2, R, R2, F, F2, now, p, q)
    <2>1. /\ Live(q) /\ Recorded(atts, atts2, p, now, "retry")
          /\ pend2 = [pend EXCEPT ![pays[p].processor] = @ + 1]
          /\ R2 = R \cup {<<p, now + RetryDelay>>} /\ F2 = F
      BY <1>2, <1>6 DEF TriedRetry
    <2>2. Of(R2) = Of(R) \cup {p}
      BY <2>1, OneMoreRetry
    <2>3. /\ Apart(W \ {p}, R2, D, F2) /\ Placed(pays2, ents2, W \ {p}, R2, D, F2)
          /\ pays2 \in Seq(Payment) /\ DOMAIN pays2 = DOMAIN pays
          /\ \A x \in DOMAIN pays : pays2[x].processor = pays[x].processor
      <3>1. OneMoves(pays, ents, pays2, ents2, W, R, D, F, R2, F2, p, q)
        BY <1>1, <2>1, <2>2 DEF OneMoves, Moves
      <3> QED BY ONLY <3>1, TriedPlaced
    <2>4. atts2 \in Seq(Attempt) /\ Logged(pays, atts2, W \ {p}, R2, now)
      <3>1. /\ Logged(pays, atts, W, R, now) /\ p \in W /\ p \notin Of(R)
            /\ p \in DOMAIN pays /\ atts \in Seq(Attempt) /\ now \in Nat
            /\ RetryDelay \in Nat /\ Recorded(atts, atts2, p, now, "retry")
        BY <1>1, <1>2, <2>1
      <3>2. R2 = R \/ (R2 = R \cup {<<p, now + RetryDelay>>} /\ "retry" = "retry")
        BY <2>1
      <3> QED BY ONLY <3>1, <3>2, OneMoreAttempt
    <2>5. pays[p].processor \in Processor
      BY <1>2
    <2>6. pend2 \in [Processor -> Nat] /\ Counted(pays2, pend2, R2, D)
      <3>1. PICK t : t = now + RetryDelay
        OBVIOUS
      <3>2. MorePending(pays, pays2, pend, pend2, R, R2, D, p, t)
        BY <1>1, <1>2, <1>3, <2>1, <2>3, <2>5, <3>1 DEF MorePending
      <3> QED BY ONLY <3>2, OneMorePending
    <2> QED BY <1>5, <2>3, <2>4, <2>6
  <1>7. CASE TriedWork(pend, pend2, atts, atts2, R, R2, F, F2, p, q)
    <2>1. Broken(q) /\ atts2 = atts /\ pend2 = pend /\ R2 = R /\ F2 = F \cup {p}
      BY <1>7 DEF TriedWork
    <2>2. /\ Apart(W \ {p}, R2, D, F2) /\ Placed(pays2, ents2, W \ {p}, R2, D, F2)
          /\ pays2 \in Seq(Payment) /\ DOMAIN pays2 = DOMAIN pays
          /\ \A x \in DOMAIN pays : pays2[x].processor = pays[x].processor
      <3>1. OneMoves(pays, ents, pays2, ents2, W, R, D, F, R2, F2, p, q)
        BY <1>1, <2>1 DEF OneMoves, Moves
      <3> QED BY ONLY <3>1, TriedPlaced
    <2>3. Logged(pays, atts2, W \ {p}, R2, now)
      BY <1>1, <2>1, SameLog
    <2>4. Counted(pays2, pend2, R2, D)
      BY <1>1, <1>2, <2>1, <2>2, SamePending
    <2> QED BY <1>1, <1>5, <2>1, <2>2, <2>3, <2>4
  <1>8. CASE TriedLast(ents2, pend, pend2, atts, atts2, R, R2, F, F2, now, p, q)
    <2>1. Settled(ents2, q) /\ pend2 = pend /\ R2 = R /\ F2 = F
      BY <1>8 DEF TriedLast
    <2>2. /\ Apart(W \ {p}, R2, D, F2) /\ Placed(pays2, ents2, W \ {p}, R2, D, F2)
          /\ pays2 \in Seq(Payment) /\ DOMAIN pays2 = DOMAIN pays
          /\ \A x \in DOMAIN pays : pays2[x].processor = pays[x].processor
      <3>1. OneMoves(pays, ents, pays2, ents2, W, R, D, F, R2, F2, p, q)
        BY <1>1, <2>1 DEF OneMoves, Moves
      <3> QED BY ONLY <3>1, TriedPlaced
    <2>3. atts2 \in Seq(Attempt) /\ Logged(pays, atts2, W \ {p}, R2, now)
      <3>1. CASE atts2 = atts
        BY <3>1, <1>1, <2>1, SameLog
      <3>2. CASE Recorded(atts, atts2, p, now, "succeeded")
        BY <3>2, <1>1, <1>2, <2>1, OneMoreAttempt
      <3>3. CASE Recorded(atts, atts2, p, now, "failed")
        BY <3>3, <1>1, <1>2, <2>1, OneMoreAttempt
      <3> QED BY <3>1, <3>2, <3>3, <1>8 DEF TriedLast
    <2>4. Counted(pays2, pend2, R2, D)
      BY <1>1, <1>2, <2>1, <2>2, SamePending
    <2> QED BY <1>1, <1>5, <2>1, <2>2, <2>3, <2>4
  <1> QED BY <1>6, <1>7, <1>8 DEF TriedSomehow
-----------------------------------------------------------------------------
(***************************************************************************)
(* One attempt.                                                            *)
(***************************************************************************)
RetryPush == [time : Nat, callback : {<<"retry", p>> : p \in DOMAIN payments}]

\* The states that a tick passes from attempt to attempt, on the processors' own
\* and in the laboratory.
RetryState == [payments : [DOMAIN payments -> Payment], entries : Seq(Isolation),
               pendingRetries : [Processor -> Nat], attempts : Seq(Attempt),
               pushes : Seq(RetryPush)]
LabState == [payments : [DOMAIN payments -> Payment], entries : Seq(Isolation),
             pendingRetries : [Processor -> Nat], attempts : Seq(Attempt),
             pushes : Seq(RetryPush), ledger : Seq(L!Entry),
             keys : SUBSET PaymentIds, ordered : SUBSET PaymentIds,
             raised : BOOLEAN, ran : Nat]

BaseFields == {"payments", "entries", "pendingRetries", "attempts", "pushes"}
BaseTyped(s) == /\ BaseFields \subseteq DOMAIN s
                /\ s.payments \in [DOMAIN payments -> Payment]
                /\ s.entries \in Seq(Isolation)
                /\ s.pendingRetries \in [Processor -> Nat]
                /\ s.attempts \in Seq(Attempt)
                /\ s.pushes \in Seq(RetryPush)

\* What an attempt leaves alone.
SameRest(s, t) == /\ s \in RetryState => t \in RetryState
                  /\ s \in LabState => /\ t \in LabState
                                       /\ t.ledger = s.ledger /\ t.keys = s.keys
                                       /\ t.ordered = s.ordered
                                       /\ t.raised = s.raised /\ t.ran = s.ran

LEMMA StatesTyped ==
  ASSUME NEW s, s \in RetryState \/ s \in LabState
  PROVE  BaseTyped(s)
  BY DEF RetryState, LabState, BaseTyped, BaseFields

LEMMA RestTrans ==
  ASSUME NEW s, NEW t, NEW u, SameRest(s, t), SameRest(t, u)
  PROVE  SameRest(s, u)
  BY DEF SameRest

\* The states after each part of an attempt, field by field.
After(s, t, p, q, ents, pend, atts, pushes) ==
  /\ t.payments = [s.payments EXCEPT ![p] = q]
  /\ t.entries = ents /\ t.pendingRetries = pend
  /\ t.attempts = atts /\ t.pushes = pushes
  /\ BaseTyped(t) /\ SameRest(s, t)

\* A payment's record is replaced.
LEMMA PaymentReplaced ==
  ASSUME NEW s, BaseTyped(s), NEW p \in DOMAIN payments, NEW q \in Payment,
         NEW t, t = [s EXCEPT !.payments = [@ EXCEPT ![p] = q]]
  PROVE  After(s, t, p, q, s.entries, s.pendingRetries, s.attempts, s.pushes)
  <1>1. /\ t.payments = [s.payments EXCEPT ![p] = q] /\ t.payments[p] = q
        /\ t.payments \in [DOMAIN payments -> Payment]
        /\ t.entries = s.entries /\ t.pendingRetries = s.pendingRetries
        /\ t.attempts = s.attempts /\ t.pushes = s.pushes
        /\ DOMAIN t = DOMAIN s
    BY DEF BaseTyped, BaseFields
  <1>2. BaseTyped(t)
    BY <1>1 DEF BaseTyped
  <1>3. ASSUME s \in RetryState PROVE t \in RetryState
    BY <1>1, <1>3 DEF RetryState
  <1>4. ASSUME s \in LabState
        PROVE  /\ t \in LabState /\ t.ledger = s.ledger /\ t.keys = s.keys
               /\ t.ordered = s.ordered /\ t.raised = s.raised /\ t.ran = s.ran
    BY <1>1, <1>4 DEF LabState
  <1> QED BY <1>1, <1>2, <1>3, <1>4 DEF SameRest, After

Record(s, p, result, now) ==
  [payment |-> p, attempt_number |-> s.payments[p].attempts,
   attempted_at |-> now, result |-> result]

LEMMA NotedEffect ==
  ASSUME NEW s, BaseTyped(s), NEW p \in DOMAIN payments, p \in Submission,
         NEW result \in {"retry", "succeeded", "failed"}, NEW now \in Nat,
         NEW t, t = Noted(s, p, result, now)
  PROVE  /\ Record(s, p, result, now) \in Attempt
         /\ After(s, t, p, s.payments[p], s.entries, s.pendingRetries,
                  Append(s.attempts, Record(s, p, result, now)), s.pushes)
  <1>1. s.payments[p] \in Payment /\ s.payments[p].attempts \in Nat
    BY DEF BaseTyped, Payment
  <1>2. Record(s, p, result, now) \in Attempt
    BY <1>1 DEF Record, Attempt
  <1>3. t = [s EXCEPT !.attempts = Append(@, Record(s, p, result, now))]
    BY DEF Noted, Record
  <1>4. Append(s.attempts, Record(s, p, result, now)) \in Seq(Attempt)
    BY <1>2, AppendProperties DEF BaseTyped
  <1>5. /\ t.payments = s.payments /\ t.entries = s.entries
        /\ t.pendingRetries = s.pendingRetries /\ t.pushes = s.pushes
        /\ t.attempts = Append(s.attempts, Record(s, p, result, now))
        /\ DOMAIN t = DOMAIN s
    BY <1>3 DEF BaseTyped, BaseFields
  <1>6. BaseTyped(t)
    BY <1>4, <1>5 DEF BaseTyped
  <1>7. ASSUME s \in RetryState PROVE t \in RetryState
    BY <1>3, <1>4, <1>7 DEF RetryState
  <1>8. ASSUME s \in LabState
        PROVE  /\ t \in LabState /\ t.ledger = s.ledger /\ t.keys = s.keys
               /\ t.ordered = s.ordered /\ t.raised = s.raised /\ t.ran = s.ran
    BY <1>3, <1>4, <1>8 DEF LabState
  <1>9. s.payments = [s.payments EXCEPT ![p] = s.payments[p]]
    BY DEF BaseTyped
  <1> QED BY <1>2, <1>5, <1>6, <1>7, <1>8, <1>9 DEF SameRest, After

RetryCounted(s, p) ==
  [s.payments[p] EXCEPT
     !.retry_count = IF s.payments[p].processor = "dead_letters" THEN @ + 1 ELSE @]

LEMMA RetryLaterEffect ==
  ASSUME NEW s, BaseTyped(s), NEW p \in DOMAIN payments, p \in Submission,
         NEW now \in Nat, NEW t, t = RetryLater(s, p, now)
  PROVE  /\ Record(s, p, "retry", now) \in Attempt
         /\ RetryCounted(s, p) \in Payment
         /\ After(s, t, p, RetryCounted(s, p), s.entries,
                  [s.pendingRetries EXCEPT ![s.payments[p].processor] = @ + 1],
                  Append(s.attempts, Record(s, p, "retry", now)),
                  Append(s.pushes, [time |-> now + RetryDelay, callback |-> <<"retry", p>>]))
  <1> DEFINE push == [time |-> now + RetryDelay, callback |-> <<"retry", p>>]
             n == Noted(s, p, "retry", now)
             r == s.payments[p].processor
             N == [s.pendingRetries EXCEPT ![r] = @ + 1]
             A == Append(s.attempts, Record(s, p, "retry", now))
             q == RetryCounted(s, p)
  <1>1. /\ Record(s, p, "retry", now) \in Attempt
        /\ After(s, n, p, s.payments[p], s.entries, s.pendingRetries, A, s.pushes)
    BY NotedEffect
  <1>2. n.payments = s.payments
    BY <1>1 DEF After, BaseTyped
  <1>3. /\ n.entries = s.entries /\ n.pendingRetries = s.pendingRetries
        /\ n.attempts = A /\ n.pushes = s.pushes /\ BaseTyped(n) /\ SameRest(s, n)
    BY <1>1 DEF After
  <1>4. /\ s.payments[p] \in Payment /\ r \in Processor
        /\ s.payments[p].retry_count \in Nat
    BY DEF BaseTyped, Payment
  <1>5. q \in Payment
    BY <1>4 DEF RetryCounted, Payment
  <1>6. push \in RetryPush
    BY RetryInputs DEF RetryPush
  <1>7. Append(s.pushes, push) \in Seq(RetryPush)
    BY <1>6, AppendProperties DEF BaseTyped
  <1>8. N \in [Processor -> Nat]
    BY <1>4 DEF BaseTyped
  <1>9. t = [n EXCEPT !.payments = [@ EXCEPT ![p] = q], !.pendingRetries = N,
                      !.pushes = Append(@, push)]
    BY <1>2, <1>3 DEF RetryLater, RetryCounted
  <1> HIDE DEF n, r, N, A, q, push
  <1>10. /\ t.payments = [s.payments EXCEPT ![p] = q]
         /\ t.payments \in [DOMAIN payments -> Payment]
         /\ t.entries = s.entries /\ t.pendingRetries = N /\ t.attempts = A
         /\ t.pushes = Append(s.pushes, push) /\ DOMAIN t = DOMAIN n
    BY <1>2, <1>3, <1>5, <1>9 DEF BaseTyped, BaseFields
  <1>11. BaseTyped(t)
    BY <1>3, <1>7, <1>8, <1>10 DEF BaseTyped
  <1>12. ASSUME n \in RetryState PROVE t \in RetryState
    BY <1>3, <1>7, <1>8, <1>9, <1>10, <1>12 DEF RetryState
  <1>13. ASSUME n \in LabState
         PROVE  /\ t \in LabState /\ t.ledger = n.ledger /\ t.keys = n.keys
                /\ t.ordered = n.ordered /\ t.raised = n.raised /\ t.ran = n.ran
    BY <1>3, <1>7, <1>8, <1>9, <1>10, <1>13 DEF LabState
  <1>14. SameRest(s, t)
    BY <1>3, <1>12, <1>13 DEF SameRest
  <1> QED BY <1>1, <1>5, <1>10, <1>11, <1>14 DEF After, n, r, N, A, q, push

\* Two parts one after the other, the first of which only replaced the record.
LEMMA AfterReplaced ==
  ASSUME NEW s, NEW c, NEW t, NEW p \in DOMAIN payments, NEW q0, NEW q, NEW ents,
         NEW pend, NEW atts, NEW pushes, BaseTyped(s),
         After(s, c, p, q0, s.entries, s.pendingRetries, s.attempts, s.pushes),
         After(c, t, p, q, ents, pend, atts, pushes)
  PROVE  After(s, t, p, q, ents, pend, atts, pushes)
  <1>1. t.payments = [s.payments EXCEPT ![p] = q]
    BY DEF After, BaseTyped
  <1>2. SameRest(s, t)
    BY RestTrans DEF After
  <1> QED BY <1>1, <1>2 DEF After

WithOutcome(pay, outcome) == [pay EXCEPT !.outcome = outcome]

\* An attempt is recorded and the payment has its outcome.
LEMMA DecidedEffect ==
  ASSUME NEW s, BaseTyped(s), NEW p \in DOMAIN payments, p \in Submission,
         NEW result \in {"succeeded", "failed"}, NEW now \in Nat,
         NEW t, t = [Noted(s, p, result, now) EXCEPT !.payments[p].outcome = result]
  PROVE  /\ Record(s, p, result, now) \in Attempt
         /\ WithOutcome(s.payments[p], result) \in Payment
         /\ After(s, t, p, WithOutcome(s.payments[p], result), s.entries,
                  s.pendingRetries, Append(s.attempts, Record(s, p, result, now)),
                  s.pushes)
  <1> DEFINE n == Noted(s, p, result, now)
             A == Append(s.attempts, Record(s, p, result, now))
             q == WithOutcome(s.payments[p], result)
  <1>1. /\ Record(s, p, result, now) \in Attempt
        /\ After(s, n, p, s.payments[p], s.entries, s.pendingRetries, A, s.pushes)
    BY NotedEffect
  <1>2. n.payments = s.payments
    BY <1>1 DEF After, BaseTyped
  <1>3. /\ n.entries = s.entries /\ n.pendingRetries = s.pendingRetries
        /\ n.attempts = A /\ n.pushes = s.pushes /\ BaseTyped(n) /\ SameRest(s, n)
    BY <1>1 DEF After
  <1>4. s.payments[p] \in Payment /\ q \in Payment
    BY DEF BaseTyped, Payment, WithOutcome, Outcome
  <1>5. t = [n EXCEPT !.payments = [@ EXCEPT ![p] = q]]
    BY <1>2, <1>3 DEF WithOutcome
  <1> HIDE DEF n, A, q
  <1>6. After(n, t, p, q, n.entries, n.pendingRetries, n.attempts, n.pushes)
    BY ONLY <1>3, <1>4, <1>5, p \in DOMAIN payments, PaymentReplaced
  <1>7. After(s, t, p, q, s.entries, s.pendingRetries, A, s.pushes)
    <2>1. t.payments = [s.payments EXCEPT ![p] = q]
      BY <1>6, <1>2 DEF After
    <2>2. SameRest(s, t)
      BY <1>3, <1>6, RestTrans DEF After
    <2> QED BY <1>3, <1>6, <2>1, <2>2 DEF After
  <1> QED BY <1>1, <1>4, <1>7 DEF A, q

\* And its entry among the isolated ones.
IsolationOf(s, p, now) ==
  [payment_id |-> s.payments[p].payment_id, retry_count |-> s.payments[p].retry_count,
   isolated_at |-> now]

LEMMA IsolatedEffect ==
  ASSUME NEW s, BaseTyped(s), NEW p \in DOMAIN payments, p \in Submission,
         NEW now \in Nat, NEW t,
         t = [Noted(s, p, "failed", now) EXCEPT
                !.payments[p].outcome = "failed",
                !.entries = Append(@, IsolationOf(s, p, now))]
  PROVE  /\ Record(s, p, "failed", now) \in Attempt
         /\ WithOutcome(s.payments[p], "failed") \in Payment
         /\ IsolationOf(s, p, now) \in Isolation
         /\ After(s, t, p, WithOutcome(s.payments[p], "failed"),
                  Append(s.entries, IsolationOf(s, p, now)),
                  s.pendingRetries, Append(s.attempts, Record(s, p, "failed", now)),
                  s.pushes)
  <1> DEFINE n == Noted(s, p, "failed", now)
             A == Append(s.attempts, Record(s, p, "failed", now))
             E == Append(s.entries, IsolationOf(s, p, now))
             q == WithOutcome(s.payments[p], "failed")
  <1>1. /\ Record(s, p, "failed", now) \in Attempt
        /\ After(s, n, p, s.payments[p], s.entries, s.pendingRetries, A, s.pushes)
    BY NotedEffect
  <1>2. n.payments = s.payments
    BY <1>1 DEF After, BaseTyped
  <1>3. /\ n.entries = s.entries /\ n.pendingRetries = s.pendingRetries
        /\ n.attempts = A /\ n.pushes = s.pushes /\ BaseTyped(n) /\ SameRest(s, n)
    BY <1>1 DEF After
  <1>4. s.payments[p] \in Payment /\ q \in Payment
    BY DEF BaseTyped, Payment, WithOutcome, Outcome
  <1>5. IsolationOf(s, p, now) \in Isolation
    BY <1>4 DEF IsolationOf, Isolation, Payment
  <1>6. E \in Seq(Isolation)
    BY <1>5, AppendProperties DEF BaseTyped
  <1>7. t = [n EXCEPT !.payments = [@ EXCEPT ![p] = q], !.entries = E]
    BY <1>2, <1>3 DEF WithOutcome
  <1> HIDE DEF n, A, q, E
  <1>8. /\ t.payments = [s.payments EXCEPT ![p] = q]
        /\ t.payments \in [DOMAIN payments -> Payment]
        /\ t.entries = E /\ t.pendingRetries = s.pendingRetries /\ t.attempts = A
        /\ t.pushes = s.pushes /\ DOMAIN t = DOMAIN n
    <2>1. DOMAIN t = DOMAIN n /\ BaseFields \subseteq DOMAIN n
      BY <1>3, <1>7 DEF BaseTyped
    <2>2. t.payments = [s.payments EXCEPT ![p] = q] /\ t.entries = E
      BY <1>2, <1>7, <2>1 DEF BaseFields
    <2>3. /\ t.pendingRetries = s.pendingRetries /\ t.attempts = A
          /\ t.pushes = s.pushes
      BY <1>3, <1>7, <2>1 DEF BaseFields
    <2>4. t.payments \in [DOMAIN payments -> Payment]
      BY <1>4, <2>2 DEF BaseTyped
    <2> QED BY <2>1, <2>2, <2>3, <2>4
  <1>9. BaseTyped(t)
    BY <1>3, <1>6, <1>8 DEF BaseTyped
  <1>10. ASSUME n \in RetryState PROVE t \in RetryState
    BY <1>3, <1>6, <1>7, <1>8, <1>10 DEF RetryState
  <1>11. ASSUME n \in LabState
         PROVE  /\ t \in LabState /\ t.ledger = n.ledger /\ t.keys = n.keys
                /\ t.ordered = n.ordered /\ t.raised = n.raised /\ t.ran = n.ran
    BY <1>3, <1>6, <1>7, <1>8, <1>11 DEF LabState
  <1>12. SameRest(s, t)
    BY <1>3, <1>10, <1>11 DEF SameRest
  <1> QED BY <1>1, <1>4, <1>5, <1>8, <1>9, <1>12 DEF After, n, A, E, q

Tried(pay) == [pay EXCEPT !.attempts = @ + 1]
Called(pay) == [pay EXCEPT !.worked = @ + 1]
RetriedOnce(pay) ==
  [Tried(pay) EXCEPT
     !.retry_count = IF pay.processor = "dead_letters" THEN @ + 1 ELSE @]

\* What an attempt of an unfinished payment comes to: its next record, the isolated
\* entries, the pending counters, the log and the scheduled events.
Comes(s, t, p, now, q, ents, pend, result, push) ==
  \E a \in Attempt :
    /\ a.payment = p /\ a.attempted_at = now /\ a.result = result
    /\ q \in Payment
    /\ After(s, t, p, q, ents, pend, Append(s.attempts, a),
             IF push THEN Append(s.pushes, [time |-> now + RetryDelay,
                                            callback |-> <<"retry", p>>])
                     ELSE s.pushes)

AttemptEffect(s, t, p, raises, now) ==
  LET pay == s.payments[p]
      verdict == Verdict(pay)
  IN  /\ verdict = "retry" =>
           Comes(s, t, p, now, RetriedOnce(pay), s.entries,
                 [s.pendingRetries EXCEPT ![pay.processor] = @ + 1], "retry", TRUE)
      /\ verdict = "work" /\ raises =>
           /\ Called(Tried(pay)) \in Payment
           /\ After(s, t, p, Called(Tried(pay)), s.entries, s.pendingRetries,
                    s.attempts, s.pushes)
      /\ verdict = "work" /\ ~raises =>
           Comes(s, t, p, now, WithOutcome(Called(Tried(pay)), "succeeded"), s.entries,
                 s.pendingRetries, "succeeded", FALSE)
      /\ verdict = "fail" /\ pay.processor = "retries" =>
           Comes(s, t, p, now, WithOutcome(Tried(pay), "failed"), s.entries,
                 s.pendingRetries, "failed", FALSE)
      /\ verdict = "fail" /\ pay.processor = "dead_letters" =>
           IF Isolated(s, pay.payment_id)
           THEN /\ Tried(pay) \in Payment
                /\ After(s, t, p, Tried(pay), s.entries, s.pendingRetries,
                         s.attempts, s.pushes)
           ELSE \E x \in Isolation :
                  /\ x.payment_id = pay.payment_id
                  /\ Comes(s, t, p, now, WithOutcome(Tried(pay), "failed"),
                           Append(s.entries, x), s.pendingRetries, "failed", FALSE)

LEMMA VerdictCases ==
  ASSUME NEW pay \in Payment,
         pay.processor = "dead_letters" => pay.retry_count = pay.attempts
  PROVE  /\ Verdict(pay) \in {"work", "retry", "fail"}
         /\ Verdict(pay) = "work" => pay.attempts + 1 > pay.failures
         /\ Verdict(pay) = "retry" => /\ pay.attempts + 1 <= pay.failures
                                     /\ pay.attempts < MaximumRetries
         /\ Verdict(pay) = "fail" => pay.permanent \/ ~(pay.attempts < MaximumRetries)
  <1>1. /\ pay.attempts \in Nat /\ pay.failures \in Nat /\ pay.permanent \in BOOLEAN
        /\ pay.processor \in {"retries", "dead_letters"}
    BY DEF Payment, Processor
  <1>2. CASE pay.processor = "retries"
    <2>1. Verdict(pay) = IF pay.attempts + 1 > pay.failures THEN "work"
                         ELSE IF pay.attempts < MaximumRetries THEN "retry"
                         ELSE "fail"
      BY <1>1, <1>2 DEF Verdict
    <2> QED BY <1>1, <2>1
  <1>3. CASE pay.processor = "dead_letters"
    <2>1. Verdict(pay) = IF pay.permanent THEN "fail"
                         ELSE IF pay.attempts + 1 > pay.failures THEN "work"
                         ELSE IF pay.attempts < MaximumRetries THEN "retry"
                         ELSE "fail"
      BY <1>3 DEF Verdict
    <2> QED BY <1>1, <2>1
  <1> QED BY <1>1, <1>2, <1>3
LEMMA AttemptedEffect ==
  ASSUME NEW s, BaseTyped(s), NEW p \in DOMAIN payments, p \in Submission,
         NEW raises \in BOOLEAN, NEW now \in Nat, ~Finished(s.payments[p]),
         NEW t, t = Attempted(s, p, raises, now)
  PROVE  AttemptEffect(s, t, p, raises, now)
  <1>1. PICK pay \in Payment : pay = s.payments[p]
    BY DEF BaseTyped
  <1>2. /\ pay.processor \in Processor /\ pay.attempts \in Nat /\ pay.retry_count \in Nat
        /\ pay.worked \in Nat
    BY DEF Payment
  <1>3. Tried(pay) \in Payment
    BY <1>2 DEF Tried, Payment
  <1>4. PICK c : c = [s EXCEPT !.payments[p].attempts = @ + 1]
    OBVIOUS
  <1>5. c = [s EXCEPT !.payments = [@ EXCEPT ![p] = Tried(pay)]]
    BY <1>1, <1>4 DEF Tried
  <1>6. After(s, c, p, Tried(pay), s.entries, s.pendingRetries, s.attempts, s.pushes)
    BY <1>3, <1>5, PaymentReplaced
  <1>7. /\ BaseTyped(c) /\ c.payments[p] = Tried(pay)
        /\ c.entries = s.entries /\ c.pendingRetries = s.pendingRetries
        /\ c.attempts = s.attempts /\ c.pushes = s.pushes
    BY <1>6 DEF After, BaseTyped
  <1>8. t = CASE Verdict(pay) = "work" -> Work(c, p, raises, now)
              [] Verdict(pay) = "retry" -> RetryLater(c, p, now)
              [] Verdict(pay) = "fail" -> GiveUp(c, p, now)
    BY <1>1, <1>4 DEF Attempted
  <1>9. Tried(pay).processor = pay.processor /\ Tried(pay).payment_id = pay.payment_id
    BY DEF Tried, Payment
  <1>10. ASSUME Verdict(pay) = "retry"
         PROVE  Comes(s, t, p, now, RetriedOnce(pay), s.entries,
                      [s.pendingRetries EXCEPT ![pay.processor] = @ + 1], "retry", TRUE)
    <2>1. t = RetryLater(c, p, now)
      BY <1>8, <1>10
    <2>2. RetryCounted(c, p) = RetriedOnce(pay)
      BY <1>7, <1>9 DEF RetryCounted, RetriedOnce
    <2>3. PICK a, push : /\ a = Record(c, p, "retry", now)
                         /\ push = [time |-> now + RetryDelay, callback |-> <<"retry", p>>]
      OBVIOUS
    <2>4. /\ a \in Attempt /\ RetryCounted(c, p) \in Payment
          /\ After(c, t, p, RetryCounted(c, p), c.entries,
                   [c.pendingRetries EXCEPT ![c.payments[p].processor] = @ + 1],
                   Append(c.attempts, a), Append(c.pushes, push))
      BY <1>7, <2>1, <2>3, RetryLaterEffect
    <2>5. After(c, t, p, RetriedOnce(pay), s.entries,
                [s.pendingRetries EXCEPT ![pay.processor] = @ + 1],
                Append(s.attempts, a), Append(s.pushes, push))
      BY <2>2, <2>4, <1>7, <1>9
    <2>6. After(s, t, p, RetriedOnce(pay), s.entries,
                [s.pendingRetries EXCEPT ![pay.processor] = @ + 1],
                Append(s.attempts, a), Append(s.pushes, push))
      BY <1>6, <2>5, AfterReplaced
    <2>7. a.payment = p /\ a.attempted_at = now /\ a.result = "retry"
      BY <2>3 DEF Record
    <2> QED BY <2>2, <2>3, <2>4, <2>6, <2>7 DEF Comes
  <1>11. ASSUME Verdict(pay) = "work"
         PROVE  /\ raises => /\ Called(Tried(pay)) \in Payment
                             /\ After(s, t, p, Called(Tried(pay)), s.entries,
                                      s.pendingRetries, s.attempts, s.pushes)
                /\ ~raises => Comes(s, t, p, now, WithOutcome(Called(Tried(pay)), "succeeded"),
                                    s.entries, s.pendingRetries, "succeeded", FALSE)
    <2>1. PICK d : d = [c EXCEPT !.payments[p].worked = @ + 1]
      OBVIOUS
    <2>2. Called(Tried(pay)) \in Payment
      <3>1. Tried(pay).worked \in Nat
        BY <1>3 DEF Payment
      <3> QED BY <1>3, <3>1 DEF Called, Payment
    <2>3. d = [c EXCEPT !.payments = [@ EXCEPT ![p] = Called(Tried(pay))]]
      BY <1>7, <2>1 DEF Called
    <2>4. After(c, d, p, Called(Tried(pay)), c.entries, c.pendingRetries, c.attempts, c.pushes)
      BY <1>7, <2>2, <2>3, PaymentReplaced
    <2>5. After(c, d, p, Called(Tried(pay)), s.entries, s.pendingRetries, s.attempts, s.pushes)
      BY <1>7, <2>4
    <2>6. After(s, d, p, Called(Tried(pay)), s.entries, s.pendingRetries, s.attempts, s.pushes)
      BY <1>6, <2>5, AfterReplaced
    <2>7. t = Work(c, p, raises, now)
      BY <1>8, <1>11
    <2>8. ASSUME raises
          PROVE  /\ Called(Tried(pay)) \in Payment
                 /\ After(s, t, p, Called(Tried(pay)), s.entries,
                          s.pendingRetries, s.attempts, s.pushes)
      BY <2>1, <2>2, <2>6, <2>7, <2>8 DEF Work
    <2>9. ASSUME ~raises
          PROVE  Comes(s, t, p, now, WithOutcome(Called(Tried(pay)), "succeeded"),
                       s.entries, s.pendingRetries, "succeeded", FALSE)
      <3>1. t = [Noted(d, p, "succeeded", now) EXCEPT !.payments[p].outcome = "succeeded"]
        BY <2>1, <2>7, <2>9 DEF Work
      <3>2. /\ BaseTyped(d) /\ d.payments[p] = Called(Tried(pay))
            /\ d.entries = s.entries /\ d.pendingRetries = s.pendingRetries
            /\ d.attempts = s.attempts /\ d.pushes = s.pushes
        BY <2>6 DEF After, BaseTyped
      <3>3. PICK a : a = Record(d, p, "succeeded", now)
        OBVIOUS
      <3>4. /\ a \in Attempt /\ WithOutcome(d.payments[p], "succeeded") \in Payment
            /\ After(d, t, p, WithOutcome(d.payments[p], "succeeded"), d.entries,
                     d.pendingRetries, Append(d.attempts, a), d.pushes)
        BY <3>1, <3>2, <3>3, DecidedEffect
      <3>5. After(d, t, p, WithOutcome(Called(Tried(pay)), "succeeded"), s.entries,
                  s.pendingRetries, Append(s.attempts, a), s.pushes)
        BY <3>2, <3>4
      <3>6. After(s, t, p, WithOutcome(Called(Tried(pay)), "succeeded"), s.entries,
                  s.pendingRetries, Append(s.attempts, a), s.pushes)
        BY <2>6, <3>5, AfterReplaced
      <3>7. a.payment = p /\ a.attempted_at = now /\ a.result = "succeeded"
        BY <3>3 DEF Record
      <3> QED BY <3>2, <3>4, <3>6, <3>7 DEF Comes
    <2> QED BY <2>8, <2>9
  <1>12. ASSUME Verdict(pay) = "fail", pay.processor = "retries"
         PROVE  Comes(s, t, p, now, WithOutcome(Tried(pay), "failed"), s.entries,
                      s.pendingRetries, "failed", FALSE)
    <2>1. t = [Noted(c, p, "failed", now) EXCEPT !.payments[p].outcome = "failed"]
      BY <1>7, <1>8, <1>9, <1>12 DEF GiveUp
    <2>2. PICK a : a = Record(c, p, "failed", now)
      OBVIOUS
    <2>3. /\ a \in Attempt /\ WithOutcome(c.payments[p], "failed") \in Payment
          /\ After(c, t, p, WithOutcome(c.payments[p], "failed"), c.entries,
                   c.pendingRetries, Append(c.attempts, a), c.pushes)
      BY <1>7, <2>1, <2>2, DecidedEffect
    <2>4. After(c, t, p, WithOutcome(Tried(pay), "failed"), s.entries,
                s.pendingRetries, Append(s.attempts, a), s.pushes)
      BY <1>7, <2>3
    <2>5. After(s, t, p, WithOutcome(Tried(pay), "failed"), s.entries,
                s.pendingRetries, Append(s.attempts, a), s.pushes)
      BY <1>6, <2>4, AfterReplaced
    <2>6. a.payment = p /\ a.attempted_at = now /\ a.result = "failed"
      BY <2>2 DEF Record
    <2> QED BY <1>7, <2>3, <2>5, <2>6 DEF Comes
  <1>13. ASSUME Verdict(pay) = "fail", pay.processor = "dead_letters",
                Isolated(s, pay.payment_id)
         PROVE  /\ Tried(pay) \in Payment
                /\ After(s, t, p, Tried(pay), s.entries, s.pendingRetries,
                         s.attempts, s.pushes)
    <2>1. Isolated(c, c.payments[p].payment_id)
      BY <1>7, <1>9, <1>13 DEF Isolated
    <2>2. t = c
      BY <1>7, <1>8, <1>9, <1>13, <2>1 DEF GiveUp
    <2> QED BY <1>3, <1>6, <2>2
  <1>14. ASSUME Verdict(pay) = "fail", pay.processor = "dead_letters",
                ~Isolated(s, pay.payment_id)
         PROVE  \E x \in Isolation :
                  /\ x.payment_id = pay.payment_id
                  /\ Comes(s, t, p, now, WithOutcome(Tried(pay), "failed"),
                           Append(s.entries, x), s.pendingRetries, "failed", FALSE)
    <2>1. ~Isolated(c, c.payments[p].payment_id)
      BY <1>7, <1>9, <1>14 DEF Isolated
    <2>2. PICK a, x : /\ a = Record(c, p, "failed", now) /\ x = IsolationOf(c, p, now)
      OBVIOUS
    <2>3. t = [Noted(c, p, "failed", now) EXCEPT !.payments[p].outcome = "failed",
                 !.entries = Append(@, IsolationOf(c, p, now))]
      BY <1>7, <1>8, <1>9, <1>14, <2>1 DEF GiveUp, IsolationOf
    <2>4. /\ a \in Attempt /\ x \in Isolation
          /\ WithOutcome(c.payments[p], "failed") \in Payment
          /\ After(c, t, p, WithOutcome(c.payments[p], "failed"), Append(c.entries, x),
                   c.pendingRetries, Append(c.attempts, a), c.pushes)
      BY <1>7, <2>2, <2>3, IsolatedEffect
    <2>5. After(c, t, p, WithOutcome(Tried(pay), "failed"), Append(s.entries, x),
                s.pendingRetries, Append(s.attempts, a), s.pushes)
      BY <1>7, <2>4
    <2>6. After(s, t, p, WithOutcome(Tried(pay), "failed"), Append(s.entries, x),
                s.pendingRetries, Append(s.attempts, a), s.pushes)
      BY <1>6, <2>5, AfterReplaced
    <2>7. a.payment = p /\ a.attempted_at = now /\ a.result = "failed"
      BY <2>2 DEF Record
    <2>8. x.payment_id = pay.payment_id
      BY <2>2, <1>7, <1>9 DEF IsolationOf
    <2> QED BY <1>7, <2>4, <2>6, <2>7, <2>8 DEF Comes
  <1> QED BY <1>1, <1>10, <1>11, <1>12, <1>13, <1>14 DEF AttemptEffect

\* The retries and the broken payments after an attempt of p.
RetriesAfter(R, verdict, p, now) ==
  IF verdict = "retry" THEN R \cup {<<p, now + RetryDelay>>} ELSE R
BrokenAfter(F, verdict, p, raises) ==
  IF verdict = "work" /\ raises THEN F \cup {p} ELSE F

PushesAfter(pushes, verdict, p, now) ==
  IF verdict = "retry"
  THEN Append(pushes, [time |-> now + RetryDelay, callback |-> <<"retry", p>>])
  ELSE pushes

\* The record of a payment after an attempt, by what the attempt came to.
LEMMA TriedRecords ==
  ASSUME NEW pay \in Payment, Live(pay), NEW ents
  PROVE  /\ Verdict(pay) = "retry" => /\ Live(RetriedOnce(pay))
                                      /\ SameButAttempted(pay, RetriedOnce(pay))
         /\ Verdict(pay) = "work" =>
              /\ Broken(Called(Tried(pay)))
              /\ SameButAttempted(pay, Called(Tried(pay)))
              /\ Settled(ents, WithOutcome(Called(Tried(pay)), "succeeded"))
              /\ SameButAttempted(pay, WithOutcome(Called(Tried(pay)), "succeeded"))
         /\ Verdict(pay) = "fail" =>
              /\ Settled(ents, WithOutcome(Tried(pay), "failed"))
              /\ SameButAttempted(pay, WithOutcome(Tried(pay), "failed"))
              /\ SameButAttempted(pay, Tried(pay))
              /\ pay.processor = "dead_letters"
                   /\ (\E i \in DOMAIN ents : ents[i].payment_id = pay.payment_id)
                   => Settled(ents, Tried(pay))
  <1>1. /\ pay.attempts \in Nat /\ pay.failures \in Nat /\ pay.permanent \in BOOLEAN
        /\ pay.retry_count \in Nat /\ pay.worked = 0 /\ pay.outcome = "none"
        /\ pay.processor \in Processor /\ pay.payment_id \in PaymentIds
        /\ pay.attempts <= MaximumRetries /\ pay.attempts <= pay.failures
        /\ pay.processor = "dead_letters" => pay.retry_count = pay.attempts
        /\ MaximumRetries \in Nat
    BY RetryInputs DEF Live, Payment
  <1>2. /\ Verdict(pay) = "work" => pay.attempts + 1 > pay.failures
        /\ Verdict(pay) = "retry" => /\ pay.attempts + 1 <= pay.failures
                                     /\ pay.attempts < MaximumRetries
        /\ Verdict(pay) = "fail" => pay.permanent \/ ~(pay.attempts < MaximumRetries)
    BY <1>1, VerdictCases
  <1>a. PICK tried : tried = Tried(pay)
    OBVIOUS
  <1>3. /\ tried \in Payment
        /\ tried.processor = pay.processor
        /\ tried.payment_id = pay.payment_id
        /\ tried.failures = pay.failures /\ tried.permanent = pay.permanent
        /\ tried.attempts = pay.attempts + 1
        /\ tried.retry_count = pay.retry_count
        /\ tried.outcome = "none" /\ tried.worked = 0
    BY <1>a, <1>1 DEF Tried, Payment
  <1>4. ASSUME Verdict(pay) = "retry"
        PROVE  Live(RetriedOnce(pay)) /\ SameButAttempted(pay, RetriedOnce(pay))
    <2>a. PICK q : q = RetriedOnce(pay)
      OBVIOUS
    <2>1. /\ q \in Payment
          /\ q.processor = pay.processor
          /\ q.payment_id = pay.payment_id
          /\ q.failures = pay.failures /\ q.permanent = pay.permanent
          /\ q.attempts = pay.attempts + 1
          /\ q.retry_count = IF pay.processor = "dead_letters"
                                      THEN pay.retry_count + 1 ELSE pay.retry_count
          /\ q.outcome = "none" /\ q.worked = 0
      BY <2>a, <1>a, <1>1, <1>3 DEF RetriedOnce, Payment
    <2> QED BY <1>1, <1>2, <1>4, <2>a, <2>1 DEF Live, SameButAttempted
  <1>5. ASSUME Verdict(pay) = "work"
        PROVE  /\ Broken(Called(Tried(pay)))
               /\ SameButAttempted(pay, Called(Tried(pay)))
               /\ Settled(ents, WithOutcome(Called(Tried(pay)), "succeeded"))
               /\ SameButAttempted(pay, WithOutcome(Called(Tried(pay)), "succeeded"))
    <2>a. PICK q : q = Called(tried)
      OBVIOUS
    <2>1. /\ q \in Payment
          /\ q.processor = pay.processor
          /\ q.payment_id = pay.payment_id
          /\ q.failures = pay.failures /\ q.permanent = pay.permanent
          /\ q.attempts = pay.attempts + 1
          /\ q.outcome = "none" /\ q.worked = 1
      BY <2>a, <1>1, <1>3 DEF Called, Payment
    <2>b. PICK d : d = WithOutcome(q, "succeeded")
      OBVIOUS
    <2>2. /\ d \in Payment
          /\ d.processor = pay.processor
          /\ d.payment_id = pay.payment_id
          /\ d.failures = pay.failures /\ d.permanent = pay.permanent
          /\ d.attempts = pay.attempts + 1
          /\ d.outcome = "succeeded" /\ d.worked = 1
      BY <2>b, <1>1, <2>1 DEF WithOutcome, Payment, Outcome
    <2>3. Broken(q) /\ SameButAttempted(pay, q)
      BY <1>1, <2>1 DEF Broken, SameButAttempted
    <2>4. Settled(ents, d) /\ SameButAttempted(pay, d)
      BY <1>1, <1>2, <1>5, <2>2 DEF Settled, SameButAttempted
    <2> QED BY <1>a, <2>a, <2>b, <2>3, <2>4
  <1>6. ASSUME Verdict(pay) = "fail"
        PROVE  /\ Settled(ents, WithOutcome(Tried(pay), "failed"))
               /\ SameButAttempted(pay, WithOutcome(Tried(pay), "failed"))
               /\ SameButAttempted(pay, Tried(pay))
               /\ pay.processor = "dead_letters"
                    /\ (\E i \in DOMAIN ents : ents[i].payment_id = pay.payment_id)
                    => Settled(ents, Tried(pay))
    <2>b. PICK d : d = WithOutcome(tried, "failed")
      OBVIOUS
    <2>1. /\ d \in Payment
          /\ d.processor = pay.processor
          /\ d.payment_id = pay.payment_id
          /\ d.failures = pay.failures /\ d.permanent = pay.permanent
          /\ d.attempts = pay.attempts + 1
          /\ d.outcome = "failed" /\ d.worked = 0
      BY <2>b, <1>1, <1>3 DEF WithOutcome, Payment, Outcome
    <2>2. Settled(ents, d) /\ SameButAttempted(pay, d)
      BY <1>1, <1>2, <1>6, <2>1 DEF Settled, SameButAttempted
    <2>3. SameButAttempted(pay, tried)
      BY <1>3 DEF SameButAttempted
    <2>4. ASSUME pay.processor = "dead_letters",
                 \E i \in DOMAIN ents : ents[i].payment_id = pay.payment_id
          PROVE  Settled(ents, tried)
      BY <1>1, <1>3, <2>4 DEF Settled
    <2> QED BY <1>a, <2>b, <2>2, <2>3, <2>4
  <1> QED BY <1>4, <1>5, <1>6

\* An attempt of a waiting payment leaves a good state, without it among the
\* waiting ones.
AttemptLeaves(s, t, p, raises, W, R, D, F, now) ==
  LET verdict == Verdict(s.payments[p]) IN
  /\ BaseTyped(t) /\ SameRest(s, t)
  /\ Good(t.payments, t.entries, t.pendingRetries, t.attempts, W \ {p},
          RetriesAfter(R, verdict, p, now), D, BrokenAfter(F, verdict, p, raises), now)
  /\ t.pushes = PushesAfter(s.pushes, verdict, p, now)
  /\ \A x \in DOMAIN payments : x # p => t.payments[x] = s.payments[x]
  /\ t.payments[p].payment_id = s.payments[p].payment_id
  /\ t.payments[p].outcome = "succeeded" <=> verdict = "work" /\ ~raises

\* The hypotheses of one attempt.
CanTry(s, p, W, R, D, F, now) ==
  /\ BaseTyped(s) /\ p \in W /\ p \in DOMAIN payments /\ p \in Submission
  /\ Good(s.payments, s.entries, s.pendingRetries, s.attempts, W, R, D, F, now)

LEMMA MoreIsolated ==
  ASSUME NEW ents \in Seq(Isolation), NEW x \in Isolation
  PROVE  /\ Append(ents, x) \in Seq(Isolation)
         /\ \A i \in DOMAIN ents : \E j \in DOMAIN Append(ents, x) :
              Append(ents, x)[j].payment_id = ents[i].payment_id
  <1>1. /\ Append(ents, x) \in Seq(Isolation)
        /\ DOMAIN ents = 1..Len(ents) /\ Len(ents) \in Nat
        /\ DOMAIN Append(ents, x) = 1..(Len(ents) + 1)
        /\ \A i \in 1..Len(ents) : Append(ents, x)[i] = ents[i]
    BY AppendOne
  <1> QED BY <1>1

LEMMA AttemptKeepsGood ==
  ASSUME NEW s, NEW t, NEW p, NEW raises \in BOOLEAN, NEW W, NEW R, NEW D, NEW F,
         NEW now \in Nat, CanTry(s, p, W, R, D, F, now),
         t = Attempted(s, p, raises, now)
  PROVE  AttemptLeaves(s, t, p, raises, W, R, D, F, now)
  <1>0. /\ BaseTyped(s) /\ p \in W /\ p \in DOMAIN payments /\ p \in Submission
        /\ Good(s.payments, s.entries, s.pendingRetries, s.attempts, W, R, D, F, now)
    BY DEF CanTry
  <1>1. PICK pay \in Payment : pay = s.payments[p]
    BY <1>0 DEF BaseTyped
  <1>2. Live(pay)
    BY <1>0, <1>1 DEF Good, Placed
  <1>3. PICK verdict : verdict = Verdict(pay) /\ verdict \in {"work", "retry", "fail"}
    BY <1>2, VerdictCases DEF Live
  <1>4. pay.processor \in {"retries", "dead_letters"} /\ pay.outcome = "none"
    BY <1>2 DEF Live, Payment, Processor
  <1>5. AttemptEffect(s, t, p, raises, now)
    <2>1. ~Finished(s.payments[p])
      BY <1>1, <1>4 DEF Finished
    <2> QED BY <1>0, <2>1, AttemptedEffect
  <1>6. s.entries \in Seq(Isolation) /\ s.payments \in [DOMAIN payments -> Payment]
    BY <1>0 DEF BaseTyped
  <1>7. ASSUME NEW q, NEW R2, NEW F2, SameButAttempted(pay, q),
               t.payments = [s.payments EXCEPT ![p] = q],
               t.entries \in Seq(Isolation),
               \A i \in DOMAIN s.entries : \E j \in DOMAIN t.entries :
                 t.entries[j].payment_id = s.entries[i].payment_id,
               BaseTyped(t), SameRest(s, t),
               R2 = RetriesAfter(R, verdict, p, now), F2 = BrokenAfter(F, verdict, p, raises),
               TriedSomehow(t.entries, s.pendingRetries, t.pendingRetries, s.attempts,
                            t.attempts, R, R2, F, F2, now, p, q),
               t.pushes = PushesAfter(s.pushes, verdict, p, now),
               q.outcome = "succeeded" <=> verdict = "work" /\ ~raises
        PROVE  AttemptLeaves(s, t, p, raises, W, R, D, F, now)
    <2>1. PICK pays, ents, pend, atts, pays2, ents2, pend2, atts2 :
             /\ pays = s.payments /\ ents = s.entries
             /\ pend = s.pendingRetries /\ atts = s.attempts
             /\ pays2 = t.payments /\ ents2 = t.entries
             /\ pend2 = t.pendingRetries /\ atts2 = t.attempts
      OBVIOUS
    <2>2. TriedPayment(pays, ents, pays2, ents2, p, q)
      BY <1>1, <1>7, <2>1 DEF TriedPayment
    <2>3. Good(pays, ents, pend, atts, W, R, D, F, now)
      BY <1>0, <2>1
    <2>4. TriedSomehow(ents2, pend, pend2, atts, atts2, R, R2, F, F2, now, p, q)
      BY <1>7, <2>1
    <2>5. Good(pays2, ents2, pend2, atts2, W \ {p}, R2, D, F2, now)
      BY ONLY <1>0, <2>2, <2>3, <2>4, now \in Nat, TriedKeepsGood
    <2>6. /\ \A x \in DOMAIN payments : x # p => t.payments[x] = s.payments[x]
          /\ t.payments[p] = q
      BY <1>0, <1>6, <1>7
    <2>7. q.payment_id = pay.payment_id
      BY <1>7 DEF SameButAttempted
    <2> QED BY <1>1, <1>3, <1>7, <2>1, <2>5, <2>6, <2>7 DEF AttemptLeaves
  <1>8. ASSUME NEW q, NEW ents, NEW pend, NEW result, NEW push \in BOOLEAN,
               Comes(s, t, p, now, q, ents, pend, result, push)
        PROVE  /\ BaseTyped(t) /\ SameRest(s, t)
               /\ t.payments = [s.payments EXCEPT ![p] = q]
               /\ t.entries = ents /\ t.pendingRetries = pend
               /\ Recorded(s.attempts, t.attempts, p, now, result)
               /\ t.pushes = IF push
                             THEN Append(s.pushes, [time |-> now + RetryDelay,
                                                    callback |-> <<"retry", p>>])
                             ELSE s.pushes
    BY <1>8 DEF Comes, After, Recorded
  <1>9. CASE verdict = "retry"
    <2>1. PICK q : q = RetriedOnce(pay)
      OBVIOUS
    <2>2. Comes(s, t, p, now, q, s.entries,
                [s.pendingRetries EXCEPT ![pay.processor] = @ + 1], "retry", TRUE)
      BY <1>1, <1>3, <1>5, <1>9, <2>1 DEF AttemptEffect
    <2>3. Live(q) /\ SameButAttempted(pay, q)
      BY <1>2, <1>3, <1>9, <2>1, TriedRecords
    <2>4. q.processor = pay.processor /\ q.outcome # "succeeded"
      BY <2>3 DEF SameButAttempted, Live
    <2>5. PICK R2, F2 : /\ R2 = RetriesAfter(R, verdict, p, now)
                        /\ F2 = BrokenAfter(F, verdict, p, raises)
      OBVIOUS
    <2>6. R2 = R \cup {<<p, now + RetryDelay>>} /\ F2 = F
      BY <2>5, <1>9 DEF RetriesAfter, BrokenAfter
    <2>7. /\ BaseTyped(t) /\ SameRest(s, t)
          /\ t.payments = [s.payments EXCEPT ![p] = q] /\ t.entries = s.entries
          /\ t.pendingRetries = [s.pendingRetries EXCEPT ![pay.processor] = @ + 1]
          /\ Recorded(s.attempts, t.attempts, p, now, "retry")
          /\ t.pushes = Append(s.pushes, [time |-> now + RetryDelay,
                                          callback |-> <<"retry", p>>])
      BY <2>2, <1>8
    <2>8. TriedSomehow(t.entries, s.pendingRetries, t.pendingRetries, s.attempts,
                       t.attempts, R, R2, F, F2, now, p, q)
      BY <2>3, <2>4, <2>6, <2>7 DEF TriedSomehow, TriedRetry
    <2>9. t.pushes = PushesAfter(s.pushes, verdict, p, now)
      BY <2>7, <1>9 DEF PushesAfter
    <2> QED BY <1>6, <1>7, <1>9, <2>3, <2>4, <2>5, <2>7, <2>8, <2>9
  <1>10. CASE verdict = "work" /\ raises
    <2>1. PICK q : q = Called(Tried(pay))
      OBVIOUS
    <2>2. After(s, t, p, q, s.entries, s.pendingRetries, s.attempts, s.pushes)
      BY <1>1, <1>3, <1>5, <1>10, <2>1 DEF AttemptEffect
    <2>3. Broken(q) /\ SameButAttempted(pay, q)
      BY <1>2, <1>3, <1>10, <2>1, TriedRecords
    <2>4. q.outcome # "succeeded"
      BY <2>3 DEF Broken
    <2>5. PICK R2, F2 : /\ R2 = RetriesAfter(R, verdict, p, now)
                        /\ F2 = BrokenAfter(F, verdict, p, raises)
      OBVIOUS
    <2>6. R2 = R /\ F2 = F \cup {p}
      BY <2>5, <1>10 DEF RetriesAfter, BrokenAfter
    <2>7. /\ BaseTyped(t) /\ SameRest(s, t)
          /\ t.payments = [s.payments EXCEPT ![p] = q] /\ t.entries = s.entries
          /\ t.pendingRetries = s.pendingRetries /\ t.attempts = s.attempts
          /\ t.pushes = s.pushes
      BY <2>2 DEF After
    <2>8. TriedSomehow(t.entries, s.pendingRetries, t.pendingRetries, s.attempts,
                       t.attempts, R, R2, F, F2, now, p, q)
      BY <2>3, <2>6, <2>7 DEF TriedSomehow, TriedWork
    <2>9. t.pushes = PushesAfter(s.pushes, verdict, p, now)
      BY <2>7, <1>10 DEF PushesAfter
    <2> QED BY <1>6, <1>7, <1>10, <2>3, <2>4, <2>5, <2>7, <2>8, <2>9
  <1>11. ASSUME NEW q, NEW ents, verdict # "retry", ~(verdict = "work" /\ raises),
                BaseTyped(t), SameRest(s, t), SameButAttempted(pay, q), Settled(ents, q),
                t.payments = [s.payments EXCEPT ![p] = q], t.entries = ents,
                ents \in Seq(Isolation),
                \A i \in DOMAIN s.entries : \E j \in DOMAIN ents :
                  ents[j].payment_id = s.entries[i].payment_id,
                t.pendingRetries = s.pendingRetries, t.pushes = s.pushes,
                \/ t.attempts = s.attempts
                \/ Recorded(s.attempts, t.attempts, p, now, "succeeded")
                \/ Recorded(s.attempts, t.attempts, p, now, "failed"),
                q.outcome = "succeeded" <=> verdict = "work"
         PROVE  AttemptLeaves(s, t, p, raises, W, R, D, F, now)
    <2>1. PICK R2, F2 : /\ R2 = RetriesAfter(R, verdict, p, now)
                        /\ F2 = BrokenAfter(F, verdict, p, raises)
      OBVIOUS
    <2>2. R2 = R /\ F2 = F
      BY <2>1, <1>11 DEF RetriesAfter, BrokenAfter
    <2>3. TriedSomehow(t.entries, s.pendingRetries, t.pendingRetries, s.attempts,
                       t.attempts, R, R2, F, F2, now, p, q)
      BY <1>11, <2>2 DEF TriedSomehow, TriedLast
    <2>4. t.pushes = PushesAfter(s.pushes, verdict, p, now)
      BY <1>11 DEF PushesAfter
    <2> QED BY <1>7, <1>11, <2>1, <2>3, <2>4
  <1>12. CASE verdict = "work" /\ ~raises
    <2>1. PICK q : q = WithOutcome(Called(Tried(pay)), "succeeded")
      OBVIOUS
    <2>2. Comes(s, t, p, now, q, s.entries, s.pendingRetries, "succeeded", FALSE)
      BY <1>1, <1>3, <1>5, <1>12, <2>1 DEF AttemptEffect
    <2>3. Settled(s.entries, q) /\ SameButAttempted(pay, q)
      BY <1>2, <1>3, <1>12, <2>1, TriedRecords
    <2>4. q.outcome = "succeeded"
      <3>1. Called(Tried(pay)) \in Payment
        BY <1>2, <1>3, <1>12, TriedRecords DEF SameButAttempted
      <3> QED BY <2>1, <3>1 DEF WithOutcome, Payment
    <2>5. /\ BaseTyped(t) /\ SameRest(s, t)
          /\ t.payments = [s.payments EXCEPT ![p] = q] /\ t.entries = s.entries
          /\ t.pendingRetries = s.pendingRetries
          /\ Recorded(s.attempts, t.attempts, p, now, "succeeded")
          /\ t.pushes = s.pushes
      BY <2>2, <1>8
    <2> QED BY <1>6, <1>11, <1>12, <2>3, <2>4, <2>5
  <1>13. CASE verdict = "fail" /\ pay.processor = "retries"
    <2>1. PICK q : q = WithOutcome(Tried(pay), "failed")
      OBVIOUS
    <2>2. Comes(s, t, p, now, q, s.entries, s.pendingRetries, "failed", FALSE)
      BY <1>1, <1>3, <1>5, <1>13, <2>1 DEF AttemptEffect
    <2>3. Settled(s.entries, q) /\ SameButAttempted(pay, q)
      BY <1>2, <1>3, <1>13, <2>1, TriedRecords
    <2>4. q.outcome = "failed"
      <3>1. Tried(pay) \in Payment
        BY <1>2, <1>3, <1>13, TriedRecords DEF SameButAttempted
      <3> QED BY <2>1, <3>1 DEF WithOutcome, Payment
    <2>5. /\ BaseTyped(t) /\ SameRest(s, t)
          /\ t.payments = [s.payments EXCEPT ![p] = q] /\ t.entries = s.entries
          /\ t.pendingRetries = s.pendingRetries
          /\ Recorded(s.attempts, t.attempts, p, now, "failed")
          /\ t.pushes = s.pushes
      BY <2>2, <1>8
    <2> QED BY <1>6, <1>11, <1>13, <2>3, <2>4, <2>5
  <1>14. CASE /\ verdict = "fail" /\ pay.processor = "dead_letters"
              /\ Isolated(s, pay.payment_id)
    <2>1. PICK q : q = Tried(pay)
      OBVIOUS
    <2>2. After(s, t, p, q, s.entries, s.pendingRetries, s.attempts, s.pushes)
      BY <1>1, <1>3, <1>5, <1>14, <2>1 DEF AttemptEffect
    <2>3. Settled(s.entries, q) /\ SameButAttempted(pay, q)
      BY <1>2, <1>3, <1>14, <2>1, TriedRecords DEF Isolated
    <2>4. q.outcome = "none"
      BY <1>4, <2>1 DEF Tried, Payment
    <2>5. /\ BaseTyped(t) /\ SameRest(s, t)
          /\ t.payments = [s.payments EXCEPT ![p] = q] /\ t.entries = s.entries
          /\ t.pendingRetries = s.pendingRetries
          /\ t.attempts = s.attempts /\ t.pushes = s.pushes
      BY <2>2 DEF After
    <2> QED BY <1>6, <1>11, <1>14, <2>3, <2>4, <2>5
  <1>15. CASE /\ verdict = "fail" /\ pay.processor = "dead_letters"
              /\ ~Isolated(s, pay.payment_id)
    <2>1. PICK q : q = WithOutcome(Tried(pay), "failed")
      OBVIOUS
    <2>2. PICK x \in Isolation :
             Comes(s, t, p, now, q, Append(s.entries, x), s.pendingRetries, "failed", FALSE)
      BY <1>1, <1>3, <1>5, <1>15, <2>1 DEF AttemptEffect
    <2>3. Settled(Append(s.entries, x), q) /\ SameButAttempted(pay, q)
      BY <1>2, <1>3, <1>15, <2>1, TriedRecords
    <2>4. q.outcome = "failed"
      <3>1. Tried(pay) \in Payment
        BY <1>2, <1>3, <1>15, TriedRecords DEF SameButAttempted
      <3> QED BY <2>1, <3>1 DEF WithOutcome, Payment
    <2>5. /\ BaseTyped(t) /\ SameRest(s, t)
          /\ t.payments = [s.payments EXCEPT ![p] = q] /\ t.entries = Append(s.entries, x)
          /\ t.pendingRetries = s.pendingRetries
          /\ Recorded(s.attempts, t.attempts, p, now, "failed")
          /\ t.pushes = s.pushes
      BY <2>2, <1>8
    <2>6. /\ Append(s.entries, x) \in Seq(Isolation)
          /\ \A i \in DOMAIN s.entries : \E j \in DOMAIN Append(s.entries, x) :
               Append(s.entries, x)[j].payment_id = s.entries[i].payment_id
      BY <1>6, MoreIsolated
    <2> QED BY <1>11, <1>15, <2>3, <2>4, <2>5, <2>6
  <1> QED BY <1>3, <1>4, <1>9, <1>10, <1>12, <1>13, <1>14, <1>15

\* Any attempt keeps the types.
LEMMA VerdictIsOne ==
  ASSUME NEW pay
  PROVE  Verdict(pay) \in {"work", "retry", "fail"}
  BY DEF Verdict

LEMMA AttemptTyped ==
  ASSUME NEW s, BaseTyped(s), NEW p \in DOMAIN payments, p \in Submission,
         NEW raises \in BOOLEAN, NEW now \in Nat,
         NEW t, t = Attempted(s, p, raises, now)
  PROVE  BaseTyped(t) /\ SameRest(s, t)
  <1>1. CASE Finished(s.payments[p])
    <2>1. t = s
      BY <1>1 DEF Attempted
    <2> QED BY <2>1 DEF SameRest
  <1>2. CASE ~Finished(s.payments[p])
    <2>1. AttemptEffect(s, t, p, raises, now)
      BY <1>2, AttemptedEffect
    <2>2. s.payments[p].processor \in {"retries", "dead_letters"}
      BY DEF BaseTyped, Payment, Processor
    <2>3. PICK pay, verdict : /\ pay = s.payments[p] /\ verdict = Verdict(pay)
                              /\ verdict \in {"work", "retry", "fail"}
      BY VerdictIsOne
    <2>4. \E q, ents, pend, atts, pushes : After(s, t, p, q, ents, pend, atts, pushes)
      <3>1. CASE verdict = "retry"
        BY <3>1, <2>1, <2>3 DEF AttemptEffect, Comes
      <3>2. CASE verdict = "work" /\ raises
        BY <3>2, <2>1, <2>3 DEF AttemptEffect
      <3>3. CASE verdict = "work" /\ ~raises
        BY <3>3, <2>1, <2>3 DEF AttemptEffect, Comes
      <3>4. CASE verdict = "fail" /\ pay.processor = "retries"
        BY <3>4, <2>1, <2>3 DEF AttemptEffect, Comes
      <3>5. CASE verdict = "fail" /\ pay.processor = "dead_letters"
        BY <3>5, <2>1, <2>3 DEF AttemptEffect, Comes
      <3> QED BY <2>2, <2>3, <3>1, <3>2, <3>3, <3>4, <3>5
    <2> QED BY <2>4 DEF After
  <1> QED BY <1>1, <1>2
-----------------------------------------------------------------------------
(***************************************************************************)
(* The attempts of one tick, one after the other.                          *)
(***************************************************************************)
Start == [payments |-> payments, entries |-> entries,
          pendingRetries |-> pendingRetries, attempts |-> attempts, pushes |-> <<>>]

Numbers(n) == [i \in 1..n |-> i]

AttemptFolds(n, raises, now, h) ==
  h = [S \in SUBSET DOMAIN Numbers(n) |->
         IF S = {} THEN Start
         ELSE Attempted(h[S \ {Max(S)}], BatchPayments[Numbers(n)[Max(S)]],
                        raises /\ Numbers(n)[Max(S)] = n, now)]

LEMMA AttemptsAreRecursive ==
  ASSUME NEW n, NEW raises, NEW now
  PROVE  AfterAttempts(n, raises, now)
           = (CHOOSE h : AttemptFolds(n, raises, now, h))[DOMAIN Numbers(n)]
  BY DEF AfterAttempts, FoldLeft, MapThenFoldSet, AttemptFolds, Start, Numbers

AttemptRun(n, raises, now, N) ==
  /\ N[0] = Start /\ N[n] = AfterAttempts(n, raises, now)
  /\ \A k \in 1..n : /\ N[k - 1] \in RetryState /\ N[k] \in RetryState
                     /\ N[k] = Attempted(N[k - 1], BatchPayments[k], raises /\ k = n, now)

StateTyped == /\ Typed(payments, entries, pendingRetries, attempts)
              /\ DOMAIN payments \subseteq Submission

LEMMA StartTyped ==
  ASSUME StateTyped
  PROVE  Start \in RetryState
  <1>1. payments \in [DOMAIN payments -> Payment] /\ <<>> \in Seq(RetryPush)
    BY LenProperties DEF StateTyped, Typed
  <1> QED BY <1>1 DEF Start, RetryState, StateTyped, Typed

LEMMA SomeAttemptRun ==
  ASSUME StateTyped, NEW n0 \in Nat, NEW raises \in BOOLEAN, NEW now \in Nat,
         \A k \in 1..n0 : BatchPayments[k] \in DOMAIN payments
  PROVE  \E N : AttemptRun(n0, raises, now, N)
  <1>1. PICK n, V, base : n = n0 /\ V = RetryState /\ base = Start
    OBVIOUS
  <1>2. n \in Nat /\ base \in V /\ DOMAIN Numbers(n0) = 1..n
        /\ \A k \in 1..n : Numbers(n0)[k] = k
    BY <1>1, StartTyped DEF Numbers
  <1> DEFINE step == [k \in 1..n |->
                        [s \in V |-> Attempted(s, BatchPayments[k], raises /\ k = n, now)]]
  <1>3. ASSUME NEW k \in 1..n, NEW s \in V
        PROVE  Attempted(s, BatchPayments[k], raises /\ k = n, now) \in V
    <2>1. /\ BatchPayments[k] \in DOMAIN payments /\ BatchPayments[k] \in Submission
          /\ BaseTyped(s) /\ s \in RetryState /\ (raises /\ k = n) \in BOOLEAN
      BY <1>1, StatesTyped DEF StateTyped
    <2>2. PICK t : t = Attempted(s, BatchPayments[k], raises /\ k = n, now)
      OBVIOUS
    <2>3. SameRest(s, t)
      BY <2>1, <2>2, AttemptTyped
    <2> QED BY <1>1, <2>1, <2>2, <2>3 DEF SameRest
  <1>4. /\ step \in [1..n -> [V -> V]]
        /\ \A k \in 1..n, s \in V :
             step[k][s] = Attempted(s, BatchPayments[k], raises /\ k = n, now)
    BY <1>3
  <1> HIDE DEF step
  <1>5. PICK h \in [SUBSET (1..n) -> V] : LeftFold(n, base, step, h)
    BY <1>2, <1>4, SomeLeftFold
  <1>6. ASSUME NEW S \in SUBSET (1..n), S # {} PROVE Max(S) \in S
    <2>1. S \in SUBSET Int /\ n \in Int /\ \A x \in S : x <= n
      BY <1>2
    <2> QED BY <1>6, <2>1, MaxOfBounded
  <1>7. ASSUME NEW S \in SUBSET (1..n), S # {}
        PROVE  step[Max(S)][h[S \ {Max(S)}]]
                 = Attempted(h[S \ {Max(S)}], BatchPayments[Numbers(n0)[Max(S)]],
                             raises /\ Numbers(n0)[Max(S)] = n0, now)
    <2>1. /\ Max(S) \in 1..n /\ h[S \ {Max(S)}] \in V
          /\ Numbers(n0)[Max(S)] = Max(S) /\ n = n0
      BY <1>1, <1>2, <1>5, <1>6, <1>7
    <2> QED BY <1>4, <2>1
  <1>8. AttemptFolds(n0, raises, now, h)
    <2>1. [S \in SUBSET (1..n) |-> IF S = {} THEN base ELSE step[Max(S)][h[S \ {Max(S)}]]]
            = [S \in SUBSET (1..n) |->
                 IF S = {} THEN base
                 ELSE Attempted(h[S \ {Max(S)}], BatchPayments[Numbers(n0)[Max(S)]],
                                raises /\ Numbers(n0)[Max(S)] = n0, now)]
      BY <1>7
    <2> QED BY <1>1, <1>2, <1>5, <2>1 DEF LeftFold, AttemptFolds
  <1>9. PICK g : /\ AttemptFolds(n0, raises, now, g)
                 /\ g[DOMAIN Numbers(n0)] = AfterAttempts(n0, raises, now)
    BY <1>8, AttemptsAreRecursive
  <1>10. /\ g[{}] = Start
         /\ \A S \in SUBSET (1..n) : S # {} =>
              g[S] = Attempted(g[S \ {Max(S)}], BatchPayments[Numbers(n0)[Max(S)]],
                               raises /\ Numbers(n0)[Max(S)] = n0, now)
    BY <1>2, <1>9 DEF AttemptFolds
  <1> DEFINE N == [k \in 0..n |-> g[1..k]]
  <1>11. N[0] = Start
    <2>1. 1..0 = {} /\ 0 \in 0..n
      BY <1>2
    <2>2. N[0] = g[1..0]
      BY <2>1
    <2> HIDE DEF N
    <2> QED BY <2>1, <2>2, <1>10
  <1>12. ASSUME NEW k \in 1..n
         PROVE  N[k] = Attempted(N[k - 1], BatchPayments[k], raises /\ k = n0, now)
    <2>1. /\ 1..k \in SUBSET (1..n) /\ 1..k # {} /\ Max(1..k) = k
          /\ (1..k) \ {k} = 1..(k - 1)
      BY <1>2, PrefixEnd
    <2>2. g[1..k] = Attempted(g[1..(k - 1)], BatchPayments[k], raises /\ k = n0, now)
      <3>1. PICK S, T, x : S = 1..k /\ T = 1..(k - 1) /\ x = Max(S)
        OBVIOUS
      <3>2. S \in SUBSET (1..n) /\ S # {} /\ x = k /\ S \ {x} = T /\ Numbers(n0)[x] = k
        BY <1>2, <2>1, <3>1
      <3>3. g[S] = Attempted(g[S \ {x}], BatchPayments[Numbers(n0)[x]],
                             raises /\ Numbers(n0)[x] = n0, now)
        BY ONLY <1>10, <3>1, <3>2
      <3> QED BY ONLY <3>1, <3>2, <3>3
    <2>3. N[k] = g[1..k] /\ N[k - 1] = g[1..(k - 1)]
      BY <1>2
    <2> QED BY <2>2, <2>3
  <1>13. N[n] = AfterAttempts(n0, raises, now)
    BY <1>2, <1>9
  <1> HIDE DEF N
  <1>14. \A k \in 0..n : N[k] \in V
    <2> SUFFICES ASSUME NEW k0 \in 0..n, N[k0] \notin V PROVE FALSE
      OBVIOUS
    <2> DEFINE Bad == {k \in 0..n : N[k] \notin V}
    <2>1. PICK k \in Bad : \A j \in Bad : k <= j
      <3>1. Bad \in SUBSET Nat /\ Bad # {}
        BY <1>2
      <3> QED BY <3>1, LeastNatural
    <2>2. k \in 0..n /\ N[k] \notin V
      OBVIOUS
    <2>3. k # 0
      BY <1>1, <1>2, <1>11, <2>2
    <2>4. k \in 1..n /\ k - 1 \in 0..n /\ ~(k <= k - 1)
      BY <1>2, <2>2, <2>3
    <2>5. N[k - 1] \in V
      BY <2>1, <2>4
    <2> HIDE DEF Bad
    <2> QED BY <1>1, <1>3, <1>12, <2>2, <2>4, <2>5
  <1>15. \A k \in 1..n : k \in 0..n /\ k - 1 \in 0..n
    BY <1>2
  <1>16. AttemptRun(n0, raises, now, N)
    BY <1>1, <1>11, <1>12, <1>13, <1>14, <1>15 DEF AttemptRun
  <1> QED BY <1>16
-----------------------------------------------------------------------------
(***************************************************************************)
(* The places of the payments in the queue and on the heap.                *)
(***************************************************************************)
WhoWaits == [i \in DOMAIN waiting |-> owner[waiting[i].arrival_order + 1]]

\* The payments whose attempts wait behind the first m items; 0 is no payment.
WaitersFrom(m) == {WhoWaits[i] : i \in (m + 1)..Len(waiting)} \ {0}

IsRetry(e) == e.callback[1] = "retry"
RetriesIn(events) == {e \in events : IsRetry(e)}
PairsIn(events) == {<<e.callback[2], e.time>> : e \in RetriesIn(events)}

DroppedIn(losses) == {l.event.callback[2] : l \in {k \in losses : IsRetry(k.event)}}
DroppedPayments == DroppedIn(lost)

RaisedPayments == {owner[o + 1] : o \in failed} \ {0}

LineInv ==
  /\ waiting \in Seq(Queue!QueuedPayment) /\ nextArrival \in Nat
  /\ owner \in Seq({0} \cup DOMAIN payments) /\ Len(owner) = nextArrival
  /\ \A i \in DOMAIN waiting : waiting[i].arrival_order < nextArrival
  /\ failed \subseteq 0..(nextArrival - 1)
  /\ \A i, j \in DOMAIN waiting : WhoWaits[i] = WhoWaits[j] /\ WhoWaits[i] # 0 => i = j
  /\ \A o, u \in failed : owner[o + 1] = owner[u + 1] /\ owner[o + 1] # 0 => o = u

\* No two events are retries of one payment.
RetriesApart(events) ==
  \A e, f \in events : e.callback = f.callback /\ IsRetry(e) => e = f

HeapInv ==
  /\ clock \in Nat /\ nextOrder \in Nat
  /\ queue \subseteq Queue!Sched!Event
  /\ lost \subseteq [event : Queue!Sched!Event, cause : Queue!Sched!Cause]
  /\ RetriesApart(queue)
  /\ \A l, k \in lost : l.event.callback = k.event.callback /\ IsRetry(l.event) => l = k

GoodNow == Good(payments, entries, pendingRetries, attempts, WaitersFrom(0),
                PairsIn(queue), DroppedPayments, RaisedPayments, clock)

RetryInv == LineInv /\ HeapInv /\ StateTyped /\ GoodNow

\* An event is a tick, an arrival or the retry of a payment.
LEMMA EventKinds ==
  ASSUME NEW e \in Queue!Sched!Event
  PROVE  /\ e.time \in Nat
         /\ IsRetry(e) => /\ e.callback[2] \in Submission
                          /\ e.callback = <<"retry", e.callback[2]>>
         /\ ~IsRetry(e) => \A p : e.callback # <<"retry", p>>
  <1>1. e.time \in Nat /\ e.callback \in Queue!Callback
    BY DEF Queue!Sched!Event
  <1>2. CASE e.callback = <<"tick">>
    BY <1>1, <1>2 DEF IsRetry
  <1>3. CASE e.callback = <<"arrive">>
    BY <1>1, <1>3 DEF IsRetry
  <1>4. CASE e.callback \in {<<"retry", p>> : p \in Submission}
    BY <1>1, <1>4 DEF IsRetry
  <1> QED BY <1>1, <1>2, <1>3, <1>4 DEF Queue!Callback

LEMMA PairsOfUnion ==
  ASSUME NEW a, NEW b
  PROVE  PairsIn(a \cup b) = PairsIn(a) \cup PairsIn(b)
  <1>1. RetriesIn(a \cup b) = RetriesIn(a) \cup RetriesIn(b)
    BY DEF RetriesIn
  <1> QED BY <1>1 DEF PairsIn

LEMMA OfUnion ==
  ASSUME NEW R, NEW S
  PROVE  Of(R \cup S) = Of(R) \cup Of(S)
  BY DEF Of

LEMMA OfPairs ==
  ASSUME NEW a
  PROVE  Of(PairsIn(a)) = {e.callback[2] : e \in RetriesIn(a)}
  <1>1. ASSUME NEW x \in Of(PairsIn(a)) PROVE x \in {e.callback[2] : e \in RetriesIn(a)}
    <2>1. PICK r \in PairsIn(a) : x = r[1]
      BY DEF Of
    <2>2. PICK e \in RetriesIn(a) : r = <<e.callback[2], e.time>>
      BY DEF PairsIn
    <2> QED BY <2>1, <2>2
  <1>2. ASSUME NEW x \in {e.callback[2] : e \in RetriesIn(a)} PROVE x \in Of(PairsIn(a))
    <2>1. PICK e \in RetriesIn(a) : x = e.callback[2]
      OBVIOUS
    <2>2. <<e.callback[2], e.time>> \in PairsIn(a) /\ <<e.callback[2], e.time>>[1] = x
      BY <2>1 DEF PairsIn
    <2> QED BY <2>2 DEF Of
  <1> QED BY <1>1, <1>2

\* An event that is no retry makes no difference.
LEMMA OtherEvents ==
  ASSUME NEW a, NEW b, \A e \in b : ~IsRetry(e)
  PROVE  PairsIn(a \cup b) = PairsIn(a) /\ PairsIn(a \ b) = PairsIn(a)
  <1>1. RetriesIn(a \cup b) = RetriesIn(a) /\ RetriesIn(a \ b) = RetriesIn(a)
    BY DEF RetriesIn
  <1> QED BY <1>1 DEF PairsIn

\* A retry that leaves the heap.
LEMMA RetryLeaves ==
  ASSUME NEW a \in SUBSET Queue!Sched!Event, RetriesApart(a), NEW e \in a, IsRetry(e)
  PROVE  /\ PairsIn(a \ {e}) = PairsIn(a) \ {<<e.callback[2], e.time>>}
         /\ <<e.callback[2], e.time>> \in PairsIn(a)
         /\ Of(PairsIn(a \ {e})) = Of(PairsIn(a)) \ {e.callback[2]}
         /\ \A r \in PairsIn(a) : r[1] = e.callback[2] => r = <<e.callback[2], e.time>>
  <1> DEFINE p == e.callback[2]
  <1>1. ASSUME NEW f \in RetriesIn(a), f.callback[2] = p
        PROVE  f = e
    <2>1. f \in a /\ IsRetry(f) /\ f \in Queue!Sched!Event /\ e \in Queue!Sched!Event
      BY DEF RetriesIn
    <2>2. f.callback = <<"retry", p>> /\ e.callback = <<"retry", p>>
      BY <1>1, <2>1, EventKinds
    <2> QED BY <2>1, <2>2 DEF RetriesApart
  <1>2. RetriesIn(a \ {e}) = RetriesIn(a) \ {e} /\ e \in RetriesIn(a)
    BY DEF RetriesIn
  <1>3. \A f \in RetriesIn(a) : \A g : <<f.callback[2], f.time>> = <<p, g>> => f = e
    BY <1>1
  <1>4. PairsIn(a \ {e}) = PairsIn(a) \ {<<p, e.time>>}
    BY <1>2, <1>3 DEF PairsIn
  <1>5. <<p, e.time>> \in PairsIn(a)
    BY <1>2 DEF PairsIn
  <1>6. Of(PairsIn(a \ {e})) = Of(PairsIn(a)) \ {p}
    <2>1. /\ Of(PairsIn(a \ {e})) = {f.callback[2] : f \in RetriesIn(a \ {e})}
          /\ Of(PairsIn(a)) = {f.callback[2] : f \in RetriesIn(a)}
      BY OfPairs
    <2>2. \A f \in RetriesIn(a) : f = e <=> f.callback[2] = p
      BY <1>1
    <2> QED BY <2>1, <2>2, <1>2
  <1>7. \A r \in PairsIn(a) : r[1] = p => r = <<p, e.time>>
    <2> SUFFICES ASSUME NEW r \in PairsIn(a), r[1] = p PROVE r = <<p, e.time>>
      OBVIOUS
    <2>1. PICK f \in RetriesIn(a) : r = <<f.callback[2], f.time>>
      BY DEF PairsIn
    <2> QED BY <2>1, <1>1
  <1> QED BY <1>4, <1>5, <1>6, <1>7
-----------------------------------------------------------------------------
(***************************************************************************)
(* What the steps between two ticks do to a good state.                    *)
(***************************************************************************)
LEMMA LaterGood ==
  ASSUME NEW pays, NEW ents, NEW pend, NEW atts, NEW W, NEW R, NEW D, NEW F,
         NEW now \in Nat, NEW later \in Nat, now <= later,
         Good(pays, ents, pend, atts, W, R, D, F, now)
  PROVE  Good(pays, ents, pend, atts, W, R, D, F, later)
  <1>1. Logged(pays, atts, W, R, now) /\ atts \in Seq(Attempt) /\ RetryDelay \in Nat
    BY RetryInputs DEF Good, Typed
  <1>2. \A i \in DOMAIN atts : atts[i].attempted_at \in Nat
    <2>1. \A i \in DOMAIN atts : atts[i] \in Attempt
      BY <1>1, LenProperties, ElementOfSeq
    <2> QED BY <2>1 DEF Attempt
  <1>3. Logged(pays, atts, W, R, later)
    <2>1. \A i \in DOMAIN atts :
            /\ atts[i].attempted_at <= now => atts[i].attempted_at <= later
            /\ atts[i].attempted_at + RetryDelay <= now
                 => atts[i].attempted_at + RetryDelay <= later
      BY <1>1, <1>2
    <2> QED BY <1>1, <2>1 DEF Logged
  <1> QED BY <1>3 DEF Good

\* The places of a payment whose retry is due, run or dropped.
RetryGone(pays, R, R2, p, t) ==
  /\ <<p, t>> \in R /\ R2 = R \ {<<p, t>>} /\ Of(R2) = Of(R) \ {p}
  /\ p \in Of(R) /\ p \in DOMAIN pays

LEMMA GoodRetryRun ==
  ASSUME NEW pays, NEW ents, NEW pend, NEW pend2, NEW atts, NEW W, NEW R, NEW R2, NEW D,
         NEW F, NEW p, NEW t \in Nat, RetryGone(pays, R, R2, p, t),
         Good(pays, ents, pend, atts, W, R, D, F, t),
         pend2 = [pend EXCEPT ![pays[p].processor] = @ - 1]
  PROVE  Good(pays, ents, pend2, atts, W \cup {p}, R2, D, F, t)
  <1>1. /\ <<p, t>> \in R /\ R2 = R \ {<<p, t>>} /\ Of(R2) = Of(R) \ {p}
        /\ p \in Of(R) /\ p \in DOMAIN pays
    BY DEF RetryGone
  <1>2. /\ Typed(pays, ents, pend, atts) /\ Apart(W, R, D, F)
        /\ Placed(pays, ents, W, R, D, F) /\ Logged(pays, atts, W, R, t)
        /\ Counted(pays, pend, R, D)
    BY DEF Good
  <1>3. Apart(W \cup {p}, R2, D, F)
    BY <1>1, <1>2 DEF Apart
  <1>4. Placed(pays, ents, W \cup {p}, R2, D, F)
    <2>1. (W \cup {p}) \cup Of(R2) \cup D = W \cup Of(R) \cup D
      BY <1>1
    <2> HIDE DEF Live, Broken, Settled
    <2> QED BY <1>1, <1>2, <2>1 DEF Placed
  <1>5. Logged(pays, atts, W \cup {p}, R2, t)
    <2>1. \A i \in DOMAIN atts : atts[i].payment = p =>
            atts[i].result = "retry" /\ atts[i].attempted_at + RetryDelay <= t
      <3>1. <<p, t>>[1] = p /\ <<p, t>>[2] = t
        OBVIOUS
      <3> QED BY <1>1, <1>2, <3>1 DEF Logged
    <2>2. \A r \in R2 : r \in R
      BY <1>1
    <2> QED BY <1>2, <2>1, <2>2 DEF Logged
  <1>6. IsFiniteSet(DOMAIN pays) /\ pays[p].processor \in Processor
    <2>1. DOMAIN pays = 1..Len(pays) /\ Len(pays) \in Nat /\ pays[p] \in Payment
      BY <1>1, <1>2, LenProperties, ElementOfSeq DEF Typed
    <2>2. IsFiniteSet(DOMAIN pays)
      BY <2>1, FS_Interval
    <2>3. pays[p].processor \in Processor
      BY <2>1 DEF Payment
    <2> QED BY <2>2, <2>3
  <1>7. ASSUME NEW r \in Processor
        PROVE  /\ pend2[r] = Cardinality(Under(pays, Of(R2) \cup D, r))
               /\ pend2[r] \in Nat
    <2>1. Under(pays, Of(R) \cup D, r) \subseteq DOMAIN pays
      BY <1>2 DEF Under, Placed
    <2>2. IsFiniteSet(Under(pays, Of(R) \cup D, r))
      BY <1>6, <2>1, FS_Subset
    <2>3. p \notin D
      BY <1>1, <1>2 DEF Apart
    <2>4. CASE r = pays[p].processor
      <3>1. /\ Under(pays, Of(R2) \cup D, r) = Under(pays, Of(R) \cup D, r) \ {p}
            /\ p \in Under(pays, Of(R) \cup D, r)
        BY <1>1, <2>3, <2>4 DEF Under
      <3>2. /\ Cardinality(Under(pays, Of(R2) \cup D, r))
                 = Cardinality(Under(pays, Of(R) \cup D, r)) - 1
            /\ Cardinality(Under(pays, Of(R2) \cup D, r)) \in Nat
        <4>1. IsFiniteSet(Under(pays, Of(R2) \cup D, r))
          BY <2>2, <3>1, FS_RemoveElement
        <4> QED BY <2>2, <3>1, <4>1, FS_RemoveElement, FS_CardinalityType
      <3>3. pend2[r] = pend[r] - 1
        BY <1>2, <1>6, <2>4 DEF Typed
      <3> QED BY <1>2, <3>2, <3>3 DEF Counted
    <2>5. CASE r # pays[p].processor
      <3>1. Under(pays, Of(R2) \cup D, r) = Under(pays, Of(R) \cup D, r)
        BY <1>1, <2>5 DEF Under
      <3>2. pend2[r] = pend[r]
        BY <1>2, <2>5 DEF Typed
      <3> QED BY <1>2, <3>1, <3>2 DEF Counted, Typed
    <2> QED BY <2>4, <2>5
  <1>8. pend2 \in [Processor -> Nat]
    <2>1. DOMAIN pend2 = Processor /\ pend2 = [x \in Processor |-> pend2[x]]
      BY <1>2 DEF Typed
    <2> QED BY <1>7, <2>1
  <1>9. Counted(pays, pend2, R2, D)
    BY <1>7 DEF Counted
  <1> QED BY <1>2, <1>3, <1>4, <1>5, <1>8, <1>9 DEF Good, Typed

LEMMA GoodRetryDropped ==
  ASSUME NEW pays, NEW ents, NEW pend, NEW atts, NEW W, NEW R, NEW R2, NEW D,
         NEW F, NEW p, NEW t, NEW now, RetryGone(pays, R, R2, p, t),
         Good(pays, ents, pend, atts, W, R, D, F, now)
  PROVE  Good(pays, ents, pend, atts, W, R2, D \cup {p}, F, now)
  <1>1. /\ <<p, t>> \in R /\ R2 = R \ {<<p, t>>} /\ Of(R2) = Of(R) \ {p}
        /\ p \in Of(R) /\ p \in DOMAIN pays
    BY DEF RetryGone
  <1>2. /\ Typed(pays, ents, pend, atts) /\ Apart(W, R, D, F)
        /\ Placed(pays, ents, W, R, D, F) /\ Logged(pays, atts, W, R, now)
        /\ Counted(pays, pend, R, D)
    BY DEF Good
  <1>3. Apart(W, R2, D \cup {p}, F)
    BY <1>1, <1>2 DEF Apart
  <1>4. Of(R2) \cup (D \cup {p}) = Of(R) \cup D
    BY <1>1
  <1>5. Placed(pays, ents, W, R2, D \cup {p}, F)
    <2>1. W \cup Of(R2) \cup (D \cup {p}) = W \cup Of(R) \cup D
      BY <1>1
    <2> QED BY <1>1, <1>2, <2>1 DEF Placed
  <1>6. Logged(pays, atts, W, R2, now)
    <2>1. \A r \in R2 : r \in R
      BY <1>1
    <2> QED BY <1>2, <2>1 DEF Logged
  <1>7. Counted(pays, pend, R2, D \cup {p})
    BY <1>2, <1>4 DEF Counted
  <1> QED BY <1>2, <1>3, <1>5, <1>6, <1>7 DEF Good

LEMMA GoodSubmitted ==
  ASSUME NEW pays, NEW ents, NEW pend, NEW atts, NEW W, NEW R, NEW D, NEW F, NEW now,
         NEW q \in Payment, Live(q), Good(pays, ents, pend, atts, W, R, D, F, now)
  PROVE  Good(Append(pays, q), ents, pend, atts, W \cup {Len(pays) + 1}, R, D, F, now)
  <1>1. /\ Typed(pays, ents, pend, atts) /\ Apart(W, R, D, F)
        /\ Placed(pays, ents, W, R, D, F) /\ Logged(pays, atts, W, R, now)
        /\ Counted(pays, pend, R, D)
    BY DEF Good
  <1>2. PICK n, pays2 : n = Len(pays) /\ pays2 = Append(pays, q)
    OBVIOUS
  <1>3. /\ n \in Nat /\ DOMAIN pays = 1..n /\ DOMAIN pays2 = 1..(n + 1)
        /\ pays2 \in Seq(Payment) /\ pays2[n + 1] = q
        /\ \A x \in DOMAIN pays : pays2[x] = pays[x]
    BY <1>1, <1>2, AppendOne DEF Typed
  <1>4. n + 1 \notin DOMAIN pays /\ DOMAIN pays2 = DOMAIN pays \cup {n + 1}
    BY <1>3
  <1>5. /\ W \subseteq DOMAIN pays /\ Of(R) \subseteq DOMAIN pays
        /\ D \subseteq DOMAIN pays /\ F \subseteq DOMAIN pays
    BY <1>1 DEF Placed
  <1>6. Apart(W \cup {n + 1}, R, D, F)
    BY <1>1, <1>4, <1>5 DEF Apart
  <1>7. Placed(pays2, ents, W \cup {n + 1}, R, D, F)
    BY <1>1, <1>3, <1>4, <1>5 DEF Placed
  <1>8. Logged(pays2, atts, W \cup {n + 1}, R, now)
    <2>1. \A i \in DOMAIN atts : atts[i].payment \in DOMAIN pays /\ atts[i].payment # n + 1
      BY <1>1, <1>4 DEF Logged
    <2> QED BY <1>1, <1>4, <2>1 DEF Logged
  <1>9. Counted(pays2, pend, R, D)
    BY <1>1, <1>3, <1>5, SamePending
  <1> QED BY <1>1, <1>2, <1>3, <1>6, <1>7, <1>8, <1>9 DEF Good, Typed
-----------------------------------------------------------------------------
(***************************************************************************)
(* A tick, item by item.                                                   *)
(***************************************************************************)
PushedPairs(pushes) == {<<pushes[i].callback[2], pushes[i].time>> : i \in DOMAIN pushes}

\* The scheduled retries are of payments that have no other.
PushesApart(pushes) ==
  /\ pushes \in Seq(RetryPush)
  /\ \A i, j \in DOMAIN pushes : pushes[i].callback = pushes[j].callback => i = j
  /\ \A i \in DOMAIN pushes : pushes[i].callback[2] \notin Of(PairsIn(queue))

\* The payments whose work has raised once that of the m-th item has.
RaisedBy(m, raises) ==
  IF raises THEN RaisedPayments \cup ({WhoWaits[m]} \ {0}) ELSE RaisedPayments

\* The state after the first m items, the work of the last of which has raised or
\* not.
Stage(s, m, raises, now) ==
  /\ BaseTyped(s) /\ PushesApart(s.pushes)
  /\ Good(s.payments, s.entries, s.pendingRetries, s.attempts, WaitersFrom(m),
          PairsIn(queue) \cup PushedPairs(s.pushes), DroppedPayments,
          RaisedBy(m, raises), now)
  /\ \A p \in WaitersFrom(m) : s.payments[p] = payments[p]

SameBase(s, u) == /\ BaseTyped(u) /\ u.payments = s.payments /\ u.entries = s.entries
                  /\ u.pendingRetries = s.pendingRetries /\ u.attempts = s.attempts
                  /\ u.pushes = s.pushes

LEMMA StageStart ==
  ASSUME RetryInv, NEW now \in Nat, clock <= now, NEW s, SameBase(Start, s)
  PROVE  Stage(s, 0, FALSE, now)
  <1>1. /\ s.payments = payments /\ s.entries = entries /\ s.attempts = attempts
        /\ s.pendingRetries = pendingRetries /\ s.pushes = <<>>
        /\ BaseTyped(s)
    BY DEF SameBase, Start
  <1>2. <<>> \in Seq(RetryPush) /\ DOMAIN <<>> = {}
    BY LenProperties
  <1>3. PushesApart(s.pushes) /\ PushedPairs(s.pushes) = {}
    BY <1>1, <1>2 DEF PushesApart, PushedPairs
  <1>4. Good(payments, entries, pendingRetries, attempts, WaitersFrom(0),
             PairsIn(queue), DroppedPayments, RaisedPayments, now)
    BY LaterGood DEF RetryInv, GoodNow, HeapInv
  <1>5. PairsIn(queue) \cup PushedPairs(s.pushes) = PairsIn(queue)
    BY <1>3
  <1>6. RaisedBy(0, FALSE) = RaisedPayments
    BY DEF RaisedBy
  <1> QED BY <1>1, <1>3, <1>4, <1>5, <1>6 DEF Stage

\* The owners of the items.
LEMMA Waiters ==
  ASSUME LineInv, NEW k \in 1..Len(waiting)
  PROVE  /\ DOMAIN waiting = 1..Len(waiting) /\ Len(waiting) \in Nat
         /\ k \in DOMAIN waiting /\ WhoWaits[k] = owner[waiting[k].arrival_order + 1]
         /\ WhoWaits[k] \in {0} \cup DOMAIN payments
         /\ WaitersFrom(k) = WaitersFrom(k - 1) \ {WhoWaits[k]}
         /\ WhoWaits[k] # 0 => WhoWaits[k] \in WaitersFrom(k - 1)
  <1>1. /\ DOMAIN waiting = 1..Len(waiting) /\ Len(waiting) \in Nat
        /\ k \in DOMAIN waiting /\ waiting[k] \in Queue!QueuedPayment
    BY LenProperties, ElementOfSeq DEF LineInv
  <1>2. waiting[k].arrival_order \in Nat
    BY <1>1 DEF Queue!QueuedPayment
  <1>3. /\ waiting[k].arrival_order < nextArrival /\ Len(owner) = nextArrival
        /\ owner \in Seq({0} \cup DOMAIN payments) /\ nextArrival \in Nat
    BY <1>1 DEF LineInv
  <1>4. WhoWaits[k] = owner[waiting[k].arrival_order + 1]
    BY <1>1 DEF WhoWaits
  <1>5. owner[waiting[k].arrival_order + 1] \in {0} \cup DOMAIN payments
    <2>1. waiting[k].arrival_order + 1 \in 1..Len(owner)
      BY <1>2, <1>3
    <2> QED BY <1>3, <2>1, ElementOfSeq
  <1>6. ((k - 1) + 1)..Len(waiting) = {k} \cup (k + 1)..Len(waiting)
    BY <1>1
  <1>7. \A i \in (k + 1)..Len(waiting) : WhoWaits[i] = WhoWaits[k] => WhoWaits[k] = 0
    <2>1. \A i \in (k + 1)..Len(waiting) : i \in DOMAIN waiting /\ i # k
      BY <1>1
    <2> QED BY <1>1, <2>1 DEF LineInv
  <1> HIDE DEF WhoWaits
  <1>8. WaitersFrom(k - 1) = ({WhoWaits[k]} \cup {WhoWaits[i] : i \in (k + 1)..Len(waiting)}) \ {0}
    BY <1>6 DEF WaitersFrom
  <1>9. WaitersFrom(k) = WaitersFrom(k - 1) \ {WhoWaits[k]}
    BY <1>7, <1>8 DEF WaitersFrom
  <1> QED BY <1>1, <1>4, <1>5, <1>8, <1>9

\* The retry that an attempt schedules.
PushesRetry(pushes, more, p, time) ==
  /\ PushesApart(pushes) /\ p \in DOMAIN payments /\ time \in Nat
  /\ p \notin Of(PairsIn(queue) \cup PushedPairs(pushes))
  /\ more = Append(pushes, [time |-> time, callback |-> <<"retry", p>>])

LEMMA PushedOnce ==
  ASSUME NEW pushes, NEW more, NEW p, NEW time, PushesRetry(pushes, more, p, time)
  PROVE  PushesApart(more) /\ PushedPairs(more) = PushedPairs(pushes) \cup {<<p, time>>}
  <1>0. /\ PushesApart(pushes) /\ p \in DOMAIN payments /\ time \in Nat
        /\ p \notin Of(PairsIn(queue) \cup PushedPairs(pushes))
        /\ more = Append(pushes, [time |-> time, callback |-> <<"retry", p>>])
    BY DEF PushesRetry
  <1>1. PICK push : push = [time |-> time, callback |-> <<"retry", p>>]
    OBVIOUS
  <1>2. push \in RetryPush /\ push.callback = <<"retry", p>> /\ push.time = time
        /\ push.callback[2] = p
    BY <1>0, <1>1 DEF RetryPush
  <1>3. PICK n \in Nat : n = Len(pushes)
    BY <1>0, LenProperties DEF PushesApart
  <1>4. /\ more \in Seq(RetryPush) /\ DOMAIN pushes = 1..n /\ DOMAIN more = 1..(n + 1)
        /\ \A i \in 1..n : more[i] = pushes[i]
        /\ more[n + 1] = push
    BY <1>0, <1>1, <1>2, <1>3, AppendOne DEF PushesApart
  <1>5. DOMAIN more = DOMAIN pushes \cup {n + 1} /\ n + 1 \notin DOMAIN pushes
    BY <1>4
  <1>6. \A i \in DOMAIN pushes : pushes[i].callback[2] # p
    <2> SUFFICES ASSUME NEW i \in DOMAIN pushes, pushes[i].callback[2] = p PROVE FALSE
      OBVIOUS
    <2>1. /\ <<p, pushes[i].time>> \in PairsIn(queue) \cup PushedPairs(pushes)
          /\ <<p, pushes[i].time>>[1] = p
      BY DEF PushedPairs
    <2> QED BY <1>0, <2>1 DEF Of
  <1>7. p \notin Of(PairsIn(queue))
    BY <1>0, OfUnion
  <1>8. PushedPairs(more) = PushedPairs(pushes) \cup {<<p, time>>}
    BY <1>2, <1>4, <1>5 DEF PushedPairs
  <1>9. \A i, j \in DOMAIN more : more[i].callback = more[j].callback => i = j
    <2> SUFFICES ASSUME NEW i \in DOMAIN more, NEW j \in DOMAIN more,
                        more[i].callback = more[j].callback
                 PROVE  i = j
      OBVIOUS
    <2>1. more[i].callback[2] = more[j].callback[2]
      OBVIOUS
    <2>2. CASE i \in DOMAIN pushes /\ j \in DOMAIN pushes
      BY <1>0, <2>2, <1>4 DEF PushesApart
    <2>3. CASE i = n + 1 /\ j \in DOMAIN pushes
      BY <2>1, <2>3, <1>2, <1>4, <1>6
    <2>4. CASE i \in DOMAIN pushes /\ j = n + 1
      BY <2>1, <2>4, <1>2, <1>4, <1>6
    <2> QED BY <1>5, <2>2, <2>3, <2>4
  <1>10. \A i \in DOMAIN more : more[i].callback[2] \notin Of(PairsIn(queue))
    BY <1>0, <1>2, <1>4, <1>5, <1>7 DEF PushesApart
  <1> QED BY <1>4, <1>8, <1>9, <1>10 DEF PushesApart

\* Of the payments, only p is different, and succeeded if its work returned.
OnlyAttempted(s, t, p, raises) ==
  /\ \A x \in DOMAIN payments : x # p => t.payments[x] = s.payments[x]
  /\ t.payments[p].payment_id = s.payments[p].payment_id
  /\ t.payments[p].outcome = "succeeded" <=> Verdict(s.payments[p]) = "work" /\ ~raises

\* An item that is a payment's attempt.
LEMMA StageAttempt ==
  ASSUME RetryInv, NEW k \in 1..Len(waiting), WhoWaits[k] # 0, NEW now \in Nat,
         NEW s, Stage(s, k - 1, FALSE, now), NEW u, SameBase(s, u),
         NEW raises \in BOOLEAN, raises => Verdict(payments[WhoWaits[k]]) = "work",
         NEW t, t = Attempted(u, WhoWaits[k], raises, now)
  PROVE  /\ Stage(t, k, raises, now) /\ SameRest(u, t)
         /\ OnlyAttempted(s, t, WhoWaits[k], raises)
  <1>1. PICK p : p = WhoWaits[k]
    OBVIOUS
  <1>2. /\ LineInv /\ RetryInv /\ p \in WaitersFrom(k - 1) /\ p \in DOMAIN payments
        /\ WaitersFrom(k) = WaitersFrom(k - 1) \ {p}
    BY <1>1, Waiters DEF RetryInv
  <1>3. PICK W, R, D, F : /\ W = WaitersFrom(k - 1)
                          /\ R = PairsIn(queue) \cup PushedPairs(s.pushes)
                          /\ D = DroppedPayments /\ F = RaisedPayments
    OBVIOUS
  <1>4. /\ BaseTyped(s) /\ PushesApart(s.pushes) /\ s.payments[p] = payments[p]
        /\ Good(s.payments, s.entries, s.pendingRetries, s.attempts, W, R, D, F, now)
        /\ \A x \in W : s.payments[x] = payments[x]
    BY <1>2, <1>3 DEF Stage, RaisedBy
  <1>5. CanTry(u, p, W, R, D, F, now)
    BY <1>2, <1>3, <1>4 DEF CanTry, SameBase, RetryInv, StateTyped
  <1>6. AttemptLeaves(u, t, p, raises, W, R, D, F, now)
    BY <1>1, <1>5, AttemptKeepsGood
  <1>7. PICK verdict : verdict = Verdict(payments[p])
    OBVIOUS
  <1>8. /\ BaseTyped(t) /\ SameRest(u, t)
        /\ Good(t.payments, t.entries, t.pendingRetries, t.attempts, W \ {p},
                RetriesAfter(R, verdict, p, now), D, BrokenAfter(F, verdict, p, raises), now)
        /\ t.pushes = PushesAfter(s.pushes, verdict, p, now)
        /\ \A x \in DOMAIN payments : x # p => t.payments[x] = s.payments[x]
        /\ t.payments[p].payment_id = s.payments[p].payment_id
        /\ t.payments[p].outcome = "succeeded" <=> verdict = "work" /\ ~raises
    BY <1>4, <1>6, <1>7 DEF AttemptLeaves, SameBase
  <1>9. RetryDelay \in Nat /\ now + RetryDelay \in Nat
    BY RetryInputs
  <1>10. /\ PushesApart(t.pushes)
         /\ RetriesAfter(R, verdict, p, now) = PairsIn(queue) \cup PushedPairs(t.pushes)
    <2>1. CASE verdict = "retry"
      <3>1. p \notin Of(PairsIn(queue) \cup PushedPairs(s.pushes))
        BY <1>2, <1>3, <1>4 DEF Good, Apart
      <3>2. PICK time \in Nat : time = now + RetryDelay
        BY <1>9
      <3>3. t.pushes = Append(s.pushes, [time |-> time, callback |-> <<"retry", p>>])
        BY <1>8, <2>1, <3>2 DEF PushesAfter
      <3>4. PICK pushes, more : pushes = s.pushes /\ more = t.pushes
        OBVIOUS
      <3>5. /\ PushesApart(pushes) /\ p \notin Of(PairsIn(queue) \cup PushedPairs(pushes))
            /\ more = Append(pushes, [time |-> time, callback |-> <<"retry", p>>])
        BY <1>4, <3>1, <3>3, <3>4
      <3>7. PushesRetry(pushes, more, p, time)
        BY <1>2, <3>5 DEF PushesRetry
      <3>6. PushesApart(more) /\ PushedPairs(more) = PushedPairs(pushes) \cup {<<p, time>>}
        BY ONLY <3>7, PushedOnce
      <3> QED BY <1>3, <2>1, <3>2, <3>4, <3>6 DEF RetriesAfter
    <2>2. CASE verdict # "retry"
      BY <1>3, <1>4, <1>8, <2>2 DEF RetriesAfter, PushesAfter
    <2> QED BY <2>1, <2>2
  <1>11. BrokenAfter(F, verdict, p, raises) = RaisedBy(k, raises)
    BY <1>1, <1>3, <1>7 DEF BrokenAfter, RaisedBy
  <1>12. \A x \in WaitersFrom(k) : t.payments[x] = payments[x]
    <2>1. W \subseteq DOMAIN payments
      BY <1>4 DEF Good, Placed, BaseTyped
    <2> QED BY <1>2, <1>3, <1>4, <1>8, <2>1
  <1>13. Stage(t, k, raises, now)
    BY <1>2, <1>3, <1>8, <1>10, <1>11, <1>12 DEF Stage
  <1>14. OnlyAttempted(s, t, p, raises)
    BY <1>4, <1>7, <1>8 DEF OnlyAttempted
  <1> QED BY <1>1, <1>8, <1>13, <1>14

\* An item that is no payment's.
LEMMA StageOther ==
  ASSUME RetryInv, NEW k \in 1..Len(waiting), WhoWaits[k] = 0, NEW now \in Nat,
         NEW s, Stage(s, k - 1, FALSE, now), NEW u, SameBase(s, u), NEW raises \in BOOLEAN
  PROVE  Stage(u, k, raises, now)
  <1>1. WaitersFrom(k) = WaitersFrom(k - 1)
    <2>1. WaitersFrom(k) = WaitersFrom(k - 1) \ {0}
      BY Waiters DEF RetryInv
    <2> QED BY <2>1 DEF WaitersFrom
  <1>2. RaisedBy(k, raises) = RaisedBy(k - 1, FALSE)
    BY DEF RaisedBy
  <1> QED BY <1>1, <1>2 DEF Stage, SameBase

\* What the tick that ran these items puts on the heap.
LEMMA PushedOnHeap ==
  ASSUME HeapInv, DOMAIN payments \subseteq Submission, NEW pushes, PushesApart(pushes),
         NEW t \in Nat, NEW all,
         all = pushes \/ all = Append(pushes, [time |-> t, callback |-> <<"tick">>]),
         NEW e \in queue, ~IsRetry(e), NEW q, q = (queue \ {e}) \cup Queue!Sched!Pushed(all)
  PROVE  /\ q \subseteq Queue!Sched!Event /\ RetriesApart(q) /\ Len(all) \in Nat
         /\ PairsIn(q) = PairsIn(queue) \cup PushedPairs(pushes)
  <1> DEFINE ev(i) == [time |-> all[i].time, order |-> nextOrder + i - 1,
                       callback |-> all[i].callback]
  <1>1. PICK n \in Nat : n = Len(pushes)
    BY LenProperties DEF PushesApart
  <1>2. /\ DOMAIN pushes = 1..n /\ nextOrder \in Nat /\ queue \subseteq Queue!Sched!Event
        /\ \A i \in 1..n : pushes[i] \in RetryPush
    BY <1>1, LenProperties, ElementOfSeq DEF PushesApart, HeapInv
  <1>3. PICK m \in Nat : /\ DOMAIN all = 1..m /\ Len(all) = m /\ n <= m /\ m <= n + 1
                         /\ \A i \in 1..n : all[i] = pushes[i]
                         /\ m = n + 1 =>
                              all[m] = [time |-> t, callback |-> <<"tick">>]
    <2>1. CASE all = pushes
      BY <2>1, <1>1, <1>2
    <2>2. CASE all = Append(pushes, [time |-> t, callback |-> <<"tick">>])
      <3>1. PICK E, x : /\ E = RetryPush \cup {x}
                        /\ x = [time |-> t, callback |-> <<"tick">>]
        OBVIOUS
      <3>2. pushes \in Seq(E) /\ x \in E
        <4>1. pushes \in [1..n -> E]
          BY <1>2, <3>1, <1>1 DEF PushesApart
        <4> QED BY <4>1, <3>1, SeqDef
      <3>3. /\ Len(all) = n + 1 /\ DOMAIN all = 1..(n + 1) /\ all[n + 1] = x
            /\ \A i \in 1..n : all[i] = pushes[i]
        BY <3>1, <3>2, <2>2, <1>1, AppendOne
      <3> QED BY <3>1, <3>3
    <2> QED BY <2>1, <2>2
  <1>4. \A i \in 1..n : /\ all[i].time \in Nat /\ all[i].callback[2] \in DOMAIN payments
                        /\ all[i].callback = <<"retry", all[i].callback[2]>>
    BY <1>2, <1>3 DEF RetryPush
  <1>5. \A i \in 1..m : i \in 1..n \/ (i = n + 1 /\ m = n + 1)
    BY <1>1, <1>3
  <1>6. \A i \in 1..m : ev(i) \in Queue!Sched!Event
    <2> SUFFICES ASSUME NEW i \in 1..m PROVE ev(i) \in Queue!Sched!Event
      OBVIOUS
    <2>1. nextOrder + i - 1 \in Nat
      BY <1>2
    <2>2. all[i].time \in Nat
      BY <1>3, <1>4, <1>5
    <2>3. all[i].callback \in Queue!Callback
      <3>1. CASE i \in 1..n
        <4>1. all[i].callback[2] \in Submission
          BY <3>1, <1>4
        <4> QED BY <3>1, <4>1, <1>4 DEF Queue!Callback
      <3>2. CASE i = n + 1 /\ m = n + 1
        <4>1. all[i].callback = <<"tick">>
          BY <3>2, <1>3
        <4> QED BY <4>1 DEF Queue!Callback
      <3> QED BY <3>1, <3>2, <1>5
    <2> QED BY <2>1, <2>2, <2>3 DEF Queue!Sched!Event
  <1>7. Queue!Sched!Pushed(all) = {ev(i) : i \in 1..m}
    BY <1>3 DEF Queue!Sched!Pushed
  <1>8. q \subseteq Queue!Sched!Event
    BY <1>2, <1>6, <1>7
  <1>9. \A i \in 1..m : IsRetry(ev(i)) <=> i \in 1..n
    <2>1. \A i \in 1..n : IsRetry(ev(i))
      BY <1>4 DEF IsRetry
    <2>2. m = n + 1 => ~IsRetry(ev(n + 1))
      BY <1>3 DEF IsRetry
    <2>3. n + 1 \notin 1..n
      BY <1>1
    <2> QED BY <1>5, <2>1, <2>2, <2>3
  <1>10. RetriesIn(Queue!Sched!Pushed(all)) = {ev(i) : i \in 1..n}
    <2>1. 1..n \subseteq 1..m
      BY <1>1, <1>3
    <2> QED BY <1>7, <1>9, <2>1 DEF RetriesIn
  <1>11. PairsIn(Queue!Sched!Pushed(all)) = PushedPairs(pushes)
    <2>1. \A i \in 1..n : /\ ev(i).callback[2] = pushes[i].callback[2]
                          /\ ev(i).time = pushes[i].time
      BY <1>3
    <2> HIDE DEF ev
    <2> QED BY <1>2, <1>10, <2>1 DEF PairsIn, PushedPairs
  <1>12. PairsIn(q) = PairsIn(queue) \cup PushedPairs(pushes)
    <2>1. PairsIn(queue \ {e}) = PairsIn(queue)
      BY OtherEvents
    <2> QED BY <2>1, <1>11, PairsOfUnion
  <1>13. ASSUME NEW f \in q, NEW g \in q, f.callback = g.callback, IsRetry(f)
         PROVE  f = g
    <2>1. IsRetry(g)
      BY <1>13 DEF IsRetry
    <2>2. \A x \in q : IsRetry(x) => x \in queue \/ \E i \in 1..n : x = ev(i)
      BY <1>10 DEF RetriesIn
    <2>3. \A i \in 1..n : \A x \in queue : IsRetry(x) => x.callback # ev(i).callback
      <3> SUFFICES ASSUME NEW i \in 1..n, NEW x \in queue, IsRetry(x),
                          x.callback = ev(i).callback
                   PROVE  FALSE
        OBVIOUS
      <3>1. ev(i).callback[2] \notin Of(PairsIn(queue))
        BY <1>2, <1>3 DEF PushesApart
      <3>2. x.callback[2] \in Of(PairsIn(queue))
        BY OfPairs DEF RetriesIn
      <3> QED BY <3>1, <3>2
    <2>4. \A i, j \in 1..n : ev(i).callback = ev(j).callback => i = j
      BY <1>2, <1>3 DEF PushesApart
    <2>5. CASE f \in queue /\ g \in queue
      BY <1>13, <2>5 DEF HeapInv, RetriesApart
    <2> HIDE DEF ev
    <2> QED BY <1>13, <2>1, <2>2, <2>3, <2>4, <2>5
  <1> QED BY <1>3, <1>8, <1>12, <1>13 DEF RetriesApart

\* The waiting line after a tick.
LineAfter(m, raises) ==
  /\ waiting' = SubSeq(waiting, m + 1, Len(waiting))
  /\ failed' = IF raises THEN failed \cup {waiting[m].arrival_order} ELSE failed
  /\ UNCHANGED <<owner, nextArrival>> /\ DOMAIN payments' = DOMAIN payments

LEMMA LineTakes ==
  ASSUME RetryInv, NEW m \in 0..Len(waiting), NEW raises \in BOOLEAN,
         raises => m \in 1..Len(waiting), LineAfter(m, raises)
  PROVE  /\ LineInv' /\ WaitersFrom(0)' = WaitersFrom(m)
         /\ RaisedPayments' = RaisedBy(m, raises)
  <1>1. /\ LineInv /\ waiting' = SubSeq(waiting, m + 1, Len(waiting))
        /\ owner' = owner /\ nextArrival' = nextArrival
        /\ DOMAIN payments' = DOMAIN payments
        /\ failed' = IF raises THEN failed \cup {waiting[m].arrival_order} ELSE failed
    BY DEF RetryInv, LineAfter
  <1>2. /\ waiting \in Seq(Queue!QueuedPayment) /\ DOMAIN waiting = 1..Len(waiting)
        /\ Len(waiting) \in Nat
    BY <1>1, LenProperties DEF LineInv
  <1>3. PICK l : l = Len(waiting) - m
    OBVIOUS
  <1>a. l \in Nat /\ m \in Nat
    BY <1>2, <1>3
  <1>4. /\ waiting' \in Seq(Queue!QueuedPayment) /\ Len(waiting') = l
        /\ DOMAIN waiting' = 1..l /\ \A i \in 1..l : waiting'[i] = waiting[i + m]
    <2>1. PICK s, E : s = waiting /\ E = Queue!QueuedPayment
      OBVIOUS
    <2>2. s \in Seq(E) /\ m \in 0..Len(s)
      BY <1>2, <2>1
    <2>3. LET t == SubSeq(s, m + 1, Len(s))
          IN  /\ t \in Seq(E) /\ Len(t) = Len(s) - m
              /\ DOMAIN t = 1..(Len(s) - m)
              /\ \A i \in 1..(Len(s) - m) : t[i] = s[i + m]
      BY ONLY <2>2, Suffix
    <2> QED BY <1>1, <1>3, <2>1, <2>3
  <1>5. \A i \in 1..l : /\ i + m \in DOMAIN waiting /\ i + m \in (m + 1)..Len(waiting)
                        /\ WhoWaits'[i] = WhoWaits[i + m]
    <2>1. \A i \in 1..l : i + m \in DOMAIN waiting /\ i + m \in (m + 1)..Len(waiting)
      BY <1>2, <1>3
    <2> QED BY <2>1, <1>1, <1>4 DEF WhoWaits
  <1>6. \A i \in (m + 1)..Len(waiting) : i - m \in 1..l /\ (i - m) + m = i
    BY <1>2, <1>3
  <1>7. WaitersFrom(0)' = WaitersFrom(m)
    <2> HIDE DEF WhoWaits
    <2>1. WaitersFrom(0)' = {WhoWaits'[i] : i \in 1..l} \ {0}
      BY <1>4 DEF WaitersFrom
    <2>2. {WhoWaits'[i] : i \in 1..l} = {WhoWaits[i] : i \in (m + 1)..Len(waiting)}
      <3>1. ASSUME NEW x \in {WhoWaits'[i] : i \in 1..l}
            PROVE  x \in {WhoWaits[i] : i \in (m + 1)..Len(waiting)}
        BY <1>5
      <3>2. ASSUME NEW i \in (m + 1)..Len(waiting)
            PROVE  WhoWaits[i] \in {WhoWaits'[k] : k \in 1..l}
        <4>1. i - m \in 1..l /\ WhoWaits'[i - m] = WhoWaits[(i - m) + m]
          BY <1>5, <1>6
        <4> QED BY <4>1, <1>6
      <3> QED BY <3>1, <3>2
    <2> QED BY <2>1, <2>2 DEF WaitersFrom
  <1>8. /\ waiting' \in Seq(Queue!QueuedPayment) /\ nextArrival' \in Nat
        /\ owner' \in Seq({0} \cup DOMAIN payments') /\ Len(owner') = nextArrival'
        /\ \A i \in DOMAIN waiting' : waiting'[i].arrival_order < nextArrival'
        /\ \A i, j \in DOMAIN waiting' :
             WhoWaits'[i] = WhoWaits'[j] /\ WhoWaits'[i] # 0 => i = j
    <2>1. \A i, j \in 1..l : i + m = j + m => i = j
      BY <1>a
    <2> HIDE DEF WhoWaits
    <2>2. \A i, j \in DOMAIN waiting' :
            WhoWaits'[i] = WhoWaits'[j] /\ WhoWaits'[i] # 0 => i = j
      <3> SUFFICES ASSUME NEW i \in 1..l, NEW j \in 1..l,
                          WhoWaits'[i] = WhoWaits'[j], WhoWaits'[i] # 0
                   PROVE  i = j
        BY <1>4
      <3>1. /\ i + m \in DOMAIN waiting /\ j + m \in DOMAIN waiting
            /\ WhoWaits[i + m] = WhoWaits[j + m] /\ WhoWaits[i + m] # 0
        BY <1>5
      <3> QED BY <1>1, <2>1, <3>1 DEF LineInv
    <2>3. \A i \in DOMAIN waiting' : waiting'[i].arrival_order < nextArrival'
      BY <1>1, <1>4, <1>5 DEF LineInv
    <2> QED BY <1>1, <1>4, <2>2, <2>3 DEF LineInv
  <1>9. CASE ~raises
    <2>1. failed' = failed /\ RaisedPayments' = RaisedPayments
      BY <1>1, <1>9 DEF RaisedPayments
    <2> QED BY <1>1, <1>7, <1>8, <1>9, <2>1 DEF LineInv, RaisedBy
  <1>10. CASE raises
    <2>1. PICK a : a = waiting[m].arrival_order
      OBVIOUS
    <2>2. /\ m \in DOMAIN waiting /\ waiting[m] \in Queue!QueuedPayment
          /\ WhoWaits[m] = owner[a + 1] /\ failed' = failed \cup {a}
          /\ m \in 1..Len(waiting)
      BY <1>1, <1>2, <1>10, <2>1, ElementOfSeq DEF WhoWaits
    <2>3. a \in 0..(nextArrival - 1)
      <3>1. a \in Nat
        BY <2>1, <2>2 DEF Queue!QueuedPayment
      <3> QED BY <1>1, <2>1, <2>2, <3>1 DEF LineInv
    <2>4. owner[a + 1] # 0 => owner[a + 1] \notin RaisedPayments
      <3>1. WhoWaits[m] # 0 => WhoWaits[m] \in WaitersFrom(0)
        BY <2>2, <1>2 DEF WaitersFrom
      <3>2. WaitersFrom(0) \cap RaisedPayments = {}
        BY DEF RetryInv, GoodNow, Good, Apart
      <3> QED BY <2>2, <3>1, <3>2
    <2>5. \A o, u \in failed' : owner'[o + 1] = owner'[u + 1] /\ owner'[o + 1] # 0 => o = u
      <3>1. \A o \in failed : owner[o + 1] # 0 => owner[o + 1] \in RaisedPayments
        BY DEF RaisedPayments
      <3>2. \A o, u \in failed : owner[o + 1] = owner[u + 1] /\ owner[o + 1] # 0 => o = u
        BY <1>1 DEF LineInv
      <3> QED BY <1>1, <2>2, <2>4, <3>1, <3>2
    <2>6. RaisedPayments' = RaisedPayments \cup ({owner[a + 1]} \ {0})
      BY <1>1, <2>2 DEF RaisedPayments
    <2>7. failed' \subseteq 0..(nextArrival' - 1)
      BY <1>1, <2>2, <2>3 DEF LineInv
    <2> QED BY <1>7, <1>8, <1>10, <2>2, <2>5, <2>6, <2>7 DEF LineInv, RaisedBy
  <1> QED BY <1>9, <1>10

\* What a tick leaves, once its items have made s of the processors' state.
TickTakes(e, s, m, raises) ==
  /\ e.callback = <<"tick">> /\ clock <= e.time
  /\ payments' = s.payments /\ entries' = s.entries
  /\ pendingRetries' = s.pendingRetries /\ attempts' = s.attempts
  /\ waiting' = SubSeq(waiting, m + 1, Len(waiting))
  /\ failed' = IF raises THEN failed \cup {waiting[m].arrival_order} ELSE failed
  /\ UNCHANGED <<owner, nextArrival>>
  /\ clock' = e.time
  /\ \E all : /\ \/ all = s.pushes
                 \/ all = Append(s.pushes, [time |-> e.time + 1, callback |-> <<"tick">>])
              /\ queue' = (queue \ {e}) \cup Queue!Sched!Pushed(all)
              /\ nextOrder' = nextOrder + Len(all)
  /\ \/ lost' = lost
     \/ lost' = lost \cup {[event |-> e, cause |-> "raised"]}

LEMMA TickEnds ==
  ASSUME RetryInv, NEW e \in queue, NEW m \in 0..Len(waiting), NEW raises \in BOOLEAN,
         raises => m \in 1..Len(waiting), NEW s, Stage(s, m, raises, e.time),
         TickTakes(e, s, m, raises)
  PROVE  RetryInv'
  <1>1. /\ e \in Queue!Sched!Event /\ e.time \in Nat /\ ~IsRetry(e)
        /\ DOMAIN payments \subseteq Submission /\ HeapInv
    BY EventKinds DEF RetryInv, HeapInv, TickTakes, IsRetry, StateTyped
  <1>2. /\ payments' = s.payments /\ entries' = s.entries
        /\ pendingRetries' = s.pendingRetries /\ attempts' = s.attempts
        /\ clock' = e.time
    BY DEF TickTakes
  <1>3. /\ BaseTyped(s) /\ PushesApart(s.pushes)
        /\ Good(s.payments, s.entries, s.pendingRetries, s.attempts, WaitersFrom(m),
                PairsIn(queue) \cup PushedPairs(s.pushes), DroppedPayments,
                RaisedBy(m, raises), e.time)
    BY DEF Stage
  <1>4. DOMAIN payments' = DOMAIN payments
    BY <1>2, <1>3 DEF BaseTyped
  <1>5. /\ LineInv' /\ WaitersFrom(0)' = WaitersFrom(m)
        /\ RaisedPayments' = RaisedBy(m, raises)
    <2>1. LineAfter(m, raises)
      BY <1>4 DEF TickTakes, LineAfter
    <2> QED BY <2>1, LineTakes
  <1>6. PICK all : /\ \/ all = s.pushes
                      \/ all = Append(s.pushes, [time |-> e.time + 1, callback |-> <<"tick">>])
                   /\ queue' = (queue \ {e}) \cup Queue!Sched!Pushed(all)
                   /\ nextOrder' = nextOrder + Len(all)
    BY DEF TickTakes
  <1>7. /\ queue' \subseteq Queue!Sched!Event /\ RetriesApart(queue') /\ Len(all) \in Nat
        /\ PairsIn(queue') = PairsIn(queue) \cup PushedPairs(s.pushes)
    <2>1. PICK q, pushes, t : q = queue' /\ pushes = s.pushes /\ t = e.time + 1
      OBVIOUS
    <2>2. /\ PushesApart(pushes) /\ t \in Nat /\ q = (queue \ {e}) \cup Queue!Sched!Pushed(all)
          /\ all = pushes \/ all = Append(pushes, [time |-> t, callback |-> <<"tick">>])
      BY <1>1, <1>3, <1>6, <2>1
    <2>3. /\ q \subseteq Queue!Sched!Event /\ RetriesApart(q) /\ Len(all) \in Nat
          /\ PairsIn(q) = PairsIn(queue) \cup PushedPairs(pushes)
      BY ONLY <1>1, <2>2, PushedOnHeap, e \in queue
    <2> QED BY <2>1, <2>3
  <1>8. /\ DroppedPayments' = DroppedPayments
        /\ lost' \subseteq [event : Queue!Sched!Event, cause : Queue!Sched!Cause]
        /\ \A l, k \in lost' : l.event.callback = k.event.callback /\ IsRetry(l.event) => l = k
    <2>1. CASE lost' = lost
      BY <1>1, <2>1 DEF HeapInv, DroppedPayments
    <2>2. CASE lost' = lost \cup {[event |-> e, cause |-> "raised"]}
      <3>1. PICK x : /\ x = [event |-> e, cause |-> "raised"] /\ x.event = e
                     /\ lost' = lost \cup {x}
        BY <2>2
      <3>2. x \in [event : Queue!Sched!Event, cause : Queue!Sched!Cause]
        BY <1>1, <3>1 DEF Queue!Sched!Cause
      <3>3. DroppedPayments' = DroppedPayments
        BY <1>1, <3>1 DEF DroppedPayments, DroppedIn
      <3>4. \A l : l.event.callback = e.callback /\ IsRetry(l.event) => FALSE
        BY <1>1 DEF IsRetry
      <3> QED BY <1>1, <3>1, <3>2, <3>3, <3>4 DEF HeapInv
    <2> QED BY <2>1, <2>2 DEF TickTakes
  <1>9. HeapInv'
    BY <1>1, <1>2, <1>6, <1>7, <1>8 DEF HeapInv
  <1>10. GoodNow'
    BY <1>2, <1>3, <1>5, <1>7, <1>8 DEF GoodNow
  <1>11. StateTyped'
    BY <1>1, <1>2, <1>3, <1>4 DEF StateTyped, Good
  <1> QED BY <1>5, <1>9, <1>10, <1>11 DEF RetryInv
-----------------------------------------------------------------------------
(***************************************************************************)
(* The other steps.                                                        *)
(***************************************************************************)
\* An item of p, or of no payment, joins the waiting line.
Joins(p, now) ==
  /\ waiting' = Append(waiting, [arrival_order |-> nextArrival, queued_at |-> now,
                                 queue_position |-> Len(waiting) + 1])
  /\ nextArrival' = nextArrival + 1
  /\ owner' = Append(owner, p)
  /\ failed' = failed

LEMMA LineGrows ==
  ASSUME LineInv, DOMAIN payments \subseteq DOMAIN payments', NEW now \in Nat,
         NEW p \in {0} \cup DOMAIN payments', p # 0 => p \notin WaitersFrom(0),
         Joins(p, now)
  PROVE  /\ LineInv' /\ WaitersFrom(0)' = WaitersFrom(0) \cup ({p} \ {0})
         /\ RaisedPayments' = RaisedPayments
  <1>1. PICK n, a, x : /\ n = Len(waiting) /\ a = nextArrival
                       /\ x = [arrival_order |-> a, queued_at |-> now,
                               queue_position |-> n + 1]
    OBVIOUS
  <1>2. /\ waiting' = Append(waiting, x) /\ nextArrival' = a + 1
        /\ owner' = Append(owner, p) /\ failed' = failed
    BY <1>1 DEF Joins
  <1>3. /\ waiting \in Seq(Queue!QueuedPayment) /\ a \in Nat /\ n \in Nat
        /\ owner \in Seq({0} \cup DOMAIN payments') /\ Len(owner) = a
        /\ DOMAIN owner = 1..a
        /\ failed \subseteq 0..(a - 1)
    <2>1. /\ waiting \in Seq(Queue!QueuedPayment) /\ a \in Nat /\ n \in Nat
          /\ owner \in Seq({0} \cup DOMAIN payments) /\ Len(owner) = a
          /\ DOMAIN owner = 1..a /\ failed \subseteq 0..(a - 1)
      BY <1>1, LenProperties DEF LineInv
    <2>2. owner \in [1..a -> {0} \cup DOMAIN payments']
      <3>1. owner \in [1..a -> {0} \cup DOMAIN payments]
        BY <2>1, LenProperties
      <3> QED BY <3>1
    <2> QED BY <2>1, <2>2, SeqDef
  <1>4. x \in Queue!QueuedPayment /\ x.arrival_order = a
    BY <1>1, <1>3 DEF Queue!QueuedPayment
  <1>5. /\ waiting' \in Seq(Queue!QueuedPayment) /\ DOMAIN waiting = 1..n
        /\ Len(waiting') = n + 1 /\ DOMAIN waiting' = 1..(n + 1)
        /\ \A i \in 1..n : waiting'[i] = waiting[i] /\ waiting[i] \in Queue!QueuedPayment
        /\ waiting'[n + 1] = x
    BY <1>1, <1>2, <1>3, <1>4, AppendOne
  <1>6. /\ owner' \in Seq({0} \cup DOMAIN payments') /\ Len(owner') = a + 1
        /\ \A i \in 1..a : owner'[i] = owner[i]
        /\ owner'[a + 1] = p
    <2>1. PICK E : E = {0} \cup DOMAIN payments'
      OBVIOUS
    <2>2. owner \in Seq(E) /\ p \in E
      BY <1>3, <2>1
    <2>3. /\ owner' \in Seq(E) /\ Len(owner') = a + 1 /\ owner'[a + 1] = p
          /\ \A i \in 1..a : owner'[i] = owner[i]
      BY <1>2, <1>3, <2>2, AppendOne
    <2> QED BY <2>1, <2>3
  <1>7. \A i \in 1..n : /\ waiting[i].arrival_order \in 0..(a - 1)
                        /\ waiting[i].arrival_order + 1 \in 1..a
    <2> SUFFICES ASSUME NEW i \in 1..n
                 PROVE  waiting[i].arrival_order \in 0..(a - 1)
      BY <1>3
    <2>1. waiting[i].arrival_order \in Nat
      BY <1>5 DEF Queue!QueuedPayment
    <2>2. waiting[i].arrival_order < a
      BY <1>1, <1>5 DEF LineInv
    <2> QED BY <2>1, <2>2, <1>3
  <1>8. /\ \A i \in 1..n : WhoWaits'[i] = WhoWaits[i]
        /\ WhoWaits'[n + 1] = p
    <2>1. \A i \in 1..n : /\ WhoWaits'[i] = owner'[waiting'[i].arrival_order + 1]
                          /\ WhoWaits[i] = owner[waiting[i].arrival_order + 1]
      BY <1>3, <1>5 DEF WhoWaits
    <2>2. WhoWaits'[n + 1] = owner'[waiting'[n + 1].arrival_order + 1]
      BY <1>3, <1>5 DEF WhoWaits
    <2> QED BY <2>1, <2>2, <1>4, <1>5, <1>6, <1>7
  <1>9. \A i \in DOMAIN waiting' : i \in 1..n \/ i = n + 1
    BY <1>3, <1>5
  <1> HIDE DEF WhoWaits
  <1>10. WaitersFrom(0)' = WaitersFrom(0) \cup ({p} \ {0})
    <2>1. WaitersFrom(0)' = {WhoWaits'[i] : i \in 1..(n + 1)} \ {0}
      BY <1>5 DEF WaitersFrom
    <2>2. WaitersFrom(0) = {WhoWaits[i] : i \in 1..n} \ {0}
      BY <1>1 DEF WaitersFrom
    <2>3. 1..(n + 1) = 1..n \cup {n + 1}
      BY <1>3
    <2>4. {WhoWaits'[i] : i \in 1..(n + 1)} = {WhoWaits[i] : i \in 1..n} \cup {p}
      BY <2>3, <1>8
    <2> QED BY <2>1, <2>2, <2>4
  <1>11. \A i, j \in DOMAIN waiting' : WhoWaits'[i] = WhoWaits'[j] /\ WhoWaits'[i] # 0 => i = j
    <2>1. \A i \in 1..n : WhoWaits[i] = p => p = 0
      BY <1>1, <1>3 DEF WaitersFrom
    <2>2. \A i, j \in 1..n : WhoWaits[i] = WhoWaits[j] /\ WhoWaits[i] # 0 => i = j
      BY <1>5 DEF LineInv
    <2> QED BY <1>8, <1>9, <2>1, <2>2
  <1>12. \A o \in failed : owner'[o + 1] = owner[o + 1] /\ o + 1 \in 1..a
    <2>1. \A o \in failed : o + 1 \in 1..a
      BY <1>3
    <2> QED BY <1>6, <2>1
  <1>13. /\ RaisedPayments' = RaisedPayments
         /\ \A o, u \in failed' : owner'[o + 1] = owner'[u + 1] /\ owner'[o + 1] # 0 => o = u
    BY <1>2, <1>12 DEF RaisedPayments, LineInv
  <1>14. \A i \in DOMAIN waiting' : waiting'[i].arrival_order < nextArrival'
    <2>1. \A i \in 1..n : waiting[i].arrival_order < a + 1
      BY <1>3, <1>7
    <2>2. a < a + 1
      BY <1>3
    <2> QED BY <1>2, <1>4, <1>5, <1>9, <2>1, <2>2
  <1>15. failed' \subseteq 0..(nextArrival' - 1) /\ nextArrival' \in Nat
    BY <1>2, <1>3
  <1>16. LineInv'
    BY <1>2, <1>5, <1>6, <1>11, <1>13, <1>14, <1>15 DEF LineInv
  <1> QED BY <1>10, <1>13, <1>16

\* Waking the worker puts at most a tick on the heap.
LEMMA Wakes ==
  ASSUME HeapInv, NEW a \in SUBSET queue, NEW t \in Nat, NEW pushes,
         pushes = <<>> \/ pushes = <<[time |-> t, callback |-> <<"tick">>]>>,
         NEW q, q = a \cup Queue!Sched!Pushed(pushes)
  PROVE  /\ q \subseteq Queue!Sched!Event /\ RetriesApart(q)
         /\ PairsIn(q) = PairsIn(a) /\ Len(pushes) \in Nat
  <1>1. a \subseteq Queue!Sched!Event /\ nextOrder \in Nat /\ RetriesApart(a)
    BY DEF HeapInv, RetriesApart
  <1>2. CASE pushes = <<>>
    <2>1. q = a /\ Len(pushes) = 0
      BY <1>2 DEF Queue!Sched!Pushed
    <2> QED BY <1>1, <2>1
  <1>3. CASE pushes = <<[time |-> t, callback |-> <<"tick">>]>>
    <2>1. PICK x : x = [time |-> t, order |-> nextOrder + 1 - 1, callback |-> <<"tick">>]
      OBVIOUS
    <2>2. DOMAIN pushes = {1} /\ Len(pushes) = 1
          /\ pushes[1].time = t /\ pushes[1].callback = <<"tick">>
      BY <1>3
    <2>3. q = a \cup {x}
      BY <2>1, <2>2 DEF Queue!Sched!Pushed
    <2>4. x \in Queue!Sched!Event /\ ~IsRetry(x)
      BY <1>1, <2>1 DEF Queue!Sched!Event, Queue!Callback, IsRetry
    <2>5. \A f, g \in q : f.callback = g.callback /\ IsRetry(f) => f = g
      <3>1. \A f \in q : IsRetry(f) => f \in a
        BY <2>3, <2>4
      <3>2. \A f, g : f.callback = g.callback /\ IsRetry(f) => IsRetry(g)
        BY DEF IsRetry
      <3> QED BY <1>1, <3>1, <3>2 DEF RetriesApart
    <2>6. PairsIn(q) = PairsIn(a)
      <3>1. PICK b : b = {x}
        OBVIOUS
      <3>2. (\A f \in b : ~IsRetry(f)) /\ q = a \cup b
        BY <2>3, <2>4, <3>1
      <3> QED BY <3>2, OtherEvents
    <2> QED BY <1>1, <2>2, <2>3, <2>4, <2>5, <2>6 DEF RetriesApart
  <1> QED BY <1>2, <1>3

\* enqueue, between two events.
LEMMA EnqueueEffect ==
  ASSUME HeapInv, NEW p, owner' = Append(owner, p), Queue!enqueue
  PROVE  /\ HeapInv' /\ Joins(p, clock) /\ clock' = clock
         /\ PairsIn(queue)' = PairsIn(queue) /\ DroppedPayments' = DroppedPayments
  <1>1. Joins(p, clock)
    BY DEF Queue!enqueue, Queue!EnqueueAt, Joins
  <1>2. CASE Queue!WakePushes(clock) = <<>>
    <2>1. clock' = clock /\ queue' = queue /\ nextOrder' = nextOrder /\ lost' = lost
      BY <1>2 DEF Queue!enqueue, Queue!schedVars
    <2> QED BY <1>1, <2>1 DEF HeapInv, RetriesApart, DroppedPayments
  <1>3. CASE Queue!WakePushes(clock) # <<>>
    <2>1. /\ clock' = clock /\ lost' = lost /\ nextOrder' = nextOrder + 1
          /\ queue' = queue \cup {[time |-> clock + 1, order |-> nextOrder,
                                   callback |-> <<"tick">>]}
      BY <1>3 DEF Queue!enqueue, Queue!Sched!ScheduleAt
    <2>2. PICK q, pushes, t : /\ q = queue' /\ t = clock + 1
                              /\ pushes = <<[time |-> t, callback |-> <<"tick">>]>>
      OBVIOUS
    <2>3. nextOrder + 1 - 1 = nextOrder /\ t \in Nat /\ nextOrder + 1 \in Nat
      BY <2>2 DEF HeapInv
    <2>4. q = queue \cup Queue!Sched!Pushed(pushes)
      <3>1. DOMAIN pushes = {1} /\ pushes[1].time = t /\ pushes[1].callback = <<"tick">>
        BY <2>2
      <3> QED BY <2>1, <2>2, <2>3, <3>1 DEF Queue!Sched!Pushed
    <2>5. q \subseteq Queue!Sched!Event /\ RetriesApart(q) /\ PairsIn(q) = PairsIn(queue)
      BY ONLY HeapInv, <2>2, <2>3, <2>4, Wakes, queue \in SUBSET queue
    <2> QED BY <1>1, <2>1, <2>2, <2>3, <2>5 DEF HeapInv, DroppedPayments
  <1> QED BY <1>2, <1>3

NewPayment(processor, id, failures, permanent) ==
  [processor |-> processor, payment_id |-> id, failures |-> failures,
   permanent |-> permanent, attempts |-> 0, retry_count |-> 0,
   outcome |-> "none", worked |-> 0]

LEMMA SubmitKeeps ==
  ASSUME RetryInv, NEW processor \in Processor, NEW id \in PaymentIds,
         NEW failures \in Nat, NEW permanent \in BOOLEAN,
         submit(processor, id, failures, permanent)
  PROVE  RetryInv'
  <1>1. PICK q, n : q = NewPayment(processor, id, failures, permanent) /\ n = Len(payments)
    OBVIOUS
  <1>2. q \in Payment /\ Live(q)
    BY <1>1, RetryInputs DEF NewPayment, Payment, Outcome, Live
  <1>3. /\ payments' = Append(payments, q) /\ owner' = Append(owner, n + 1)
        /\ Queue!enqueue /\ n < MaxSubmissions
        /\ entries' = entries /\ pendingRetries' = pendingRetries /\ attempts' = attempts
    BY <1>1 DEF submit, NewPayment
  <1>4. LineInv /\ HeapInv /\ GoodNow /\ payments \in Seq(Payment) /\ clock \in Nat
    BY DEF RetryInv, HeapInv, StateTyped, Typed
  <1>5. /\ n \in Nat /\ DOMAIN payments = 1..n /\ DOMAIN payments' = 1..(n + 1)
        /\ payments' \in Seq(Payment)
    BY <1>1, <1>2, <1>3, <1>4, AppendOne
  <1>6. n + 1 \notin WaitersFrom(0) /\ n + 1 # 0 /\ {n + 1} \ {0} = {n + 1}
    <2>1. WaitersFrom(0) \subseteq DOMAIN payments
      BY <1>4 DEF GoodNow, Good, Placed
    <2> QED BY <1>5, <2>1
  <1>7. /\ HeapInv' /\ Joins(n + 1, clock) /\ clock' = clock
        /\ PairsIn(queue)' = PairsIn(queue) /\ DroppedPayments' = DroppedPayments
    BY <1>3, <1>4, EnqueueEffect
  <1>8. /\ LineInv' /\ WaitersFrom(0)' = WaitersFrom(0) \cup {n + 1}
        /\ RaisedPayments' = RaisedPayments
    <2>1. PICK p : p = n + 1
      OBVIOUS
    <2>2. /\ DOMAIN payments \subseteq DOMAIN payments' /\ p \in {0} \cup DOMAIN payments'
          /\ p # 0 => p \notin WaitersFrom(0)
          /\ Joins(p, clock) /\ {p} \ {0} = {p} /\ p = n + 1
      BY <1>5, <1>6, <1>7, <2>1
    <2> QED BY ONLY <1>4, <2>2, LineGrows
  <1>9. GoodNow'
    <2>1. Good(Append(payments, q), entries, pendingRetries, attempts,
               WaitersFrom(0) \cup {Len(payments) + 1}, PairsIn(queue), DroppedPayments,
               RaisedPayments, clock)
      BY <1>2, <1>4, GoodSubmitted DEF GoodNow
    <2> QED BY <1>1, <1>3, <1>7, <1>8, <2>1 DEF GoodNow
  <1>10. StateTyped'
    <2>1. n + 1 <= MaxSubmissions
      BY <1>3, <1>5, RetryInputs
    <2>2. DOMAIN payments' \subseteq Submission
      BY <1>5, <2>1, RetryInputs DEF Submission
    <2> QED BY <1>3, <1>5, <2>2 DEF RetryInv, StateTyped, Typed
  <1> QED BY <1>7, <1>8, <1>9, <1>10 DEF RetryInv

LEMMA DuplicateKeeps ==
  ASSUME RetryInv, Queue!enqueue, owner' = Append(owner, 0),
         UNCHANGED <<payments, entries, pendingRetries, attempts>>
  PROVE  RetryInv'
  <1>1. LineInv /\ HeapInv /\ GoodNow /\ clock \in Nat
    BY DEF RetryInv, HeapInv
  <1>2. /\ HeapInv' /\ Joins(0, clock) /\ clock' = clock
        /\ PairsIn(queue)' = PairsIn(queue) /\ DroppedPayments' = DroppedPayments
    BY <1>1, EnqueueEffect
  <1>3. LineInv' /\ WaitersFrom(0)' = WaitersFrom(0) /\ RaisedPayments' = RaisedPayments
    BY <1>1, <1>2, LineGrows
  <1>4. GoodNow' /\ StateTyped'
    BY <1>1, <1>2, <1>3 DEF GoodNow, RetryInv, StateTyped
  <1> QED BY <1>2, <1>3, <1>4 DEF RetryInv

LEMMA JumpKeeps ==
  ASSUME RetryInv, Jump
  PROVE  RetryInv'
  <1>1. PICK time \in Nat : /\ time >= clock /\ clock' = time /\ queue' = queue
                            /\ nextOrder' = nextOrder /\ lost' = lost
    BY DEF Jump, Queue!Jump, Queue!Sched!AdvanceTo
  <1>2. UNCHANGED <<queueVars, retryVars>>
    BY DEF Jump, Queue!Jump, Queue!queueVars, queueVars
  <1>3. LineInv'
    BY <1>2 DEF RetryInv, LineInv, queueVars, retryVars, WhoWaits
  <1>4. HeapInv'
    BY <1>1 DEF RetryInv, HeapInv, RetriesApart
  <1>5. GoodNow'
    <2>1. Good(payments, entries, pendingRetries, attempts, WaitersFrom(0),
               PairsIn(queue), DroppedPayments, RaisedPayments, clock')
      BY <1>1, LaterGood DEF RetryInv, HeapInv, GoodNow
    <2>2. /\ WaitersFrom(0)' = WaitersFrom(0) /\ RaisedPayments' = RaisedPayments
          /\ DroppedPayments' = DroppedPayments /\ PairsIn(queue)' = PairsIn(queue)
      BY <1>1, <1>2 DEF WaitersFrom, WhoWaits, RaisedPayments, DroppedPayments, queueVars,
                        retryVars
    <2> QED BY <1>2, <2>1, <2>2 DEF GoodNow, retryVars
  <1>6. StateTyped'
    BY <1>2 DEF RetryInv, StateTyped, retryVars
  <1> QED BY <1>3, <1>4, <1>5, <1>6 DEF RetryInv

LEMMA RetryRuns ==
  ASSUME RetryInv, NEW e \in queue, RunRetry(e)
  PROVE  RetryInv'
  <1>1. PICK p, t : p = e.callback[2] /\ t = e.time
    OBVIOUS
  <1>2. /\ e \in Queue!Sched!Event /\ IsRetry(e) /\ t \in Nat
        /\ LineInv /\ HeapInv /\ GoodNow /\ clock \in Nat
        /\ queue \subseteq Queue!Sched!Event /\ RetriesApart(queue)
    BY <1>1, EventKinds DEF RetryInv, HeapInv, RunRetry, IsRetry
  <1>3. PICK R, R2 : R = PairsIn(queue) /\ R2 = PairsIn(queue \ {e})
    OBVIOUS
  <1>4. /\ R2 = R \ {<<p, t>>} /\ <<p, t>> \in R /\ Of(R2) = Of(R) \ {p}
    BY <1>1, <1>2, <1>3, RetryLeaves
  <1>5. p \in Of(R)
    <2>1. <<p, t>>[1] = p
      OBVIOUS
    <2> QED BY <1>4, <2>1 DEF Of
  <1>6. /\ p \in DOMAIN payments /\ Live(payments[p]) /\ p \notin WaitersFrom(0)
    BY <1>3, <1>2, <1>5 DEF GoodNow, Good, Placed, Apart
  <1>7. ~Finished(payments[p])
    BY <1>6 DEF Live, Finished
  <1>8. /\ pendingRetries' = [pendingRetries EXCEPT ![payments[p].processor] = @ - 1]
        /\ owner' = Append(owner, p) /\ clock <= t
        /\ Queue!Sched!RunEvent(e, Queue!WakePushes(t), TRUE)
        /\ Queue!EnqueueAt(t)
        /\ UNCHANGED <<payments, entries, attempts>>
    BY <1>1, <1>7 DEF RunRetry, Queue!Sched!RunEvent
  <1>9. PICK a, pushes, q : /\ a = queue \ {e} /\ pushes = Queue!WakePushes(t)
                            /\ q = queue'
    OBVIOUS
  <1>10. /\ q = a \cup Queue!Sched!Pushed(pushes) /\ a \in SUBSET queue
         /\ clock' = t /\ lost' = lost /\ nextOrder' = nextOrder + Len(pushes)
         /\ pushes = <<>> \/ pushes = <<[time |-> t + 1, callback |-> <<"tick">>]>>
    BY <1>1, <1>8, <1>9 DEF Queue!Sched!RunEvent, Queue!WakePushes
  <1>11. /\ q \subseteq Queue!Sched!Event /\ RetriesApart(q)
         /\ PairsIn(q) = PairsIn(a) /\ Len(pushes) \in Nat
    <2>1. PICK u : u = t + 1
      OBVIOUS
    <2>2. u \in Nat /\ (pushes = <<>> \/ pushes = <<[time |-> u, callback |-> <<"tick">>]>>)
      BY <1>2, <1>10, <2>1
    <2> QED BY ONLY <1>2, <1>10, <2>2, Wakes
  <1>12. HeapInv' /\ DroppedPayments' = DroppedPayments
    BY <1>2, <1>9, <1>10, <1>11 DEF HeapInv, DroppedPayments
  <1>13. /\ LineInv' /\ WaitersFrom(0)' = WaitersFrom(0) \cup ({p} \ {0})
         /\ RaisedPayments' = RaisedPayments
    <2>1. Joins(p, t) /\ payments' = payments
      BY <1>8 DEF Joins, Queue!EnqueueAt
    <2>2. p \in {0} \cup DOMAIN payments' /\ DOMAIN payments \subseteq DOMAIN payments'
      BY <1>6, <2>1
    <2> QED BY <1>2, <1>6, <2>1, <2>2, LineGrows
  <1>14. {p} \ {0} = {p}
    <2>1. DOMAIN payments = 1..Len(payments)
      BY LenProperties DEF RetryInv, StateTyped, Typed
    <2> QED BY <1>6, <2>1
  <1>15. Good(payments, entries, pendingRetries', attempts, WaitersFrom(0) \cup {p}, R2,
              DroppedPayments, RaisedPayments, t)
    <2>1. PICK pend2, W, D, F : /\ pend2 = pendingRetries' /\ W = WaitersFrom(0)
                                /\ D = DroppedPayments /\ F = RaisedPayments
      OBVIOUS
    <2>2. Good(payments, entries, pendingRetries, attempts, W, R, D, F, t)
      BY <1>2, <1>3, <1>8, <2>1, LaterGood DEF GoodNow
    <2>3. RetryGone(payments, R, R2, p, t)
      BY <1>4, <1>5, <1>6 DEF RetryGone
    <2>4. pend2 = [pendingRetries EXCEPT ![payments[p].processor] = @ - 1]
      BY <1>8, <2>1
    <2>5. Good(payments, entries, pend2, attempts, W \cup {p}, R2, D, F, t)
      BY ONLY <1>2, <2>2, <2>3, <2>4, GoodRetryRun
    <2> QED BY <2>1, <2>5
  <1>16. GoodNow'
    BY <1>3, <1>8, <1>9, <1>10, <1>11, <1>12, <1>13, <1>14, <1>15 DEF GoodNow
  <1>17. StateTyped'
    BY <1>8, <1>16 DEF RetryInv, StateTyped, GoodNow, Good, Typed
  <1> QED BY <1>12, <1>13, <1>16, <1>17 DEF RetryInv

LEMMA DropKeeps ==
  ASSUME RetryInv, NEW e \in queue, Queue!Sched!DropOverdue(e),
         UNCHANGED <<queueVars, retryVars>>
  PROVE  RetryInv'
  <1>1. PICK p, t, x : /\ p = e.callback[2] /\ t = e.time
                       /\ x = [event |-> e, cause |-> "overdue"]
    OBVIOUS
  <1>a. x.event = e
    BY <1>1
  <1>2. /\ e \in Queue!Sched!Event
        /\ LineInv /\ HeapInv /\ GoodNow
        /\ queue \subseteq Queue!Sched!Event /\ RetriesApart(queue)
    BY DEF RetryInv, HeapInv
  <1>3. /\ queue' = queue \ {e} /\ lost' = lost \cup {x}
        /\ clock' = clock /\ nextOrder' = nextOrder
    BY <1>1 DEF Queue!Sched!DropOverdue
  <1>4. /\ waiting' = waiting /\ owner' = owner /\ nextArrival' = nextArrival
        /\ failed' = failed /\ payments' = payments /\ entries' = entries
        /\ pendingRetries' = pendingRetries /\ attempts' = attempts
    BY DEF queueVars, retryVars
  <1>5. LineInv' /\ WaitersFrom(0)' = WaitersFrom(0) /\ RaisedPayments' = RaisedPayments
    BY <1>2, <1>4 DEF LineInv, WhoWaits, WaitersFrom, RaisedPayments
  <1>6. x \in [event : Queue!Sched!Event, cause : Queue!Sched!Cause]
    BY <1>1, <1>a, <1>2 DEF Queue!Sched!Cause
  <1>7. CASE ~IsRetry(e)
    <2>1. PairsIn(queue') = PairsIn(queue)
      <3>1. PICK b : b = {e}
        OBVIOUS
      <3>2. (\A f \in b : ~IsRetry(f)) /\ queue' = queue \ b
        BY <1>3, <1>7, <3>1
      <3> QED BY <3>2, OtherEvents
    <2>2. DroppedPayments' = DroppedPayments
      BY <1>a, <1>3, <1>7 DEF DroppedPayments, DroppedIn
    <2>3. \A l : l.event.callback = e.callback /\ IsRetry(l.event) => FALSE
      BY <1>7 DEF IsRetry
    <2>4. HeapInv'
      BY <1>a, <1>2, <1>3, <1>6, <1>7, <2>3 DEF HeapInv, RetriesApart
    <2> QED BY <1>2, <1>3, <1>4, <1>5, <2>1, <2>2, <2>4 DEF RetryInv, GoodNow, StateTyped
  <1>8. CASE IsRetry(e)
    <2>1. PICK R, R2 : R = PairsIn(queue) /\ R2 = PairsIn(queue \ {e})
      OBVIOUS
    <2>2. /\ R2 = R \ {<<p, t>>} /\ <<p, t>> \in R /\ Of(R2) = Of(R) \ {p}
      BY <1>1, <1>2, <1>8, <2>1, RetryLeaves
    <2>3. p \in Of(R)
      <3>1. <<p, t>>[1] = p
        OBVIOUS
      <3> QED BY <2>2, <3>1 DEF Of
    <2>4. p \in DOMAIN payments /\ p \notin DroppedPayments
      BY <1>2, <2>1, <2>3 DEF GoodNow, Good, Placed, Apart
    <2>5. DroppedPayments' = DroppedPayments \cup {p}
      BY <1>1, <1>a, <1>3, <1>8 DEF DroppedPayments, DroppedIn
    <2>6. \A l \in lost : l.event.callback = e.callback => ~IsRetry(l.event)
      BY <1>1, <2>4 DEF DroppedPayments, DroppedIn
    <2>7. \A l, k \in lost' : l.event.callback = k.event.callback /\ IsRetry(l.event) => l = k
      <3>1. \A l, k : l.event.callback = k.event.callback /\ IsRetry(l.event) => IsRetry(k.event)
        BY DEF IsRetry
      <3> QED BY <1>a, <1>2, <1>3, <2>6, <3>1 DEF HeapInv
    <2>8. HeapInv'
      BY <1>2, <1>3, <1>6, <2>7 DEF HeapInv, RetriesApart
    <2>9. Good(payments, entries, pendingRetries, attempts, WaitersFrom(0), R2,
               DroppedPayments \cup {p}, RaisedPayments, clock)
      <3>1. PICK W, D, F : W = WaitersFrom(0) /\ D = DroppedPayments /\ F = RaisedPayments
        OBVIOUS
      <3>2. Good(payments, entries, pendingRetries, attempts, W, R, D, F, clock)
        BY <1>2, <2>1, <3>1 DEF GoodNow
      <3>3. RetryGone(payments, R, R2, p, t)
        BY <2>2, <2>3, <2>4 DEF RetryGone
      <3>4. Good(payments, entries, pendingRetries, attempts, W, R2, D \cup {p}, F, clock)
        BY ONLY <3>2, <3>3, GoodRetryDropped
      <3> QED BY <3>1, <3>4
    <2>10. GoodNow'
      BY <1>3, <1>4, <1>5, <2>1, <2>5, <2>9 DEF GoodNow
    <2> QED BY <1>4, <1>5, <2>8, <2>10 DEF RetryInv, StateTyped
  <1> QED BY <1>7, <1>8

\* The items of a tick.
LEMMA BatchIs ==
  ASSUME LineInv
  PROVE  LET n == IF Capacity <= Len(waiting) THEN Capacity ELSE Len(waiting)
         IN  /\ n \in 0..Len(waiting) /\ Len(Queue!Batch) = n
             /\ DOMAIN Queue!Batch = 1..n /\ DOMAIN BatchPayments = 1..n
             /\ Len(BatchPayments) = n
             /\ \A k \in 1..n : Queue!Batch[k] = waiting[k] /\ BatchPayments[k] = WhoWaits[k]
  <1>1. /\ waiting \in Seq(Queue!QueuedPayment) /\ Len(waiting) \in Nat /\ Capacity \in Nat
        /\ DOMAIN waiting = 1..Len(waiting)
        /\ \A i \in 1..Len(waiting) : waiting[i] \in Queue!QueuedPayment
    BY LenProperties, ElementOfSeq, RetryInputs DEF LineInv
  <1>2. PICK n, l : /\ l = Len(waiting)
                    /\ n = IF Capacity <= Len(waiting) THEN Capacity ELSE Len(waiting)
    OBVIOUS
  <1>a. l \in Nat /\ n = IF Capacity <= l THEN Capacity ELSE l
    BY <1>1, <1>2
  <1>b. n \in Nat /\ n <= l
    BY <1>1, <1>a
  <1>3. n \in Nat /\ n \in 0..Len(waiting)
    BY <1>2, <1>a, <1>b
  <1>4. Queue!Batch = SubSeq(waiting, 1, n)
    <2>1. \A a, b \in Int : Queue!Min({a, b}) = IF a <= b THEN a ELSE b
      <3> SUFFICES ASSUME NEW a \in Int, NEW b \in Int
                   PROVE  Queue!Min({a, b}) = IF a <= b THEN a ELSE b
        OBVIOUS
      <3>1. \E m \in {a, b} : \A y \in {a, b} : m <= y
        OBVIOUS
      <3> QED BY <3>1 DEF Queue!Min
    <2>2. Queue!Min({Capacity, l}) = n
      BY <1>1, <1>a, <2>1
    <2> QED BY <1>2, <2>2 DEF Queue!Batch
  <1>5. /\ Len(Queue!Batch) = n /\ Queue!Batch \in Seq(Queue!QueuedPayment)
        /\ \A k \in 1..n : Queue!Batch[k] = waiting[k]
    <2>1. \A i \in 1..n : waiting[i] \in Queue!QueuedPayment
      BY <1>1, <1>3
    <2>2. /\ SubSeq(waiting, 1, n) \in Seq(Queue!QueuedPayment)
          /\ Len(SubSeq(waiting, 1, n)) = IF 1 <= n THEN n - 1 + 1 ELSE 0
          /\ \A i \in 1..(n - 1 + 1) : SubSeq(waiting, 1, n)[i] = waiting[1 + i - 1]
      BY <1>1, <1>3, <2>1, SubSeqProperties
    <2> QED BY <1>3, <1>4, <2>2
  <1>6. DOMAIN Queue!Batch = 1..n
    BY <1>5, LenProperties
  <1>7. /\ DOMAIN BatchPayments = 1..n
        /\ \A k \in 1..n : BatchPayments[k] = WhoWaits[k]
    <2>1. \A k \in 1..n : k \in DOMAIN waiting
      BY <1>1, <1>3
    <2> QED BY <1>5, <1>6, <2>1 DEF BatchPayments, WhoWaits
  <1>8. Len(BatchPayments) = n
    <2>1. BatchPayments = [i \in 1..n |-> BatchPayments[i]]
      BY <1>6 DEF BatchPayments
    <2>2. BatchPayments \in Seq({BatchPayments[i] : i \in 1..n})
      <3>1. BatchPayments \in [1..n -> {BatchPayments[i] : i \in 1..n}]
        BY <2>1
      <3> QED BY <1>3, <3>1, SeqDef
    <2> QED BY <1>3, <1>7, <2>2, LenProperties
  <1> QED BY <1>2, <1>3, <1>5, <1>6, <1>7, <1>8
-----------------------------------------------------------------------------
(***************************************************************************)
(* The ticks of the processors on their own.                               *)
(***************************************************************************)
\* Every item is a payment's.
NoStrangers == \A i \in DOMAIN owner : owner[i] # 0

LEMMA AllPayments ==
  ASSUME LineInv, NoStrangers, NEW k \in 1..Len(waiting)
  PROVE  WhoWaits[k] \in DOMAIN payments /\ WhoWaits[k] # 0
  <1>1. /\ WhoWaits[k] = owner[waiting[k].arrival_order + 1] /\ k \in DOMAIN waiting
        /\ WhoWaits[k] \in {0} \cup DOMAIN payments /\ waiting[k] \in Queue!QueuedPayment
    BY Waiters, ElementOfSeq DEF LineInv
  <1>2. waiting[k].arrival_order + 1 \in DOMAIN owner
    <2>1. waiting[k].arrival_order \in Nat
      BY <1>1 DEF Queue!QueuedPayment
    <2>2. waiting[k].arrival_order < nextArrival /\ nextArrival \in Nat /\ DOMAIN owner = 1..nextArrival
      BY <1>1, LenProperties DEF LineInv
    <2> QED BY <2>1, <2>2
  <1> QED BY <1>1, <1>2 DEF NoStrangers

LEMMA TickStages ==
  ASSUME RetryInv, NoStrangers, NEW n \in 0..Len(Queue!Batch), NEW raises \in BOOLEAN,
         raises => n # 0 /\ Verdict(payments[WhoWaits[n]]) = "work",
         NEW now \in Nat, clock <= now
  PROVE  Stage(AfterAttempts(n, raises, now), n, raises, now)
  <1>1. LineInv /\ StateTyped
    BY DEF RetryInv
  <1>2. /\ n \in Nat /\ Len(waiting) \in Nat
        /\ \A k \in 1..n : k \in 1..Len(waiting) /\ BatchPayments[k] = WhoWaits[k]
    <2>1. Len(Queue!Batch) \in 0..Len(waiting) /\ Len(waiting) \in Nat
          /\ \A k \in 1..Len(Queue!Batch) : BatchPayments[k] = WhoWaits[k]
      BY <1>1, BatchIs, LenProperties DEF LineInv
    <2> QED BY <2>1
  <1>3. \A k \in 1..n : BatchPayments[k] \in DOMAIN payments
    BY <1>1, <1>2, AllPayments
  <1>4. PICK N : AttemptRun(n, raises, now, N)
    BY <1>1, <1>2, <1>3, SomeAttemptRun
  <1>5. /\ N[0] = Start /\ N[n] = AfterAttempts(n, raises, now)
        /\ \A k \in 1..n : N[k] = Attempted(N[k - 1], BatchPayments[k], raises /\ k = n, now)
    BY <1>4 DEF AttemptRun
  <1> DEFINE Holds(k) == Stage(N[k], k, raises /\ k = n, now)
             Bad == {k \in 0..n : ~Holds(k)}
  <1>6. Holds(0)
    <2>1. Start \in RetryState
      BY <1>1, StartTyped
    <2>2. SameBase(Start, Start)
      BY <2>1, StatesTyped DEF SameBase
    <2>3. Stage(Start, 0, FALSE, now)
      BY <2>2, StageStart
    <2>4. PICK b : b = (raises /\ 0 = n)
      OBVIOUS
    <2>5. b = FALSE
      BY <2>4
    <2>6. Stage(Start, 0, b, now)
      BY <2>3, <2>5
    <2> QED BY <1>5, <2>4, <2>6
  <1>7. ASSUME NEW k \in 1..n, Holds(k - 1)
        PROVE  Holds(k)
    <2>1. PICK b, c : b = (raises /\ k = n) /\ c = (raises /\ k - 1 = n)
      OBVIOUS
    <2>2. c = FALSE /\ b \in BOOLEAN
      <3>1. k - 1 # n
        BY <1>2
      <3> QED BY <2>1, <3>1, Zenon
    <2>3. PICK s, t : s = N[k - 1] /\ t = N[k]
      OBVIOUS
    <2>4. Stage(s, k - 1, FALSE, now) /\ k \in 1..Len(waiting)
      BY <1>2, <1>7, <2>1, <2>2, <2>3
    <2>5. /\ WhoWaits[k] # 0 /\ SameBase(s, s)
          /\ b => Verdict(payments[WhoWaits[k]]) = "work"
      BY <1>1, <1>2, <2>1, <2>4, AllPayments DEF SameBase, Stage
    <2>6. t = Attempted(s, WhoWaits[k], b, now)
      BY <1>2, <1>5, <2>1, <2>3
    <2>7. Stage(t, k, b, now)
      <3>1. RetryInv
        OBVIOUS
      <3> QED BY ONLY <3>1, now \in Nat, <2>2, <2>4, <2>5, <2>6, StageAttempt
    <2> QED BY <2>1, <2>3, <2>7
  <1>8. \A k \in 0..n : Holds(k)
    <2> SUFFICES ASSUME Bad # {} PROVE FALSE
      OBVIOUS
    <2>1. Bad \in SUBSET Nat
      BY <1>2
    <2> HIDE DEF Holds
    <2>2. PICK k \in Bad : \A j \in Bad : k <= j
      <3> HIDE DEF Bad
      <3> QED BY <2>1, LeastNatural
    <2>3. k \in 0..n /\ ~Holds(k)
      OBVIOUS
    <2>4. k \in 1..n /\ k - 1 \in 0..n /\ ~(k <= k - 1)
      BY <1>2, <1>6, <2>3
    <2>5. Holds(k - 1)
      BY <2>2, <2>4
    <2> QED BY <1>7, <2>3, <2>4, <2>5
  <1>9. Holds(n)
    <2> HIDE DEF Holds
    <2> QED BY <1>2, <1>8
  <1>10. PICK b : b = (raises /\ n = n)
    OBVIOUS
  <1>11. b = raises
    BY <1>10
  <1> QED BY <1>5, <1>9, <1>10, <1>11

\* The effect of the queue's tick on the state that RetryInv is about.
LEMMA QueueTick ==
  ASSUME RetryInv, NEW e \in queue, NEW s, PushesApart(s.pushes),
         Queue!RunTick(e, s.pushes), TakesOver(s)
  PROVE  TickTakes(e, s, Len(Queue!Batch), FALSE)
  <1>1. e.time \in Nat
    BY EventKinds DEF RetryInv, HeapInv
  <1>2. PICK all : /\ all = s.pushes \o (IF waiting' # <<>> THEN Queue!NextTick(e) ELSE <<>>)
                   /\ Queue!Sched!RunEvent(e, all, TRUE)
    BY DEF Queue!RunTick
  <1>3. \/ all = s.pushes
        \/ all = Append(s.pushes, [time |-> e.time + 1, callback |-> <<"tick">>])
    <2>1. s.pushes \in Seq(RetryPush)
      BY DEF PushesApart
    <2>2. CASE waiting' = <<>>
      <3>1. s.pushes \o <<>> = s.pushes
        BY <2>1, ConcatEmptySeq
      <3> QED BY <1>2, <2>2, <3>1
    <2>3. CASE waiting' # <<>>
      <3>1. PICK x, E, t : /\ x = [time |-> e.time + 1, callback |-> <<"tick">>]
                           /\ E = RetryPush \cup {x} /\ t = s.pushes
        OBVIOUS
      <3>2. t \in Seq(E) /\ x \in E
        <4>1. t \in [1..Len(t) -> RetryPush] /\ Len(t) \in Nat
          BY <2>1, <3>1, LenProperties
        <4>2. t \in [1..Len(t) -> E]
          BY <3>1, <4>1
        <4> QED BY <3>1, <4>1, <4>2, SeqDef
      <3>3. Append(t, x) = t \o <<x>>
        BY <3>2, AppendOne
      <3> QED BY <1>2, <2>3, <3>1, <3>3 DEF Queue!NextTick
    <2> QED BY <2>2, <2>3
  <1>4. /\ e.callback = <<"tick">> /\ waiting' = SubSeq(waiting, Len(Queue!Batch) + 1, Len(waiting))
        /\ failed' = failed /\ nextArrival' = nextArrival
    BY DEF Queue!RunTick
  <1>5. /\ payments' = s.payments /\ entries' = s.entries
        /\ pendingRetries' = s.pendingRetries /\ attempts' = s.attempts /\ owner' = owner
    BY DEF TakesOver
  <1>6. /\ clock <= e.time /\ clock' = e.time /\ lost' = lost
        /\ queue' = (queue \ {e}) \cup Queue!Sched!Pushed(all)
        /\ nextOrder' = nextOrder + Len(all)
    BY <1>2 DEF Queue!Sched!RunEvent
  <1> QED BY <1>3, <1>4, <1>5, <1>6 DEF TickTakes

LEMMA QueueTickRaises ==
  ASSUME RetryInv, NEW e \in queue, NEW s, NEW k \in DOMAIN Queue!Batch,
         Queue!RunTickRaises(e, k, s.pushes), TakesOver(s)
  PROVE  TickTakes(e, s, k, TRUE)
  <1>1. Queue!Batch[k] = waiting[k]
    BY BatchIs DEF RetryInv
  <1>2. /\ e.callback = <<"tick">> /\ waiting' = SubSeq(waiting, k + 1, Len(waiting))
        /\ failed' = failed \cup {waiting[k].arrival_order} /\ nextArrival' = nextArrival
    BY <1>1 DEF Queue!RunTickRaises
  <1>3. /\ payments' = s.payments /\ entries' = s.entries
        /\ pendingRetries' = s.pendingRetries /\ attempts' = s.attempts /\ owner' = owner
    BY DEF TakesOver
  <1>4. /\ clock <= e.time /\ clock' = e.time
        /\ lost' = lost \cup {[event |-> e, cause |-> "raised"]}
        /\ queue' = (queue \ {e}) \cup Queue!Sched!Pushed(s.pushes)
        /\ nextOrder' = nextOrder + Len(s.pushes)
    BY DEF Queue!RunTickRaises, Queue!Sched!RunEvent
  <1> QED BY <1>2, <1>3, <1>4 DEF TickTakes

LEMMA TickKeeps ==
  ASSUME RetryInv, NoStrangers, NEW e \in queue, RunTick(e)
  PROVE  RetryInv'
  <1>1. PICK s, n : /\ n = Len(Queue!Batch) /\ s = AfterAttempts(Len(BatchPayments), FALSE, e.time)
                    /\ Queue!RunTick(e, s.pushes) /\ TakesOver(s)
    BY DEF RunTick
  <1>2. /\ n \in 0..Len(waiting) /\ Len(BatchPayments) = n /\ n \in 0..Len(Queue!Batch)
        /\ e.time \in Nat /\ clock <= e.time /\ Len(waiting) \in Nat
    <2>1. e.time \in Nat
      BY EventKinds DEF RetryInv, HeapInv
    <2>2. clock <= e.time
      BY <1>1 DEF Queue!RunTick, Queue!Sched!RunEvent
    <2>3. n \in 0..Len(waiting) /\ Len(BatchPayments) = n /\ Len(waiting) \in Nat
      BY <1>1, BatchIs, LenProperties DEF RetryInv, LineInv
    <2> QED BY <1>1, <2>1, <2>2, <2>3
  <1>3. Stage(s, n, FALSE, e.time)
    BY <1>1, <1>2, TickStages
  <1>4. TickTakes(e, s, n, FALSE)
    BY <1>1, <1>3, QueueTick DEF Stage
  <1> QED BY <1>2, <1>3, <1>4, TickEnds

LEMMA RaisingTickKeeps ==
  ASSUME RetryInv, NoStrangers, NEW e \in queue, NEW k \in DOMAIN BatchPayments,
         RunTickRaises(e, k)
  PROVE  RetryInv'
  <1>1. PICK s : /\ s = AfterAttempts(k, TRUE, e.time)
                 /\ Queue!RunTickRaises(e, k, s.pushes) /\ TakesOver(s)
    BY DEF RunTickRaises
  <1>2. /\ k \in DOMAIN Queue!Batch /\ k \in 0..Len(Queue!Batch) /\ k \in 1..Len(waiting)
        /\ BatchPayments[k] = WhoWaits[k] /\ k # 0 /\ k \in 0..Len(waiting)
    <2>1. PICK n : /\ n \in 0..Len(waiting) /\ Len(Queue!Batch) = n /\ DOMAIN Queue!Batch = 1..n
                   /\ k \in 1..n /\ BatchPayments[k] = WhoWaits[k]
      BY BatchIs DEF RetryInv
    <2>2. Len(waiting) \in Nat
      BY LenProperties DEF RetryInv, LineInv
    <2> QED BY <2>1, <2>2
  <1>3. e.time \in Nat /\ clock <= e.time
    <2>1. e.time \in Nat
      BY EventKinds DEF RetryInv, HeapInv
    <2> QED BY <1>1, <2>1 DEF Queue!RunTickRaises, Queue!Sched!RunEvent
  <1>4. Verdict(payments[WhoWaits[k]]) = "work"
    BY <1>2 DEF RunTickRaises
  <1>5. Stage(s, k, TRUE, e.time)
    BY <1>1, <1>2, <1>3, <1>4, TickStages
  <1>6. TickTakes(e, s, k, TRUE)
    BY <1>1, <1>2, QueueTickRaises
  <1> QED BY <1>2, <1>3, <1>5, <1>6, TickEnds
-----------------------------------------------------------------------------
(***************************************************************************)
(* What the places and the records say together.                           *)
(***************************************************************************)
LEMMA PolicyFollows ==
  ASSUME RetryInv
  PROVE  PolicyKept
  <1>1. /\ Placed(payments, entries, WaitersFrom(0), PairsIn(queue), DroppedPayments,
                  RaisedPayments)
        /\ Logged(payments, attempts, WaitersFrom(0), PairsIn(queue), clock)
        /\ payments \in Seq(Payment)
    BY DEF RetryInv, GoodNow, Good, Typed
  <1>2. ASSUME NEW p \in DOMAIN payments, NEW pay, pay = payments[p]
        PROVE  /\ pay.attempts <= MaximumRetries + 1
               /\ pay.worked <= 1
               /\ pay.outcome = "failed" => /\ pay.worked = 0
                                            /\ pay.permanent \/ pay.attempts = MaximumRetries + 1
               /\ pay.outcome = "succeeded" => /\ pay.worked = 1
                                               /\ pay.attempts = pay.failures + 1
    <2>1. Live(pay) \/ Broken(pay) \/ Settled(entries, pay)
      BY <1>1, <1>2 DEF Placed
    <2>2. pay.attempts \in Nat /\ MaximumRetries \in Nat
      <3>1. pay \in Payment
        BY <1>1, <1>2, LenProperties, ElementOfSeq
      <3> QED BY <3>1, RetryInputs DEF Payment
    <2>3. CASE Live(pay)
      BY <2>2, <2>3 DEF Live
    <2>4. CASE Broken(pay)
      BY <2>2, <2>4 DEF Broken
    <2>5. CASE Settled(entries, pay)
      BY <2>2, <2>5 DEF Settled
    <2> QED BY <2>1, <2>3, <2>4, <2>5
  <1> QED BY <1>1, <1>2 DEF PolicyKept, Logged

\* The size of each place of a payment.
LEMMA PlaceSizes ==
  ASSUME RetryInv, NEW p \in DOMAIN payments
  PROVE  /\ Cardinality(Waits(p)) = IF p \in WaitersFrom(0) THEN 1 ELSE 0
         /\ Cardinality(Retries(p)) = IF p \in Of(PairsIn(queue)) THEN 1 ELSE 0
         /\ Cardinality(DroppedRetries(p)) = IF p \in DroppedPayments THEN 1 ELSE 0
         /\ Cardinality(Raised(p)) = IF p \in RaisedPayments THEN 1 ELSE 0
  <1>1. p # 0 /\ LineInv /\ HeapInv
    <2>1. DOMAIN payments = 1..Len(payments)
      BY LenProperties DEF RetryInv, StateTyped, Typed
    <2> QED BY <2>1 DEF RetryInv
  <1>2. Cardinality(Waits(p)) = IF p \in WaitersFrom(0) THEN 1 ELSE 0
    <2>1. Waits(p) = {i \in DOMAIN waiting : WhoWaits[i] = p}
      BY DEF Waits, WhoWaits
    <2>2. \A i, j \in Waits(p) : i = j
      BY <1>1, <2>1 DEF LineInv
    <2>3. DOMAIN waiting = 1..Len(waiting)
      BY <1>1, LenProperties DEF LineInv
    <2> HIDE DEF WhoWaits
    <2>4. p \in WaitersFrom(0) <=> Waits(p) # {}
      BY <1>1, <2>1, <2>3 DEF WaitersFrom
    <2> QED BY <2>2, <2>4, NoneOrOne
  <1>3. \A f \in Queue!Sched!Event :
          f.callback = <<"retry", p>> <=> IsRetry(f) /\ f.callback[2] = p
    <2> SUFFICES ASSUME NEW f \in Queue!Sched!Event
                 PROVE  f.callback = <<"retry", p>> <=> IsRetry(f) /\ f.callback[2] = p
      OBVIOUS
    <2>1. ASSUME f.callback = <<"retry", p>>
          PROVE  IsRetry(f) /\ f.callback[2] = p
      BY <2>1 DEF IsRetry
    <2>2. ASSUME IsRetry(f), f.callback[2] = p
          PROVE  f.callback = <<"retry", p>>
      BY <2>2, EventKinds
    <2> QED BY <2>1, <2>2
  <1>4. Cardinality(Retries(p)) = IF p \in Of(PairsIn(queue)) THEN 1 ELSE 0
    <2>1. queue \subseteq Queue!Sched!Event /\ RetriesApart(queue)
      BY <1>1 DEF HeapInv
    <2>2. Retries(p) = {f \in RetriesIn(queue) : f.callback[2] = p}
      BY <1>3, <2>1 DEF Retries, RetriesIn
    <2>3. \A f, g \in Retries(p) : f = g
      BY <1>3, <2>1 DEF Retries, RetriesApart
    <2>4. p \in Of(PairsIn(queue)) <=> Retries(p) # {}
      BY <2>2, OfPairs
    <2> QED BY <2>3, <2>4, NoneOrOne
  <1>5. Cardinality(DroppedRetries(p)) = IF p \in DroppedPayments THEN 1 ELSE 0
    <2>1. /\ lost \subseteq [event : Queue!Sched!Event, cause : Queue!Sched!Cause]
          /\ \A l, k \in lost : l.event.callback = k.event.callback /\ IsRetry(l.event) => l = k
      BY <1>1 DEF HeapInv
    <2>2. \A l \in lost : l.event \in Queue!Sched!Event
      BY <2>1
    <2>3. DroppedRetries(p) = {l \in lost : IsRetry(l.event) /\ l.event.callback[2] = p}
      BY <1>3, <2>2 DEF DroppedRetries
    <2>4. \A l, k \in DroppedRetries(p) : l = k
      BY <1>3, <2>1, <2>2 DEF DroppedRetries
    <2>5. p \in DroppedPayments <=> DroppedRetries(p) # {}
      BY <2>3 DEF DroppedPayments, DroppedIn
    <2> QED BY <2>4, <2>5, NoneOrOne
  <1>6. Cardinality(Raised(p)) = IF p \in RaisedPayments THEN 1 ELSE 0
    <2>1. \A o, u \in Raised(p) : o = u
      BY <1>1 DEF Raised, LineInv
    <2>2. p \in RaisedPayments <=> Raised(p) # {}
      BY <1>1 DEF Raised, RaisedPayments
    <2> QED BY <2>1, <2>2, NoneOrOne
  <1> QED BY <1>2, <1>4, <1>5, <1>6

LEMMA OneAttemptFollows ==
  ASSUME RetryInv
  PROVE  OneAttemptUnderWay
  <1>1. PICK W, R, D, F : /\ W = WaitersFrom(0) /\ R = Of(PairsIn(queue))
                          /\ D = DroppedPayments /\ F = RaisedPayments
    OBVIOUS
  <1>2. /\ Placed(payments, entries, WaitersFrom(0), PairsIn(queue), DroppedPayments,
                  RaisedPayments)
        /\ Apart(WaitersFrom(0), PairsIn(queue), DroppedPayments, RaisedPayments)
        /\ Counted(payments, pendingRetries, PairsIn(queue), DroppedPayments)
        /\ payments \in Seq(Payment)
    BY DEF RetryInv, GoodNow, Good, Typed
  <1>3. /\ W \cap R = {} /\ W \cap D = {} /\ W \cap F = {}
        /\ R \cap D = {} /\ R \cap F = {} /\ D \cap F = {}
        /\ R \subseteq DOMAIN payments /\ D \subseteq DOMAIN payments
    BY <1>1, <1>2 DEF Apart, Placed
  <1>4. \A p \in DOMAIN payments :
          /\ Cardinality(Waits(p)) = IF p \in W THEN 1 ELSE 0
          /\ Cardinality(Retries(p)) = IF p \in R THEN 1 ELSE 0
          /\ Cardinality(DroppedRetries(p)) = IF p \in D THEN 1 ELSE 0
          /\ Cardinality(Raised(p)) = IF p \in F THEN 1 ELSE 0
    BY <1>1, PlaceSizes
  <1>5. ASSUME NEW p \in DOMAIN payments, NEW places,
               places = Cardinality(Waits(p)) + Cardinality(Retries(p))
                        + Cardinality(DroppedRetries(p)) + Cardinality(Raised(p))
        PROVE  \/ places = IF Decided(p) THEN 0 ELSE 1
               \/ places = 0 /\ Refused(p)
    <2>1. CASE p \in W \cup R \cup D \cup F
      <3>1. ~Decided(p)
        <4>1. Live(payments[p]) \/ Broken(payments[p])
          BY <1>1, <1>2, <2>1 DEF Placed
        <4> QED BY <4>1 DEF Live, Broken, Decided
      <3>2. places = 1
        BY <1>3, <1>4, <1>5, <2>1
      <3> QED BY <3>1, <3>2
    <2>2. CASE p \notin W \cup R \cup D \cup F
      <3>1. places = 0
        BY <1>4, <1>5, <2>2
      <3>2. Settled(entries, payments[p])
        BY <1>1, <1>2, <2>2 DEF Placed
      <3>3. Decided(p) \/ Refused(p)
        BY <3>2 DEF Settled, Decided, Refused
      <3> QED BY <3>1, <3>3
    <2> QED BY <2>1, <2>2
  <1>6. ASSUME NEW r \in Processor, NEW S, S = {q \in DOMAIN payments : payments[q].processor = r}
        PROVE  pendingRetries[r] =
                 SumFunction([p \in S |-> Cardinality(Retries(p)) + Cardinality(DroppedRetries(p))])
    <2> DEFINE f == [p \in S |-> Cardinality(Retries(p)) + Cardinality(DroppedRetries(p))]
    <2>1. \A p \in S : f[p] = IF p \in R \cup D THEN 1 ELSE 0
      BY <1>3, <1>4, <1>6
    <2>2. f \in [S -> {0, 1}]
      BY <2>1
    <2>3. IsFiniteSet(S)
      <3>1. DOMAIN payments = 1..Len(payments) /\ Len(payments) \in Nat
        BY <1>2, LenProperties
      <3>2. IsFiniteSet(1..Len(payments)) /\ S \subseteq 1..Len(payments)
        BY <1>6, <3>1, FS_Interval
      <3> QED BY <3>2, FS_Subset
    <2>4. {x \in S : f[x] = 1} = Under(payments, R \cup D, r)
      BY <1>3, <1>6, <2>1 DEF Under
    <2> HIDE DEF f
    <2>5. SumFunction(f) = Cardinality(Under(payments, R \cup D, r))
      BY <2>2, <2>3, <2>4, SumCounts
    <2>6. pendingRetries[r] = Cardinality(Under(payments, R \cup D, r))
      BY <1>1, <1>2 DEF Counted
    <2> QED BY <2>5, <2>6 DEF f
  <1> QED BY <1>5, <1>6 DEF OneAttemptUnderWay
-----------------------------------------------------------------------------
(***************************************************************************)
(* The theorems about the processors on their own.                         *)
(***************************************************************************)
LEMMA RetryStarts ==
  ASSUME Init
  PROVE  RetryInv /\ NoStrangers
  <1>1. /\ clock = 0 /\ queue = {} /\ nextOrder = 0 /\ lost = {}
        /\ waiting = <<>> /\ nextArrival = 0 /\ failed = {}
        /\ payments = <<>> /\ entries = <<>> /\ attempts = <<>> /\ owner = <<>>
        /\ pendingRetries = [r \in Processor |-> 0]
    BY DEF Init, Queue!Init, Queue!Sched!Init
  <1>2. /\ DOMAIN waiting = {} /\ DOMAIN payments = {} /\ DOMAIN owner = {}
        /\ DOMAIN attempts = {} /\ Len(waiting) = 0 /\ Len(owner) = 0
    BY <1>1
  <1>3. /\ waiting \in Seq(Queue!QueuedPayment) /\ payments \in Seq(Payment)
        /\ owner \in Seq({0} \cup DOMAIN payments) /\ entries \in Seq(Isolation)
        /\ attempts \in Seq(Attempt)
    BY <1>1
  <1>4. /\ WaitersFrom(0) = {} /\ PairsIn(queue) = {} /\ DroppedPayments = {}
        /\ RaisedPayments = {} /\ Of({}) = {}
    BY <1>1, <1>2 DEF WaitersFrom, PairsIn, RetriesIn, DroppedPayments, DroppedIn,
                      RaisedPayments, Of
  <1>5. LineInv
    BY <1>1, <1>2, <1>3 DEF LineInv
  <1>6. HeapInv
    BY <1>1 DEF HeapInv, RetriesApart
  <1>7. StateTyped
    BY <1>1, <1>2, <1>3 DEF StateTyped, Typed
  <1>8. Apart({}, {}, {}, {}) /\ Placed(payments, entries, {}, {}, {}, {})
    BY <1>2, <1>4 DEF Apart, Placed
  <1>9. Logged(payments, attempts, {}, {}, clock)
    BY <1>2 DEF Logged
  <1>10. Counted(payments, pendingRetries, {}, {})
    <2>1. \A r : Under(payments, Of({}) \cup {}, r) = {}
      BY <1>4 DEF Under
    <2>2. Cardinality({}) = 0
      BY FS_EmptySet
    <2> QED BY <1>1, <2>1, <2>2 DEF Counted
  <1>11. GoodNow
    BY <1>4, <1>7, <1>8, <1>9, <1>10 DEF GoodNow, Good, StateTyped
  <1>12. NoStrangers
    BY <1>2 DEF NoStrangers
  <1> QED BY <1>5, <1>6, <1>7, <1>11, <1>12 DEF RetryInv

LEMMA SubmitCases ==
  ASSUME RetryInv, Submit
  PROVE  \E processor \in Processor, id \in PaymentIds, failures \in Nat, permanent \in BOOLEAN :
           submit(processor, id, failures, permanent)
  <1>1. (CHOOSE id \in PaymentIds : TRUE) \in PaymentIds
    BY LaboratoryInputs
  <1>2. {"retries", "dead_letters"} = Processor /\ MaxFailures \in Nat
    BY RetryInputs DEF Processor
  <1>3. \A i \in 0..MaxFailures : i \in Nat
    BY <1>2
  <1>4. 0 \in Nat /\ TRUE \in BOOLEAN /\ FALSE \in BOOLEAN
    OBVIOUS
  <1> QED BY <1>1, <1>2, <1>3, <1>4 DEF Submit

LEMMA NoStrangerJoins ==
  ASSUME LineInv, NoStrangers, NEW p, p # 0, owner' = Append(owner, p)
  PROVE  NoStrangers'
  <1>1. PICK E, n : E = {0, p} \cup DOMAIN payments /\ n = Len(owner)
    OBVIOUS
  <1>2. owner \in Seq(E) /\ p \in E /\ n \in Nat
    <2>1. owner \in [1..n -> {0} \cup DOMAIN payments] /\ n \in Nat
      BY <1>1, LenProperties DEF LineInv
    <2>2. owner \in [1..n -> E]
      BY <1>1, <2>1
    <2> QED BY <1>1, <2>1, <2>2, SeqDef
  <1>3. /\ DOMAIN owner = 1..n /\ DOMAIN owner' = 1..(n + 1) /\ owner'[n + 1] = p
        /\ \A i \in 1..n : owner'[i] = owner[i]
    BY <1>1, <1>2, AppendOne
  <1>4. \A i \in 1..(n + 1) : i \in 1..n \/ i = n + 1
    BY <1>2
  <1> QED BY <1>3, <1>4 DEF NoStrangers

LEMMA SameKeeps ==
  ASSUME RetryInv, UNCHANGED <<queueVars, retryVars>>,
         clock' = clock, queue' = queue, nextOrder' = nextOrder, lost' = lost
  PROVE  RetryInv'
  <1>1. /\ LineInv' /\ WaitersFrom(0)' = WaitersFrom(0) /\ RaisedPayments' = RaisedPayments
        /\ DroppedPayments' = DroppedPayments /\ PairsIn(queue)' = PairsIn(queue)
    BY DEF RetryInv, LineInv, queueVars, retryVars, WhoWaits, WaitersFrom, RaisedPayments,
           DroppedPayments
  <1>2. HeapInv'
    BY DEF RetryInv, HeapInv, RetriesApart
  <1>3. GoodNow' /\ StateTyped'
    BY <1>1 DEF RetryInv, GoodNow, StateTyped, retryVars
  <1> QED BY <1>1, <1>2, <1>3 DEF RetryInv

LEMMA RetryStep ==
  ASSUME RetryInv, NoStrangers, [Next]_vars
  PROVE  RetryInv' /\ NoStrangers'
  <1>1. CASE Submit
    <2>1. PICK processor \in Processor, id \in PaymentIds, failures \in Nat,
               permanent \in BOOLEAN : submit(processor, id, failures, permanent)
      BY <1>1, SubmitCases
    <2>2. RetryInv'
      BY <2>1, SubmitKeeps
    <2>3. Len(payments) + 1 # 0
      <3>1. Len(payments) \in Nat
        BY LenProperties DEF RetryInv, StateTyped, Typed
      <3> QED BY <3>1
    <2>4. NoStrangers'
      BY <2>1, <2>3, NoStrangerJoins DEF submit, RetryInv
    <2> QED BY <2>2, <2>4
  <1>2. CASE Jump
    BY <1>2, JumpKeeps DEF NoStrangers, Jump, retryVars
  <1>3. ASSUME NEW e \in queue, RunRetry(e)
        PROVE  RetryInv' /\ NoStrangers'
    <2>1. RetryInv'
      BY <1>3, RetryRuns
    <2>2. e.callback[2] # 0
      <3>1. e \in Queue!Sched!Event /\ IsRetry(e)
        BY <1>3 DEF RetryInv, HeapInv, RunRetry, IsRetry
      <3> QED BY <3>1, EventKinds DEF Submission
    <2>3. owner' = owner \/ owner' = Append(owner, e.callback[2])
      BY <1>3 DEF RunRetry
    <2>4. NoStrangers'
      <3>1. CASE owner' = owner
        BY <3>1 DEF NoStrangers
      <3>2. CASE owner' = Append(owner, e.callback[2])
        BY <2>2, <3>2, NoStrangerJoins DEF RetryInv
      <3> QED BY <2>3, <3>1, <3>2
    <2> QED BY <2>1, <2>4
  <1>4. ASSUME NEW e \in queue, RunTick(e)
        PROVE  RetryInv' /\ NoStrangers'
    <2>1. owner' = owner
      BY <1>4 DEF RunTick, TakesOver
    <2> QED BY <1>4, <2>1, TickKeeps DEF NoStrangers
  <1>5. ASSUME NEW e \in queue, NEW k \in DOMAIN BatchPayments, RunTickRaises(e, k)
        PROVE  RetryInv' /\ NoStrangers'
    <2>1. owner' = owner
      BY <1>5 DEF RunTickRaises, TakesOver
    <2> QED BY <1>5, <2>1, RaisingTickKeeps DEF NoStrangers
  <1>6. ASSUME NEW e \in queue, Queue!Sched!DropOverdue(e), UNCHANGED <<queueVars, retryVars>>
        PROVE  RetryInv' /\ NoStrangers'
    BY <1>6, DropKeeps DEF NoStrangers, retryVars
  <1>7. CASE UNCHANGED vars
    <2>1. /\ UNCHANGED queueVars /\ UNCHANGED retryVars /\ clock' = clock /\ queue' = queue
          /\ nextOrder' = nextOrder /\ lost' = lost
      BY <1>7 DEF vars, schedVars
    <2> QED BY <2>1, SameKeeps DEF NoStrangers, retryVars
  <1> QED BY <1>1, <1>2, <1>3, <1>4, <1>5, <1>6, <1>7 DEF Next, RunNext

\* Every undecided payment of the retry processors has one attempt under way and a
\* decided one none, unless its isolation was refused, and the counters agree with
\* the heap, for any number of payments, retries and items in a tick.
THEOREM OneAttempt == Spec => []OneAttemptUnderWay
  <1>1. Init => RetryInv /\ NoStrangers
    BY RetryStarts
  <1>2. (RetryInv /\ NoStrangers) /\ [Next]_vars => (RetryInv /\ NoStrangers)'
    BY RetryStep
  <1>3. RetryInv => OneAttemptUnderWay
    BY OneAttemptFollows
  <1> QED BY <1>1, <1>2, <1>3, PTL DEF Spec

\* Both processors keep the retry policy: at most one attempt more than the allowed
\* retries, at least the delay apart, the work called once and never for a payment
\* that is given up.
THEOREM Policy == Spec => []PolicyKept
  <1>1. Init => RetryInv /\ NoStrangers
    BY RetryStarts
  <1>2. (RetryInv /\ NoStrangers) /\ [Next]_vars => (RetryInv /\ NoStrangers)'
    BY RetryStep
  <1>3. RetryInv => PolicyKept
    BY PolicyFollows
  <1> QED BY <1>1, <1>2, <1>3, PTL DEF Spec
-----------------------------------------------------------------------------
(***************************************************************************)
(* The laboratory's ledger.                                                *)
(***************************************************************************)
KindOf(id) == works[id].kind
Suffixed(id) == <<id, IF KindOf(id) = "ordered" THEN "SETTLEMENT" ELSE "DEBIT">>

\* The debit of the works of id is on the ledger led.
HasDebit(led, id) == \E i \in DOMAIN led : led[i].entry_id = Suffixed(id)

\* The entries are the opening one and debits of the works, posted at the time of
\* their work or at a fixed time, each under its own identifier.
Books(led, now) ==
  /\ led \in Seq(L!Entry)
  /\ \A i, j \in DOMAIN led : led[i].entry_id = led[j].entry_id => i = j
  /\ \A i \in DOMAIN led :
       \/ led[i].entry_id = <<DuplicateId, "OPEN">> /\ led[i].posted_at = 0
       \/ \E id \in PaymentIds :
            /\ led[i].entry_id = Suffixed(id)
            /\ IF KindOf(id) = "post" THEN led[i].posted_at <= now
                                      ELSE led[i].posted_at = works[id].at

\* Why the work of id was refused at time at, when the ledger had known entries.
Refusal(led, id, at, known) ==
  \E i \in DOMAIN led :
    /\ i <= known
    /\ IF KindOf(id) = "post"
       THEN \/ led[i].entry_id = Suffixed(id)
            \/ /\ led[i].posted_at > at
               /\ \E x \in PaymentIds : KindOf(x) # "post" /\ led[i].entry_id = Suffixed(x)
       ELSE led[i].posted_at > works[id].at

\* led2 is led, possibly with the debit of id appended.
Extends(led, led2, id) ==
  /\ DOMAIN led \subseteq DOMAIN led2
  /\ \A i \in DOMAIN led : led2[i] = led[i]
  /\ \A i \in PaymentIds : i # id => (HasDebit(led2, i) <=> HasDebit(led, i))

\* The time at which the work of id posts.
PostsAt(id, time, now) ==
  /\ time \in Nat
  /\ IF KindOf(id) = "post" THEN time <= now ELSE time = works[id].at

WorksTyped == works \in [PaymentIds -> LabWork]

LEMMA Kinds ==
  ASSUME WorksTyped, NEW id \in PaymentIds
  PROVE  /\ KindOf(id) \in {"post", "keyed", "ordered"}
         /\ KindOf(id) # "post" => works[id].at \in Nat
  BY DEF WorksTyped, LabWork, KindOf

\* An entry that the ledger takes.
LEMMA DebitPosted ==
  ASSUME WorksTyped, NEW s, NEW id \in PaymentIds, NEW time, NEW now \in Nat,
         PostsAt(id, time, now), Books(s.ledger, now), NEW suffix,
         <<id, suffix>> = Suffixed(id), NEW e, e = Debit(s, id, suffix, time),
         L!Accepts(s.ledger, e), NEW led, led = Append(s.ledger, e)
  PROVE  Books(led, now) /\ HasDebit(led, id) /\ Extends(s.ledger, led, id)
  <1>1. PICK old, n : old = s.ledger /\ n = Len(old)
    OBVIOUS
  <1>2. n \in Nat /\ old \in Seq(L!Entry) /\ DOMAIN old = 1..n
    BY <1>1, LenProperties DEF Books
  <1>3. /\ e.entry_id = Suffixed(id) /\ e.posted_at = time
        /\ e.account_id = "HCCU-DEMO-001" /\ e.amount = 1 /\ e.entry_type = "Debit"
        /\ e.sequence = n + 1
        /\ e = [entry_id |-> e.entry_id, account_id |-> e.account_id, amount |-> e.amount,
                entry_type |-> e.entry_type, sequence |-> e.sequence,
                posted_at |-> e.posted_at]
    BY <1>1 DEF Debit
  <1>4. Suffixed(id) \in PaymentIds \X {"OPEN", "DEBIT", "SETTLEMENT"}
    BY DEF Suffixed
  <1>5. e \in L!Entry
    <2>1. n + 1 \in Nat \ {0} /\ time \in Nat /\ 1 \in Nat \ {0}
      BY <1>2 DEF PostsAt
    <2> QED BY <1>3, <1>4, <2>1 DEF L!Entry, L!DEBIT, L!CREDIT
  <1>6. /\ led \in Seq(L!Entry) /\ DOMAIN led = 1..(n + 1) /\ led[n + 1] = e
        /\ \A i \in 1..n : led[i] = old[i]
    BY <1>1, <1>2, <1>5, AppendOne
  <1>7. DOMAIN led = DOMAIN old \cup {n + 1} /\ n + 1 \notin DOMAIN old
    BY <1>2, <1>6
  <1>8. \A i \in DOMAIN old : old[i].entry_id # e.entry_id
    BY <1>1 DEF L!Accepts, L!Ids
  <1>9. \A i, j \in DOMAIN led : led[i].entry_id = led[j].entry_id => i = j
    <2>1. \A i, j \in DOMAIN old : old[i].entry_id = old[j].entry_id => i = j
      BY <1>1 DEF Books
    <2> QED BY <1>2, <1>6, <1>7, <1>8, <2>1
  <1>10. ASSUME NEW i \in DOMAIN led
         PROVE  \/ led[i].entry_id = <<DuplicateId, "OPEN">> /\ led[i].posted_at = 0
                \/ \E x \in PaymentIds :
                     /\ led[i].entry_id = Suffixed(x)
                     /\ IF KindOf(x) = "post" THEN led[i].posted_at <= now
                                              ELSE led[i].posted_at = works[x].at
    <2>1. CASE i \in DOMAIN old
      BY <1>1, <1>2, <1>6, <2>1 DEF Books
    <2>2. CASE i = n + 1
      BY <1>3, <1>6, <2>2 DEF PostsAt
    <2> QED BY <1>7, <2>1, <2>2
  <1>11. \A i \in PaymentIds : i # id => Suffixed(i) # Suffixed(id)
    BY DEF Suffixed
  <1>12. HasDebit(led, id) /\ Extends(old, led, id)
    BY <1>2, <1>3, <1>6, <1>7, <1>11 DEF HasDebit, Extends
  <1> QED BY <1>1, <1>6, <1>9, <1>10, <1>12 DEF Books

\* An entry that the ledger refuses.
LEMMA DebitRefused ==
  ASSUME WorksTyped, NEW s, NEW id \in PaymentIds, NEW time, NEW now \in Nat,
         PostsAt(id, time, now), Books(s.ledger, now), NEW suffix,
         <<id, suffix>> = Suffixed(id), NEW e, e = Debit(s, id, suffix, time),
         ~L!Accepts(s.ledger, e),
         KindOf(id) = "post" => time = now,
         KindOf(id) # "post" => ~HasDebit(s.ledger, id)
  PROVE  Refusal(s.ledger, id, now, Len(s.ledger))
  <1>1. PICK old, n : old = s.ledger /\ n = Len(old)
    OBVIOUS
  <1>2. n \in Nat /\ old \in Seq(L!Entry) /\ DOMAIN old = 1..n /\ time \in Nat
    BY <1>1, LenProperties DEF Books, PostsAt
  <1>3. e.entry_id = Suffixed(id) /\ e.posted_at = time /\ e.sequence = n + 1
    BY <1>1 DEF Debit
  <1>4. HasDebit(old, id) \/ ~(time >= L!LastPosted(old))
    BY <1>1, <1>3 DEF L!Accepts, L!Ids, HasDebit
  <1>5. CASE HasDebit(old, id)
    <2>1. PICK i \in DOMAIN old : old[i].entry_id = Suffixed(id)
      BY <1>5 DEF HasDebit
    <2>2. i <= n /\ KindOf(id) = "post"
      BY <1>1, <1>2, <1>5
    <2> QED BY <1>1, <2>1, <2>2 DEF Refusal
  <1>6. CASE ~HasDebit(old, id)
    <2>1. n \in DOMAIN old /\ ~(time >= old[n].posted_at)
      <3>1. ~(time >= L!LastPosted(old))
        BY <1>4, <1>6
      <3>2. old # <<>>
        BY <1>2, <3>1 DEF L!LastPosted
      <3>3. n # 0
        BY <1>1, <1>2, <3>2, EmptySeq
      <3> QED BY <1>1, <1>2, <3>1, <3>2, <3>3 DEF L!LastPosted
    <2>2. old[n].posted_at \in Nat
      <3>1. old[n] \in L!Entry
        BY <1>2, <2>1
      <3> QED BY <3>1 DEF L!Entry
    <2>3. old[n].posted_at > time
      BY <1>2, <2>1, <2>2
    <2>4. CASE KindOf(id) # "post"
      <3>1. n <= n
        BY <1>2
      <3> QED BY <1>1, <2>1, <2>3, <2>4, <3>1 DEF PostsAt, Refusal
    <2>5. CASE KindOf(id) = "post"
      <3>1. PICK x \in PaymentIds :
              /\ old[n].entry_id = Suffixed(x)
              /\ IF KindOf(x) = "post" THEN old[n].posted_at <= now
                                       ELSE old[n].posted_at = works[x].at
        <4>1. old[n].posted_at # 0
          BY <1>2, <2>2, <2>3
        <4> QED BY <1>1, <2>1, <4>1 DEF Books
      <3>2. KindOf(x) # "post"
        BY <2>2, <2>3, <2>5, <3>1
      <3>3. n <= n /\ old[n].posted_at > now
        BY <1>2, <2>3, <2>5
      <3> QED BY <1>1, <2>1, <2>5, <3>1, <3>2, <3>3 DEF Refusal
    <2> QED BY <2>4, <2>5
  <1> QED BY <1>5, <1>6

\* One field of a tick's state is set.
LabField(s, t, led, ks, ord, raised, ran) ==
  /\ t \in LabState /\ SameBase(s, t)
  /\ t.ledger = led /\ t.keys = ks /\ t.ordered = ord
  /\ t.raised = raised /\ t.ran = ran

LEMMA FieldSet ==
  ASSUME NEW s \in LabState, NEW led \in Seq(L!Entry), NEW ks \in SUBSET PaymentIds,
         NEW ord \in SUBSET PaymentIds, NEW ran \in Nat, NEW t,
         \/ t = [s EXCEPT !.ledger = led]
         \/ t = [s EXCEPT !.keys = ks]
         \/ t = [s EXCEPT !.ordered = ord]
         \/ t = [s EXCEPT !.raised = TRUE]
         \/ t = [s EXCEPT !.ran = ran]
  PROVE  /\ t = [s EXCEPT !.ledger = led]
              => LabField(s, t, led, s.keys, s.ordered, s.raised, s.ran)
         /\ t = [s EXCEPT !.keys = ks]
              => LabField(s, t, s.ledger, ks, s.ordered, s.raised, s.ran)
         /\ t = [s EXCEPT !.ordered = ord]
              => LabField(s, t, s.ledger, s.keys, ord, s.raised, s.ran)
         /\ t = [s EXCEPT !.raised = TRUE]
              => LabField(s, t, s.ledger, s.keys, s.ordered, TRUE, s.ran)
         /\ t = [s EXCEPT !.ran = ran]
              => LabField(s, t, s.ledger, s.keys, s.ordered, s.raised, ran)
  <1>1. BaseTyped(s)
    BY StatesTyped
  <1>2. ASSUME t = [s EXCEPT !.ledger = led]
        PROVE  LabField(s, t, led, s.keys, s.ordered, s.raised, s.ran)
    <2>1. t \in LabState
      BY <1>2 DEF LabState
    <2>2. SameBase(s, t)
      BY <1>1, <1>2, <2>1, StatesTyped DEF SameBase, BaseTyped, BaseFields
    <2> QED BY <1>2, <2>1, <2>2 DEF LabField, LabState
  <1>3. ASSUME t = [s EXCEPT !.keys = ks]
        PROVE  LabField(s, t, s.ledger, ks, s.ordered, s.raised, s.ran)
    <2>1. t \in LabState
      BY <1>3 DEF LabState
    <2>2. SameBase(s, t)
      BY <1>1, <1>3, <2>1, StatesTyped DEF SameBase, BaseTyped, BaseFields
    <2> QED BY <1>3, <2>1, <2>2 DEF LabField, LabState
  <1>4. ASSUME t = [s EXCEPT !.ordered = ord]
        PROVE  LabField(s, t, s.ledger, s.keys, ord, s.raised, s.ran)
    <2>1. t \in LabState
      BY <1>4 DEF LabState
    <2>2. SameBase(s, t)
      BY <1>1, <1>4, <2>1, StatesTyped DEF SameBase, BaseTyped, BaseFields
    <2> QED BY <1>4, <2>1, <2>2 DEF LabField, LabState
  <1>5. ASSUME t = [s EXCEPT !.raised = TRUE]
        PROVE  LabField(s, t, s.ledger, s.keys, s.ordered, TRUE, s.ran)
    <2>1. t \in LabState
      BY <1>5 DEF LabState
    <2>2. SameBase(s, t)
      BY <1>1, <1>5, <2>1, StatesTyped DEF SameBase, BaseTyped, BaseFields
    <2> QED BY <1>5, <2>1, <2>2 DEF LabField, LabState
  <1>6. ASSUME t = [s EXCEPT !.ran = ran]
        PROVE  LabField(s, t, s.ledger, s.keys, s.ordered, s.raised, ran)
    <2>1. t \in LabState
      BY <1>6 DEF LabState
    <2>2. SameBase(s, t)
      BY <1>1, <1>6, <2>1, StatesTyped DEF SameBase, BaseTyped, BaseFields
    <2> QED BY <1>6, <2>1, <2>2 DEF LabField, LabState
  <1> QED BY <1>2, <1>3, <1>4, <1>5, <1>6

LEMMA SameBaseTrans ==
  ASSUME NEW s, NEW t, NEW u, SameBase(s, t), SameBase(t, u)
  PROVE  SameBase(s, u)
  BY DEF SameBase

\* What the processors remember of the works.
Remembers(led, ks, ord, id) ==
  /\ KindOf(id) = "keyed" => (id \in ks <=> HasDebit(led, id))
  /\ KindOf(id) = "ordered" => (HasDebit(led, id) => id \in ord)

\* A work of id that returns, and one that raises.
Returned(s, u, id, now) ==
  /\ u.raised = FALSE
  /\ Books(u.ledger, now) /\ Extends(s.ledger, u.ledger, id)
  /\ Remembers(u.ledger, u.keys, u.ordered, id)
  /\ s.keys \subseteq u.keys /\ u.keys \subseteq s.keys \cup {id}
  /\ s.ordered \subseteq u.ordered /\ u.ordered \subseteq s.ordered \cup {id}
  /\ HasDebit(u.ledger, id) \/ (KindOf(id) = "ordered" /\ id \in s.ordered /\ u.ledger = s.ledger)

RaisedInstead(s, u, id, now) ==
  /\ u.raised = TRUE
  /\ u.ledger = s.ledger /\ u.keys = s.keys
  /\ u.ordered = s.ordered
       \/ (KindOf(id) = "ordered" /\ u.ordered = s.ordered \cup {id})
  /\ Refusal(s.ledger, id, now, Len(s.ledger))

LEMMA PostedEffect ==
  ASSUME WorksTyped, NEW id \in PaymentIds, NEW s \in LabState, NEW now \in Nat,
         Books(s.ledger, now), NEW time, PostsAt(id, time, now), NEW suffix,
         <<id, suffix>> = Suffixed(id),
         KindOf(id) = "post" => time = now,
         KindOf(id) # "post" => ~HasDebit(s.ledger, id),
         NEW t, t = Posted(s, Debit(s, id, suffix, time))
  PROVE  \/ /\ LabField(s, t, t.ledger, s.keys, s.ordered, s.raised, s.ran)
            /\ Books(t.ledger, now) /\ Extends(s.ledger, t.ledger, id)
            /\ HasDebit(t.ledger, id)
         \/ /\ LabField(s, t, s.ledger, s.keys, s.ordered, TRUE, s.ran)
            /\ Refusal(s.ledger, id, now, Len(s.ledger))
  <1>1. PICK e : e = Debit(s, id, suffix, time)
    OBVIOUS
  <1>2. CASE L!Accepts(s.ledger, e)
    <2>1. PICK led : led = Append(s.ledger, e)
      OBVIOUS
    <2>2. Books(led, now) /\ HasDebit(led, id) /\ Extends(s.ledger, led, id)
      BY <1>1, <1>2, <2>1, DebitPosted
    <2>3. t = [s EXCEPT !.ledger = led] /\ led \in Seq(L!Entry)
      BY <1>1, <1>2, <2>1, <2>2 DEF Posted, Books
    <2>4. LabField(s, t, led, s.keys, s.ordered, s.raised, s.ran)
      BY <2>3, FieldSet DEF LabState
    <2>5. t.ledger = led
      BY <2>4 DEF LabField
    <2> QED BY <2>2, <2>4, <2>5
  <1>3. CASE ~L!Accepts(s.ledger, e)
    <2>1. t = [s EXCEPT !.raised = TRUE]
      BY <1>1, <1>3 DEF Posted
    <2>2. LabField(s, t, s.ledger, s.keys, s.ordered, TRUE, s.ran)
      BY <2>1, FieldSet DEF LabState
    <2>3. Refusal(s.ledger, id, now, Len(s.ledger))
      BY <1>1, <1>3, DebitRefused
    <2> QED BY <2>2, <2>3
  <1> QED BY <1>2, <1>3

\* The work changes nothing.
LEMMA NothingToDo ==
  ASSUME NEW s \in LabState, s.raised = FALSE, NEW id, NEW now, Books(s.ledger, now),
         Remembers(s.ledger, s.keys, s.ordered, id),
         HasDebit(s.ledger, id) \/ (KindOf(id) = "ordered" /\ id \in s.ordered)
  PROVE  SameBase(s, s) /\ Returned(s, s, id, now)
  <1>1. SameBase(s, s)
    BY StatesTyped DEF SameBase
  <1>2. Extends(s.ledger, s.ledger, id)
    BY DEF Extends
  <1> QED BY <1>1, <1>2 DEF Returned

LEMMA WorkedEffect ==
  ASSUME WorksTyped, NEW id \in PaymentIds, NEW s \in LabState, s.raised = FALSE,
         NEW now \in Nat, Books(s.ledger, now),
         Remembers(s.ledger, s.keys, s.ordered, id), NEW u, u = Worked(s, id, now)
  PROVE  /\ u \in LabState /\ SameBase(s, u) /\ u.ran = s.ran
         /\ Returned(s, u, id, now) \/ RaisedInstead(s, u, id, now)
  <1>1. /\ KindOf(id) \in {"post", "keyed", "ordered"}
        /\ KindOf(id) # "post" => works[id].at \in Nat
    BY Kinds
  <1>2. CASE KindOf(id) = "post"
    <2>1. u = Posted(s, Debit(s, id, "DEBIT", now))
      BY <1>2 DEF Worked, Post, KindOf
    <2>2. <<id, "DEBIT">> = Suffixed(id) /\ PostsAt(id, now, now)
      BY <1>2 DEF Suffixed, PostsAt
    <2>3. \/ /\ LabField(s, u, u.ledger, s.keys, s.ordered, s.raised, s.ran)
             /\ Books(u.ledger, now) /\ Extends(s.ledger, u.ledger, id)
             /\ HasDebit(u.ledger, id)
          \/ /\ LabField(s, u, s.ledger, s.keys, s.ordered, TRUE, s.ran)
             /\ Refusal(s.ledger, id, now, Len(s.ledger))
      BY <1>2, <2>1, <2>2, PostedEffect
    <2> QED BY <1>2, <2>3 DEF LabField, Returned, RaisedInstead, Remembers
  <1>3. CASE KindOf(id) = "keyed"
    <2>1. u = Process(s, id, works[id].at)
      BY <1>3 DEF Worked, KindOf
    <2>2. <<id, "DEBIT">> = Suffixed(id) /\ PostsAt(id, works[id].at, now)
      BY <1>1, <1>3 DEF Suffixed, PostsAt
    <2>3. CASE id \in s.keys
      <3>1. u = s
        BY <2>1, <2>3 DEF Process
      <3> QED BY <1>3, <2>3, <3>1, NothingToDo DEF Remembers
    <2>4. CASE id \notin s.keys
      <3>1. PICK after : after = Posted(s, Debit(s, id, "DEBIT", works[id].at))
        OBVIOUS
      <3>2. ~HasDebit(s.ledger, id)
        BY <1>3, <2>4 DEF Remembers
      <3>3. \/ /\ LabField(s, after, after.ledger, s.keys, s.ordered, s.raised, s.ran)
               /\ Books(after.ledger, now) /\ Extends(s.ledger, after.ledger, id)
               /\ HasDebit(after.ledger, id)
            \/ /\ LabField(s, after, s.ledger, s.keys, s.ordered, TRUE, s.ran)
               /\ Refusal(s.ledger, id, now, Len(s.ledger))
        <4>1. PICK time : time = works[id].at
          OBVIOUS
        <4> QED BY <1>3, <2>2, <3>1, <3>2, <4>1, PostedEffect
      <3>4. CASE after.raised
        <4>1. u = after
          BY <2>1, <2>4, <3>1, <3>4 DEF Process
        <4> QED BY <1>3, <3>3, <3>4, <4>1 DEF LabField, RaisedInstead
      <3>5. CASE ~after.raised
        <4>1. /\ LabField(s, after, after.ledger, s.keys, s.ordered, s.raised, s.ran)
              /\ Books(after.ledger, now) /\ Extends(s.ledger, after.ledger, id)
              /\ HasDebit(after.ledger, id)
          BY <3>3, <3>5 DEF LabField
        <4>2. /\ after \in LabState /\ SameBase(s, after) /\ after.keys = s.keys
              /\ after.ordered = s.ordered /\ after.raised = FALSE /\ after.ran = s.ran
          BY <4>1 DEF LabField
        <4>3. PICK ks : ks = after.keys \cup {id}
          OBVIOUS
        <4>4. u = [after EXCEPT !.keys = ks] /\ ks \in SUBSET PaymentIds
          BY <2>1, <2>4, <3>1, <3>5, <4>2, <4>3 DEF Process, LabState
        <4>5. LabField(after, u, after.ledger, ks, after.ordered, after.raised, after.ran)
          BY <4>2, <4>4, FieldSet DEF LabState
        <4>6. /\ u \in LabState /\ SameBase(after, u) /\ u.ledger = after.ledger
              /\ u.keys = s.keys \cup {id} /\ u.ordered = s.ordered
              /\ u.raised = FALSE /\ u.ran = s.ran
          BY <4>2, <4>3, <4>5 DEF LabField
        <4>7. SameBase(s, u)
          BY <4>2, <4>6, SameBaseTrans
        <4>8. Returned(s, u, id, now)
          BY <1>3, <4>1, <4>6 DEF Returned, Remembers
        <4> QED BY <4>6, <4>7, <4>8
      <3> QED BY <3>4, <3>5
    <2> QED BY <2>3, <2>4
  <1>4. CASE KindOf(id) = "ordered"
    <2>1. u = ReceiveAll(s, id, works[id].at)
      BY <1>4 DEF Worked, KindOf
    <2>2. <<id, "SETTLEMENT">> = Suffixed(id) /\ PostsAt(id, works[id].at, now)
      BY <1>1, <1>4 DEF Suffixed, PostsAt
    <2>3. CASE id \in s.ordered
      <3>1. u = s
        BY <2>1, <2>3 DEF ReceiveAll
      <3> QED BY <1>4, <2>3, <3>1, NothingToDo
    <2>4. CASE id \notin s.ordered
      <3>1. PICK ord, r : ord = s.ordered \cup {id} /\ r = [s EXCEPT !.ordered = ord]
        OBVIOUS
      <3>2. ord \in SUBSET PaymentIds
        BY <3>1 DEF LabState
      <3>3. LabField(s, r, s.ledger, s.keys, ord, s.raised, s.ran)
        BY <3>1, <3>2, FieldSet DEF LabState
      <3>4. /\ r \in LabState /\ SameBase(s, r) /\ r.ledger = s.ledger /\ r.keys = s.keys
            /\ r.ordered = ord /\ r.raised = FALSE /\ r.ran = s.ran
        BY <3>3 DEF LabField
      <3>5. u = Posted(r, Debit(r, id, "SETTLEMENT", works[id].at))
        <4>1. u = Posted(r, Debit(s, id, "SETTLEMENT", works[id].at))
          BY <2>1, <2>4, <3>1 DEF ReceiveAll
        <4>2. Debit(s, id, "SETTLEMENT", works[id].at) = Debit(r, id, "SETTLEMENT", works[id].at)
          BY <3>4 DEF Debit
        <4> QED BY <4>1, <4>2
      <3>6. ~HasDebit(r.ledger, id) /\ Books(r.ledger, now)
        BY <1>4, <2>4, <3>4 DEF Remembers
      <3>7. \/ /\ LabField(r, u, u.ledger, r.keys, r.ordered, r.raised, r.ran)
               /\ Books(u.ledger, now) /\ Extends(r.ledger, u.ledger, id)
               /\ HasDebit(u.ledger, id)
            \/ /\ LabField(r, u, r.ledger, r.keys, r.ordered, TRUE, r.ran)
               /\ Refusal(r.ledger, id, now, Len(r.ledger))
        <4>1. PICK time : time = works[id].at
          OBVIOUS
        <4> QED BY <1>4, <2>2, <3>4, <3>5, <3>6, <4>1, PostedEffect
      <3>8. u \in LabState /\ SameBase(s, u) /\ u.ran = s.ran
        BY <3>4, <3>7, SameBaseTrans DEF LabField
      <3>9. Returned(s, u, id, now) \/ RaisedInstead(s, u, id, now)
        BY <1>4, <3>1, <3>4, <3>7 DEF LabField, Returned, RaisedInstead, Remembers
      <3> QED BY <3>8, <3>9
    <2> QED BY <2>3, <2>4
  <1> QED BY <1>1, <1>2, <1>3, <1>4
-----------------------------------------------------------------------------
(***************************************************************************)
(* The items of a tick of the laboratory keep the types of its state.      *)
(***************************************************************************)
LEMMA PostedTyped ==
  ASSUME NEW s \in LabState, NEW id \in PaymentIds, NEW time \in Nat,
         NEW suffix \in {"DEBIT", "SETTLEMENT"}, NEW r \in LabState, r.ledger = s.ledger,
         NEW t, t = Posted(r, Debit(s, id, suffix, time))
  PROVE  t \in LabState
  <1>1. PICK e, old, n : /\ e = Debit(s, id, suffix, time) /\ old = s.ledger
                         /\ n = Len(old)
    OBVIOUS
  <1>2. n \in Nat /\ old \in Seq(L!Entry)
    BY <1>1, LenProperties DEF LabState
  <1>3. e \in L!Entry
    <2>1. n + 1 \in Nat \ {0} /\ 1 \in Nat \ {0}
      BY <1>2
    <2>2. <<id, suffix>> \in PaymentIds \X {"OPEN", "DEBIT", "SETTLEMENT"}
      OBVIOUS
    <2> QED BY <1>1, <2>1, <2>2 DEF Debit, L!Entry, L!DEBIT, L!CREDIT
  <1>4. PICK led : led = Append(old, e)
    OBVIOUS
  <1>5. led \in Seq(L!Entry)
    BY <1>2, <1>3, <1>4, AppendOne
  <1>6. t = [r EXCEPT !.ledger = led] \/ t = [r EXCEPT !.raised = TRUE]
    BY <1>1, <1>4 DEF Posted
  <1>7. [r EXCEPT !.ledger = led] \in LabState
    BY <1>5 DEF LabState
  <1>8. [r EXCEPT !.raised = TRUE] \in LabState
    BY DEF LabState
  <1> QED BY <1>6, <1>7, <1>8

LEMMA WorkedTyped ==
  ASSUME WorksTyped, NEW id \in PaymentIds, NEW s \in LabState, NEW now \in Nat,
         NEW u, u = Worked(s, id, now)
  PROVE  u \in LabState
  <1>1. /\ KindOf(id) \in {"post", "keyed", "ordered"}
        /\ KindOf(id) # "post" => works[id].at \in Nat
    BY Kinds
  <1>2. CASE KindOf(id) = "post"
    <2>1. u = Posted(s, Debit(s, id, "DEBIT", now))
      BY <1>2 DEF Worked, Post, KindOf
    <2> QED BY <2>1, PostedTyped
  <1>3. CASE KindOf(id) = "keyed"
    <2>1. u = Process(s, id, works[id].at)
      BY <1>3 DEF Worked, KindOf
    <2>2. PICK time, after : /\ time = works[id].at
                             /\ after = Posted(s, Debit(s, id, "DEBIT", time))
      OBVIOUS
    <2>3. time \in Nat
      BY <1>1, <1>3, <2>2
    <2>4. after \in LabState
      BY <2>2, <2>3, PostedTyped
    <2>5. [after EXCEPT !.keys = @ \cup {id}] \in LabState
      BY <2>4 DEF LabState
    <2> QED BY <2>1, <2>2, <2>4, <2>5 DEF Process
  <1>4. CASE KindOf(id) = "ordered"
    <2>1. u = ReceiveAll(s, id, works[id].at)
      BY <1>4 DEF Worked, KindOf
    <2>2. PICK time, r : /\ time = works[id].at
                         /\ r = [s EXCEPT !.ordered = @ \cup {id}]
      OBVIOUS
    <2>3. time \in Nat
      BY <1>1, <1>4, <2>2
    <2>4. r \in LabState /\ r.ledger = s.ledger
      BY <2>2 DEF LabState
    <2>5. Posted(r, Debit(s, id, "SETTLEMENT", time)) \in LabState
      BY <2>3, <2>4, PostedTyped
    <2> QED BY <2>1, <2>2, <2>5 DEF ReceiveAll
  <1> QED BY <1>1, <1>2, <1>3, <1>4

\* The work that an item calls: the attempt of p calls none if its script fails.
Calls(s, p) == Verdict(s.payments[p]) = "work" /\ ~Finished(s.payments[p])

LEMMA LabItemTyped ==
  ASSUME WorksTyped, StateTyped, NEW s \in LabState, NEW k \in Nat, NEW now \in Nat,
         BatchPayments[k] \in {0} \cup DOMAIN payments,
         NEW t, t = LabItem(s, k, now)
  PROVE  t \in LabState
  <1>1. PICK p : p = BatchPayments[k]
    OBVIOUS
  <1>2. PICK after : after = IF p = 0 THEN Worked(s, DuplicateId, now)
                                      ELSE LabAttempted(s, p, now)
    OBVIOUS
  <1>3. after \in LabState
    <2>1. CASE p = 0
      BY <1>2, <2>1, WorkedTyped, LaboratoryInputs
    <2>2. CASE p # 0
      <3>1. p \in DOMAIN payments /\ p \in Submission
        BY <1>1, <2>2 DEF StateTyped
      <3>2. payments[p].payment_id \in PaymentIds
        <4>1. payments[p] \in Payment
          BY <3>1, ElementOfSeq DEF StateTyped, Typed
        <4> QED BY <4>1 DEF Payment
      <3>3. PICK u, r : /\ u = (IF Calls(s, p) THEN Worked(s, payments[p].payment_id, now) ELSE s)
                        /\ r = u.raised
        OBVIOUS
      <3>4. u \in LabState
        BY <3>2, <3>3, WorkedTyped
      <3>5. r \in BOOLEAN /\ BaseTyped(u)
        BY <3>3, <3>4, StatesTyped DEF LabState
      <3>6. after = Attempted(u, p, r, now)
        BY <1>2, <2>2, <3>3 DEF LabAttempted, Calls
      <3>7. SameRest(u, after)
        BY <3>1, <3>5, <3>6, AttemptTyped
      <3> QED BY <3>4, <3>7 DEF SameRest
    <2> QED BY <2>1, <2>2
  <1>4. [after EXCEPT !.ran = k] \in LabState
    BY <1>3 DEF LabState
  <1> QED BY <1>1, <1>2, <1>4 DEF LabItem
-----------------------------------------------------------------------------
(***************************************************************************)
(* The effects of the works, item by item.                                 *)
(***************************************************************************)
Succeeded(pays, p) == pays[p].outcome = "succeeded"
IsFor(pays, p, id) == p \in DOMAIN pays /\ pays[p].payment_id = id

\* A work of p, or of the duplicate when p is 0, raises.
RaiseOf(p, led, now) == [owner |-> p, at |-> now, known |-> Len(led)]

\* What the ledger and the processors' memory (ks, ord) owe to the payments
\* (pays), to the works that raised (broke) and to the duplicate, if it was
\* delivered (dup).
Effects(pays, led, ks, ord, broke, dup, now) ==
  /\ Books(led, now)
  /\ 0 \notin DOMAIN pays
  /\ \A id \in PaymentIds :
       /\ Remembers(led, ks, ord, id)
       /\ KindOf(id) = "ordered" /\ id \in ord /\ ~HasDebit(led, id)
            => \E b \in broke : IsFor(pays, b.owner, id)
       /\ HasDebit(led, id)
            => \/ \E p \in DOMAIN pays : IsFor(pays, p, id) /\ Succeeded(pays, p)
               \/ id = DuplicateId /\ dup
  /\ \A p \in DOMAIN pays : Succeeded(pays, p) =>
       \E id \in PaymentIds :
         /\ IsFor(pays, p, id)
         /\ HasDebit(led, id) \/ (KindOf(id) = "ordered" /\ id \in ord)
  /\ \A b \in broke :
       \E id \in PaymentIds :
         /\ IF b.owner = 0 THEN id = DuplicateId ELSE IsFor(pays, b.owner, id)
         /\ Refusal(led, id, b.at, b.known)

\* The payments of pays2 are those of pays, of which at most p has succeeded since.
Later(pays, pays2, p) ==
  /\ DOMAIN pays2 = DOMAIN pays
  /\ \A x \in DOMAIN pays : /\ pays2[x].payment_id = pays[x].payment_id
                            /\ Succeeded(pays, x) => Succeeded(pays2, x)
                            /\ Succeeded(pays2, x) => Succeeded(pays, x) \/ x = p

\* An entry stays, and with it the reasons to refuse another.
LEMMA RefusalStays ==
  ASSUME NEW led, NEW led2, NEW id, Extends(led, led2, id), NEW x, NEW at, NEW known,
         Refusal(led, x, at, known)
  PROVE  Refusal(led2, x, at, known)
  <1>1. \A i \in DOMAIN led : i \in DOMAIN led2 /\ led2[i] = led[i]
    BY DEF Extends
  <1> QED BY <1>1 DEF Refusal

LEMMA DebitsStay ==
  ASSUME NEW led, NEW led2, NEW id, Extends(led, led2, id)
  PROVE  \A x : HasDebit(led, x) => HasDebit(led2, x)
  BY DEF Extends, HasDebit

\* The work of id returns, for p or, when p is 0, for the duplicate.
ReturnsFor(pays, pays2, p, id, dup, dup2) ==
  /\ id \in PaymentIds
  /\ Later(pays, pays2, p)
  /\ dup => dup2
  /\ \/ p = 0 /\ id = DuplicateId /\ dup2 /\ KindOf(id) = "keyed"
     \/ p \in DOMAIN pays /\ IsFor(pays, p, id) /\ Succeeded(pays2, p)

LEMMA EffectsOfReturn ==
  ASSUME NEW pays, NEW pays2, NEW s, NEW u, NEW broke, NEW dup, NEW dup2, NEW now, NEW p,
         NEW id, Effects(pays, s.ledger, s.keys, s.ordered, broke, dup, now),
         Returned(s, u, id, now), ReturnsFor(pays, pays2, p, id, dup, dup2)
  PROVE  Effects(pays2, u.ledger, u.keys, u.ordered, broke, dup2, now)
  <1>1. PICK led, ks, ord, led2, ks2, ord2 :
          /\ led = s.ledger /\ ks = s.keys /\ ord = s.ordered
          /\ led2 = u.ledger /\ ks2 = u.keys /\ ord2 = u.ordered
    OBVIOUS
  <1>2. /\ Books(led2, now) /\ Extends(led, led2, id) /\ Remembers(led2, ks2, ord2, id)
        /\ ks \subseteq ks2 /\ ks2 \subseteq ks \cup {id}
        /\ ord \subseteq ord2 /\ ord2 \subseteq ord \cup {id}
        /\ HasDebit(led2, id) \/ (KindOf(id) = "ordered" /\ id \in ord /\ led2 = led)
    BY <1>1 DEF Returned
  <1>3. /\ \A x : HasDebit(led, x) => HasDebit(led2, x)
        /\ \A x \in PaymentIds : x # id => (HasDebit(led2, x) <=> HasDebit(led, x))
        /\ \A x, at, known : Refusal(led, x, at, known) => Refusal(led2, x, at, known)
    BY <1>2, DebitsStay, RefusalStays DEF Extends
  <1>4. /\ DOMAIN pays2 = DOMAIN pays
        /\ \A x, y : IsFor(pays2, x, y) <=> IsFor(pays, x, y)
        /\ \A x \in DOMAIN pays : Succeeded(pays, x) => Succeeded(pays2, x)
        /\ \A x \in DOMAIN pays : Succeeded(pays2, x) => Succeeded(pays, x) \/ x = p
        /\ id \in PaymentIds /\ (dup => dup2)
    BY DEF ReturnsFor, Later, IsFor
  <1>5. \/ p = 0 /\ id = DuplicateId /\ dup2 /\ KindOf(id) = "keyed"
        \/ p \in DOMAIN pays /\ IsFor(pays, p, id) /\ Succeeded(pays2, p)
    BY DEF ReturnsFor
  <1>6. Effects(pays, led, ks, ord, broke, dup, now)
    BY <1>1
  <1> HIDE DEF HasDebit, Refusal, KindOf, Succeeded, IsFor
  <1>7. 0 \notin DOMAIN pays2
    BY <1>4, <1>6 DEF Effects
  <1>8. ASSUME NEW x \in PaymentIds
        PROVE  Remembers(led2, ks2, ord2, x)
    <2>1. CASE x = id
      BY <1>2, <2>1
    <2>2. CASE x # id
      <3>1. Remembers(led, ks, ord, x)
        BY <1>6 DEF Effects
      <3>2. (x \in ks2 <=> x \in ks) /\ (x \in ord2 <=> x \in ord)
        BY <1>2, <2>2
      <3>3. HasDebit(led2, x) <=> HasDebit(led, x)
        BY <1>3, <2>2
      <3> QED BY <3>1, <3>2, <3>3 DEF Remembers
    <2> QED BY <2>1, <2>2
  <1>9. ASSUME NEW x \in PaymentIds, KindOf(x) = "ordered", x \in ord2, ~HasDebit(led2, x)
        PROVE  \E b \in broke : IsFor(pays2, b.owner, x)
    <2>1. x \in ord /\ ~HasDebit(led, x)
      BY <1>2, <1>3, <1>9
    <2> QED BY <1>4, <1>6, <1>9, <2>1 DEF Effects
  <1>10. ASSUME NEW x \in PaymentIds, HasDebit(led2, x)
         PROVE  \/ \E q \in DOMAIN pays2 : IsFor(pays2, q, x) /\ Succeeded(pays2, q)
                \/ x = DuplicateId /\ dup2
    <2>1. CASE x = id
      BY <1>4, <1>5, <2>1
    <2>2. CASE x # id
      <3>1. HasDebit(led, x)
        BY <1>3, <1>10, <2>2
      <3>2. \/ \E q \in DOMAIN pays : IsFor(pays, q, x) /\ Succeeded(pays, q)
            \/ x = DuplicateId /\ dup
        BY <1>6, <3>1 DEF Effects
      <3> QED BY <1>4, <3>2
    <2> QED BY <2>1, <2>2
  <1>11. ASSUME NEW q \in DOMAIN pays2, Succeeded(pays2, q)
         PROVE  \E x \in PaymentIds :
                  /\ IsFor(pays2, q, x)
                  /\ HasDebit(led2, x) \/ (KindOf(x) = "ordered" /\ x \in ord2)
    <2>1. CASE Succeeded(pays, q)
      <3>1. PICK x \in PaymentIds :
              /\ IsFor(pays, q, x)
              /\ HasDebit(led, x) \/ (KindOf(x) = "ordered" /\ x \in ord)
        BY <1>4, <1>6, <2>1 DEF Effects
      <3> QED BY <1>2, <1>3, <1>4, <3>1
    <2>2. CASE ~Succeeded(pays, q)
      <3>1. q = p /\ q \in DOMAIN pays
        BY <1>4, <1>11, <2>2
      <3>2. IsFor(pays, q, id)
        BY <1>5, <1>6, <3>1 DEF Effects
      <3> QED BY <1>2, <1>4, <3>2
    <2> QED BY <2>1, <2>2
  <1>12. ASSUME NEW b \in broke
         PROVE  \E x \in PaymentIds :
                  /\ IF b.owner = 0 THEN x = DuplicateId ELSE IsFor(pays2, b.owner, x)
                  /\ Refusal(led2, x, b.at, b.known)
    <2>1. PICK x \in PaymentIds :
            /\ IF b.owner = 0 THEN x = DuplicateId ELSE IsFor(pays, b.owner, x)
            /\ Refusal(led, x, b.at, b.known)
      BY <1>6 DEF Effects
    <2> QED BY <1>3, <1>4, <2>1
  <1>13. Effects(pays2, led2, ks2, ord2, broke, dup2, now)
    BY <1>2, <1>7, <1>8, <1>9, <1>10, <1>11, <1>12 DEF Effects
  <1> QED BY <1>1, <1>13

\* The work of id raises, for p or, when p is 0, for the duplicate.
RaisesFor(pays, pays2, p, id) ==
  /\ id \in PaymentIds
  /\ Later(pays, pays2, p) /\ (p \in DOMAIN pays => ~Succeeded(pays2, p))
  /\ \/ p = 0 /\ id = DuplicateId /\ KindOf(id) = "keyed"
     \/ p \in DOMAIN pays /\ IsFor(pays, p, id)

LEMMA EffectsOfRaise ==
  ASSUME NEW pays, NEW pays2, NEW s, NEW u, NEW broke, NEW dup, NEW now, NEW p, NEW id,
         Effects(pays, s.ledger, s.keys, s.ordered, broke, dup, now),
         RaisedInstead(s, u, id, now), RaisesFor(pays, pays2, p, id)
  PROVE  Effects(pays2, u.ledger, u.keys, u.ordered,
                 broke \cup {RaiseOf(p, u.ledger, now)}, dup, now)
  <1>1. PICK led, ks, ord, ord2, b, more :
          /\ led = s.ledger /\ ks = s.keys /\ ord = s.ordered
          /\ led = u.ledger /\ ks = u.keys /\ ord2 = u.ordered
          /\ b = RaiseOf(p, u.ledger, now) /\ more = broke \cup {b}
    BY DEF RaisedInstead
  <1>2. /\ ord2 = ord \/ (KindOf(id) = "ordered" /\ ord2 = ord \cup {id})
        /\ Refusal(led, id, b.at, b.known) /\ b.owner = p
    BY <1>1 DEF RaisedInstead, RaiseOf
  <1>3. /\ DOMAIN pays2 = DOMAIN pays
        /\ \A x, y : IsFor(pays2, x, y) <=> IsFor(pays, x, y)
        /\ \A x \in DOMAIN pays : Succeeded(pays2, x) <=> Succeeded(pays, x)
        /\ id \in PaymentIds
    BY DEF RaisesFor, Later, IsFor
  <1>4. \/ p = 0 /\ id = DuplicateId /\ KindOf(id) = "keyed"
        \/ p \in DOMAIN pays /\ IsFor(pays, p, id)
    BY DEF RaisesFor
  <1>5. Effects(pays, led, ks, ord, broke, dup, now)
    BY <1>1
  <1> HIDE DEF HasDebit, Refusal, KindOf, Succeeded, IsFor
  <1>6. Books(led, now) /\ 0 \notin DOMAIN pays2
    BY <1>3, <1>5 DEF Effects
  <1>7. ASSUME NEW x \in PaymentIds
        PROVE  /\ Remembers(led, ks, ord2, x)
               /\ HasDebit(led, x)
                    => \/ \E q \in DOMAIN pays2 : IsFor(pays2, q, x) /\ Succeeded(pays2, q)
                       \/ x = DuplicateId /\ dup
    <2>1. /\ Remembers(led, ks, ord, x)
          /\ HasDebit(led, x)
               => \/ \E q \in DOMAIN pays : IsFor(pays, q, x) /\ Succeeded(pays, q)
                  \/ x = DuplicateId /\ dup
      BY <1>5 DEF Effects
    <2>2. Remembers(led, ks, ord2, x)
      BY <1>2, <2>1 DEF Remembers
    <2> QED BY <1>3, <2>1, <2>2
  <1>8. ASSUME NEW x \in PaymentIds, KindOf(x) = "ordered", x \in ord2, ~HasDebit(led, x)
        PROVE  \E q \in more : IsFor(pays2, q.owner, x)
    <2>1. CASE x \in ord
      <3>1. PICK q \in broke : IsFor(pays, q.owner, x)
        BY <1>5, <1>8, <2>1 DEF Effects
      <3> QED BY <1>1, <1>3, <3>1
    <2>2. CASE x \notin ord
      <3>1. x = id /\ KindOf(id) = "ordered"
        BY <1>2, <1>8, <2>2
      <3>2. IsFor(pays, p, id)
        BY <1>4, <3>1
      <3> QED BY <1>1, <1>2, <1>3, <3>1, <3>2
    <2> QED BY <2>1, <2>2
  <1>9. ASSUME NEW q \in DOMAIN pays2, Succeeded(pays2, q)
        PROVE  \E x \in PaymentIds :
                 /\ IsFor(pays2, q, x)
                 /\ HasDebit(led, x) \/ (KindOf(x) = "ordered" /\ x \in ord2)
    <2>1. PICK x \in PaymentIds :
            /\ IsFor(pays, q, x)
            /\ HasDebit(led, x) \/ (KindOf(x) = "ordered" /\ x \in ord)
      BY <1>3, <1>5, <1>9 DEF Effects
    <2> QED BY <1>2, <1>3, <2>1
  <1>10. ASSUME NEW q \in more
         PROVE  \E x \in PaymentIds :
                  /\ IF q.owner = 0 THEN x = DuplicateId ELSE IsFor(pays2, q.owner, x)
                  /\ Refusal(led, x, q.at, q.known)
    <2>1. CASE q \in broke
      <3>1. PICK x \in PaymentIds :
              /\ IF q.owner = 0 THEN x = DuplicateId ELSE IsFor(pays, q.owner, x)
              /\ Refusal(led, x, q.at, q.known)
        BY <1>5, <2>1 DEF Effects
      <3> QED BY <1>3, <3>1
    <2>2. CASE q = b
      <3>1. 0 \notin DOMAIN pays
        BY <1>5 DEF Effects
      <3> QED BY <1>2, <1>3, <1>4, <2>2, <3>1
    <2> QED BY <1>1, <1>10, <2>1, <2>2
  <1>11. Effects(pays2, led, ks, ord2, more, dup, now)
    BY <1>6, <1>7, <1>8, <1>9, <1>10 DEF Effects
  <1> QED BY <1>1, <1>11

\* No work is called.
LEMMA EffectsOfNone ==
  ASSUME NEW pays, NEW pays2, NEW led, NEW ks, NEW ord, NEW broke, NEW dup, NEW now, NEW p,
         Effects(pays, led, ks, ord, broke, dup, now), Later(pays, pays2, p),
         p \in DOMAIN pays => ~Succeeded(pays2, p)
  PROVE  Effects(pays2, led, ks, ord, broke, dup, now)
  <1>1. /\ DOMAIN pays2 = DOMAIN pays
        /\ \A x, y : IsFor(pays2, x, y) <=> IsFor(pays, x, y)
        /\ \A x \in DOMAIN pays : Succeeded(pays2, x) <=> Succeeded(pays, x)
    BY DEF Later, IsFor
  <1> HIDE DEF HasDebit, Refusal, KindOf, Succeeded, IsFor, Remembers, Books
  <1> QED BY <1>1 DEF Effects
-----------------------------------------------------------------------------
(***************************************************************************)
(* The laboratory's state after the items of a tick.                       *)
(***************************************************************************)
\* Only payments that may be delivered twice have items that are no payment's.
Strangers == (\E i \in DOMAIN owner : owner[i] = 0) => KindOf(DuplicateId) = "keyed"

\* The works that have raised.
RaisedWorks == {[owner |-> owner[r.arrival_order + 1], at |-> r.at, known |-> r.known] :
                  r \in refusals}

\* The duplicate is delivered by the first m items, or before.
Delivered(m) == DuplicateDelivered \/ \E i \in 1..m : WhoWaits[i] = 0

EffectsIn(s, broke, dup, now) ==
  Effects(s.payments, s.ledger, s.keys, s.ordered, broke, dup, now)

\* The first k items have returned, or one of them has raised.
AllReturned(s, k, now) ==
  /\ s.raised = FALSE /\ s.ran = k
  /\ Stage(s, k, FALSE, now)
  /\ EffectsIn(s, RaisedWorks, Delivered(k), now)

OneRaised(s, k, now) ==
  /\ s.raised = TRUE /\ s.ran \in 1..k
  /\ Stage(s, s.ran, TRUE, now)
  /\ EffectsIn(s, RaisedWorks \cup {RaiseOf(WhoWaits[s.ran], s.ledger, now)},
               Delivered(s.ran - 1), now)

LabStage(s, k, now) == s \in LabState /\ (AllReturned(s, k, now) \/ OneRaised(s, k, now))

\* The same stage and effects, seen after the item has been counted.
LEMMA ItemCounted ==
  ASSUME NEW k \in Nat, k # 0, NEW now, NEW after \in LabState, after.raised \in BOOLEAN,
         Stage(after, k, after.raised, now),
         after.raised = FALSE => EffectsIn(after, RaisedWorks, Delivered(k), now),
         after.raised = TRUE =>
           EffectsIn(after, RaisedWorks \cup {RaiseOf(WhoWaits[k], after.ledger, now)},
                     Delivered(k - 1), now),
         NEW t, t = [after EXCEPT !.ran = k]
  PROVE  LabStage(t, k, now)
  <1>1. LabField(after, t, after.ledger, after.keys, after.ordered, after.raised, k)
    BY FieldSet DEF LabState
  <1>2. /\ t \in LabState /\ SameBase(after, t) /\ t.ledger = after.ledger
        /\ t.keys = after.keys /\ t.ordered = after.ordered /\ t.raised = after.raised
        /\ t.ran = k
    BY <1>1 DEF LabField
  <1>3. Stage(t, k, after.raised, now)
    BY <1>2 DEF Stage, SameBase
  <1>4. CASE after.raised = FALSE
    <2>1. EffectsIn(t, RaisedWorks, Delivered(k), now)
      BY <1>2, <1>4 DEF EffectsIn, SameBase
    <2> QED BY <1>2, <1>3, <1>4, <2>1 DEF LabStage, AllReturned
  <1>5. CASE after.raised = TRUE
    <2>1. EffectsIn(t, RaisedWorks \cup {RaiseOf(WhoWaits[k], t.ledger, now)},
                    Delivered(k - 1), now)
      BY <1>2, <1>5 DEF EffectsIn, SameBase
    <2>2. k \in 1..k
      OBVIOUS
    <2> QED BY <1>2, <1>3, <1>5, <2>1, <2>2 DEF LabStage, OneRaised
  <1> QED BY <1>4, <1>5

\* The item is the duplicate.
LEMMA DuplicateItem ==
  ASSUME RetryInv, WorksTyped, Strangers, NEW k \in 1..Len(waiting), WhoWaits[k] = 0,
         NEW now \in Nat, NEW s \in LabState, AllReturned(s, k - 1, now),
         NEW after, after = Worked(s, DuplicateId, now)
  PROVE  /\ after \in LabState /\ Stage(after, k, after.raised, now)
         /\ after.raised = FALSE => EffectsIn(after, RaisedWorks, Delivered(k), now)
         /\ after.raised = TRUE =>
              EffectsIn(after, RaisedWorks \cup {RaiseOf(WhoWaits[k], after.ledger, now)},
                        Delivered(k - 1), now)
  <1>1. /\ s.raised = FALSE /\ Stage(s, k - 1, FALSE, now)
        /\ Effects(s.payments, s.ledger, s.keys, s.ordered, RaisedWorks, Delivered(k - 1), now)
    BY DEF AllReturned, EffectsIn
  <1>2. DuplicateId \in PaymentIds
    BY LaboratoryInputs
  <1>3. Books(s.ledger, now) /\ Remembers(s.ledger, s.keys, s.ordered, DuplicateId)
    BY <1>1, <1>2 DEF Effects
  <1>4. /\ after \in LabState /\ SameBase(s, after)
        /\ Returned(s, after, DuplicateId, now) \/ RaisedInstead(s, after, DuplicateId, now)
    BY <1>1, <1>2, <1>3, WorkedEffect
  <1>5. Stage(after, k, after.raised, now)
    <2>1. after.raised \in BOOLEAN
      BY <1>4 DEF LabState
    <2> QED BY <1>1, <1>4, <2>1, StageOther
  <1>6. KindOf(DuplicateId) = "keyed"
    <2>1. /\ WhoWaits[k] = owner[waiting[k].arrival_order + 1]
          /\ waiting[k] \in Queue!QueuedPayment /\ k \in DOMAIN waiting
      BY Waiters, ElementOfSeq DEF RetryInv, LineInv
    <2>2. waiting[k].arrival_order \in Nat /\ waiting[k].arrival_order < nextArrival
      BY <2>1 DEF RetryInv, LineInv, Queue!QueuedPayment
    <2>3. waiting[k].arrival_order + 1 \in DOMAIN owner
      <3>1. nextArrival \in Nat /\ DOMAIN owner = 1..nextArrival
        BY LenProperties DEF RetryInv, LineInv
      <3> QED BY <2>2, <3>1
    <2> QED BY <2>1, <2>3 DEF Strangers
  <1>7. after.payments = s.payments
    BY <1>4 DEF SameBase
  <1>8. Later(s.payments, after.payments, 0)
    BY <1>7 DEF Later
  <1>9. CASE Returned(s, after, DuplicateId, now)
    <2>1. Delivered(k)
      BY DEF Delivered
    <2>2. ReturnsFor(s.payments, after.payments, 0, DuplicateId, Delivered(k - 1), Delivered(k))
      BY <1>2, <1>6, <1>8, <2>1 DEF ReturnsFor
    <2>3. Effects(after.payments, after.ledger, after.keys, after.ordered, RaisedWorks,
                  Delivered(k), now)
      <3>1. PICK pays, pays2, broke, dup, dup2 :
              /\ pays = s.payments /\ pays2 = after.payments /\ broke = RaisedWorks
              /\ dup = Delivered(k - 1) /\ dup2 = Delivered(k)
        OBVIOUS
      <3>2. /\ Effects(pays, s.ledger, s.keys, s.ordered, broke, dup, now)
            /\ ReturnsFor(pays, pays2, 0, DuplicateId, dup, dup2)
        BY <1>1, <2>2, <3>1
      <3>3. Effects(pays2, after.ledger, after.keys, after.ordered, broke, dup2, now)
        BY <1>9, <3>2, EffectsOfReturn
      <3> QED BY <3>1, <3>3
    <2> QED BY <1>4, <1>5, <1>9, <2>3 DEF Returned, EffectsIn
  <1>10. CASE RaisedInstead(s, after, DuplicateId, now)
    <2>1. RaisesFor(s.payments, after.payments, 0, DuplicateId)
      <3>1. 0 \notin DOMAIN s.payments
        BY <1>1 DEF Effects
      <3> QED BY <1>2, <1>6, <1>8, <3>1 DEF RaisesFor
    <2>2. Effects(after.payments, after.ledger, after.keys, after.ordered,
                  RaisedWorks \cup {RaiseOf(WhoWaits[k], after.ledger, now)}, Delivered(k - 1), now)
      <3>1. PICK pays, pays2, broke, dup :
              /\ pays = s.payments /\ pays2 = after.payments /\ broke = RaisedWorks
              /\ dup = Delivered(k - 1)
        OBVIOUS
      <3>2. /\ Effects(pays, s.ledger, s.keys, s.ordered, broke, dup, now)
            /\ RaisesFor(pays, pays2, 0, DuplicateId)
        BY <1>1, <2>1, <3>1
      <3>3. Effects(pays2, after.ledger, after.keys, after.ordered,
                    broke \cup {RaiseOf(0, after.ledger, now)}, dup, now)
        BY <1>10, <3>2, EffectsOfRaise
      <3> QED BY <3>1, <3>3
    <2> QED BY <1>4, <1>5, <1>10, <2>2 DEF RaisedInstead, EffectsIn
  <1> QED BY <1>4, <1>9, <1>10

\* The item is the attempt of a payment.
LEMMA AttemptItem ==
  ASSUME RetryInv, WorksTyped, NEW k \in 1..Len(waiting), WhoWaits[k] # 0,
         NEW now \in Nat, NEW s \in LabState, AllReturned(s, k - 1, now),
         NEW after, after = LabAttempted(s, WhoWaits[k], now)
  PROVE  /\ after \in LabState /\ Stage(after, k, after.raised, now)
         /\ after.raised = FALSE => EffectsIn(after, RaisedWorks, Delivered(k), now)
         /\ after.raised = TRUE =>
              EffectsIn(after, RaisedWorks \cup {RaiseOf(WhoWaits[k], after.ledger, now)},
                        Delivered(k - 1), now)
  <1>1. /\ s.raised = FALSE /\ Stage(s, k - 1, FALSE, now)
        /\ Effects(s.payments, s.ledger, s.keys, s.ordered, RaisedWorks, Delivered(k - 1), now)
    BY DEF AllReturned, EffectsIn
  <1>2. PICK p, id : p = WhoWaits[k] /\ id = payments[p].payment_id
    OBVIOUS
  <1>3. p \in DOMAIN payments /\ p \in WaitersFrom(k - 1)
    BY <1>2, Waiters DEF RetryInv
  <1>4. s.payments[p] = payments[p] /\ Live(s.payments[p]) /\ BaseTyped(s)
    BY <1>1, <1>3 DEF Stage, Good, Placed
  <1>5. id \in PaymentIds /\ IsFor(s.payments, p, id)
    <2>1. s.payments[p] \in Payment /\ p \in DOMAIN s.payments
      BY <1>3, <1>4 DEF BaseTyped
    <2> QED BY <1>2, <1>4, <2>1 DEF Payment, IsFor
  <1>6. ~Succeeded(s.payments, p) /\ ~Finished(s.payments[p])
    BY <1>4 DEF Live, Succeeded, Finished
  <1>7. PICK u, r : /\ u = (IF Calls(s, p) THEN Worked(s, id, now) ELSE s)
                    /\ r = u.raised
    OBVIOUS
  <1>8. after = Attempted(u, p, r, now)
    BY <1>2, <1>7 DEF LabAttempted, Calls
  <1>9. Books(s.ledger, now) /\ Remembers(s.ledger, s.keys, s.ordered, id)
    BY <1>1, <1>5 DEF Effects
  <1>10. /\ u \in LabState /\ SameBase(s, u)
         /\ Calls(s, p) => Returned(s, u, id, now) \/ RaisedInstead(s, u, id, now)
         /\ ~Calls(s, p) => u = s
    <2>1. CASE Calls(s, p)
      BY <1>1, <1>5, <1>7, <1>9, <2>1, WorkedEffect
    <2>2. CASE ~Calls(s, p)
      BY <1>4, <1>7, <2>2 DEF SameBase
    <2> QED BY <2>1, <2>2
  <1>11. r \in BOOLEAN /\ (r => Calls(s, p))
    BY <1>1, <1>7, <1>10 DEF LabState
  <1>12. r => Verdict(payments[WhoWaits[k]]) = "work"
    BY <1>2, <1>4, <1>11 DEF Calls
  <1>13. /\ Stage(after, k, r, now) /\ SameRest(u, after)
         /\ \A x \in DOMAIN payments : x # p => after.payments[x] = s.payments[x]
         /\ after.payments[p].payment_id = s.payments[p].payment_id
         /\ after.payments[p].outcome = "succeeded"
              <=> Verdict(s.payments[p]) = "work" /\ ~r
    <2>1. after = Attempted(u, WhoWaits[k], r, now)
      BY <1>2, <1>8
    <2>2. /\ RetryInv /\ k \in 1..Len(waiting) /\ WhoWaits[k] # 0 /\ now \in Nat
          /\ Stage(s, k - 1, FALSE, now) /\ SameBase(s, u) /\ r \in BOOLEAN
          /\ r => Verdict(payments[WhoWaits[k]]) = "work"
      BY <1>1, <1>10, <1>11, <1>12
    <2>3. /\ Stage(after, k, r, now) /\ SameRest(u, after)
          /\ OnlyAttempted(s, after, WhoWaits[k], r)
      BY ONLY <2>1, <2>2, StageAttempt
    <2> QED BY <1>2, <2>3 DEF OnlyAttempted
  <1>14. /\ after \in LabState /\ after.ledger = u.ledger /\ after.keys = u.keys
         /\ after.ordered = u.ordered /\ after.raised = r
    BY <1>7, <1>10, <1>13 DEF SameRest
  <1>15. Later(s.payments, after.payments, p)
    <2>1. DOMAIN s.payments = DOMAIN payments /\ DOMAIN after.payments = DOMAIN payments
      BY <1>4, <1>14 DEF BaseTyped, LabState
    <2> QED BY <1>6, <1>13, <2>1 DEF Later, Succeeded
  <1>16. Succeeded(after.payments, p) <=> Calls(s, p) /\ ~r
    BY <1>6, <1>13 DEF Succeeded, Calls
  <1>17. p \in DOMAIN s.payments /\ p # 0 /\ Delivered(k) = Delivered(k - 1)
    <2>1. 1..k = (1..(k - 1)) \cup {k}
      OBVIOUS
    <2>2. Delivered(k) <=> Delivered(k - 1)
      BY <1>2, <2>1 DEF Delivered
    <2>3. /\ Delivered(k) \in BOOLEAN /\ Delivered(k - 1) \in BOOLEAN
      BY Zenon DEF Delivered
    <2>4. Delivered(k) = Delivered(k - 1)
      <3>1. CASE Delivered(k) = TRUE
        BY ONLY <2>2, <2>3, <3>1
      <3>2. CASE Delivered(k) = FALSE
        BY ONLY <2>2, <2>3, <3>2
      <3> QED BY ONLY <2>3, <3>1, <3>2
    <2> QED BY <1>2, <1>5, <2>4 DEF IsFor
  <1>18. PICK pays, pays2, broke, dup :
           /\ pays = s.payments /\ pays2 = after.payments /\ broke = RaisedWorks
           /\ dup = Delivered(k - 1)
    OBVIOUS
  <1>19. Effects(pays, s.ledger, s.keys, s.ordered, broke, dup, now)
    BY <1>1, <1>18
  <1>20. CASE Calls(s, p) /\ Returned(s, u, id, now)
    <2>1. r = FALSE
      BY <1>7, <1>20 DEF Returned
    <2>2. ReturnsFor(pays, pays2, p, id, dup, dup)
      BY <1>5, <1>15, <1>16, <1>17, <1>18, <1>20, <2>1 DEF ReturnsFor
    <2>3. Effects(pays2, u.ledger, u.keys, u.ordered, broke, dup, now)
      BY <1>19, <1>20, <2>2, EffectsOfReturn
    <2>4. after.raised = FALSE /\ Stage(after, k, after.raised, now)
      BY <1>13, <1>14, <2>1
    <2>5. EffectsIn(after, RaisedWorks, Delivered(k), now)
      BY <1>14, <1>17, <1>18, <2>3 DEF EffectsIn
    <2> QED BY <1>14, <2>4, <2>5
  <1>21. CASE Calls(s, p) /\ RaisedInstead(s, u, id, now)
    <2>1. r = TRUE
      BY <1>7, <1>21 DEF RaisedInstead
    <2>2. RaisesFor(pays, pays2, p, id)
      BY <1>5, <1>15, <1>16, <1>17, <1>18, <2>1 DEF RaisesFor
    <2>3. Effects(pays2, u.ledger, u.keys, u.ordered,
                  broke \cup {RaiseOf(p, u.ledger, now)}, dup, now)
      BY <1>19, <1>21, <2>2, EffectsOfRaise
    <2>4. after.raised = TRUE /\ Stage(after, k, after.raised, now)
      BY <1>13, <1>14, <2>1
    <2>5. EffectsIn(after, RaisedWorks \cup {RaiseOf(WhoWaits[k], after.ledger, now)},
                    Delivered(k - 1), now)
      <3>1. RaiseOf(WhoWaits[k], after.ledger, now) = RaiseOf(p, u.ledger, now)
        BY <1>2, <1>14
      <3> QED BY <1>14, <1>18, <2>3, <3>1 DEF EffectsIn
    <2> QED BY <1>14, <2>4, <2>5
  <1>22. CASE ~Calls(s, p)
    <2>1. u = s /\ r = FALSE /\ Later(pays, pays2, p) /\ ~Succeeded(pays2, p)
      BY <1>10, <1>11, <1>15, <1>16, <1>18, <1>22
    <2>2. Effects(pays2, s.ledger, s.keys, s.ordered, broke, dup, now)
      <3>1. PICK led, ks, ord : led = s.ledger /\ ks = s.keys /\ ord = s.ordered
        OBVIOUS
      <3>2. Effects(pays, led, ks, ord, broke, dup, now)
        BY <1>19, <3>1
      <3>3. Effects(pays2, led, ks, ord, broke, dup, now)
        BY <2>1, <3>2, EffectsOfNone
      <3> QED BY <3>1, <3>3
    <2>3. after.raised = FALSE /\ Stage(after, k, after.raised, now)
      BY <1>13, <1>14, <2>1
    <2>4. EffectsIn(after, RaisedWorks, Delivered(k), now)
      BY <1>14, <1>17, <1>18, <2>1, <2>2 DEF EffectsIn
    <2> QED BY <1>14, <2>3, <2>4
  <1> QED BY <1>10, <1>20, <1>21, <1>22

\* One item of a tick.
LEMMA ItemStep ==
  ASSUME RetryInv, WorksTyped, Strangers, NEW k \in 1..Len(waiting),
         BatchPayments[k] = WhoWaits[k], NEW now \in Nat, NEW s, LabStage(s, k - 1, now),
         NEW t, t = LabItem(s, k, now)
  PROVE  LabStage(t, k, now)
  <1>1. k \in Nat /\ k # 0 /\ Len(waiting) \in Nat
    BY LenProperties DEF RetryInv, LineInv
  <1>2. CASE OneRaised(s, k - 1, now)
    <2>1. t = s
      BY <1>2 DEF LabItem, OneRaised
    <2>2. s.ran \in 1..k
      BY <1>1, <1>2 DEF OneRaised
    <2> QED BY <1>2, <2>1, <2>2 DEF LabStage, OneRaised
  <1>3. CASE AllReturned(s, k - 1, now)
    <2>1. PICK after : after = IF WhoWaits[k] = 0 THEN Worked(s, DuplicateId, now)
                                                  ELSE LabAttempted(s, WhoWaits[k], now)
      OBVIOUS
    <2>2. t = [after EXCEPT !.ran = k]
      BY <1>3, <2>1 DEF LabItem, AllReturned
    <2>3. s \in LabState
      BY DEF LabStage
    <2>4. /\ after \in LabState /\ Stage(after, k, after.raised, now)
          /\ after.raised = FALSE => EffectsIn(after, RaisedWorks, Delivered(k), now)
          /\ after.raised = TRUE =>
               EffectsIn(after, RaisedWorks \cup {RaiseOf(WhoWaits[k], after.ledger, now)},
                         Delivered(k - 1), now)
      <3>1. CASE WhoWaits[k] = 0
        <4>1. after = Worked(s, DuplicateId, now)
          BY <2>1, <3>1
        <4> QED BY <1>3, <2>3, <3>1, <4>1, DuplicateItem
      <3>2. CASE WhoWaits[k] # 0
        <4>1. after = LabAttempted(s, WhoWaits[k], now)
          BY <2>1, <3>2
        <4> QED BY <1>3, <2>3, <3>2, <4>1, AttemptItem
      <3> QED BY <3>1, <3>2
    <2>5. after.raised \in BOOLEAN
      BY <2>4 DEF LabState
    <2> QED BY <1>1, <2>2, <2>4, <2>5, ItemCounted
  <1> QED BY <1>2, <1>3 DEF LabStage
-----------------------------------------------------------------------------
(***************************************************************************)
(* The items of a tick of the laboratory, one after the other.             *)
(***************************************************************************)
LabStart == [payments |-> payments, entries |-> entries,
             pendingRetries |-> pendingRetries, attempts |-> attempts,
             pushes |-> <<>>, ledger |-> ledger, keys |-> keys,
             ordered |-> ordered, raised |-> FALSE, ran |-> 0]

Items == [i \in DOMAIN BatchPayments |-> i]

ItemFolds(now, h) ==
  h = [S \in SUBSET DOMAIN Items |->
         IF S = {} THEN LabStart
         ELSE LabItem(h[S \ {Max(S)}], Items[Max(S)], now)]

LEMMA ItemsAreRecursive ==
  ASSUME NEW now
  PROVE  AfterItems(now) = (CHOOSE h : ItemFolds(now, h))[DOMAIN Items]
  BY DEF AfterItems, FoldLeft, MapThenFoldSet, ItemFolds, LabStart, Items

ItemRun(n, now, N) ==
  /\ N[0] = LabStart /\ N[n] = AfterItems(now)
  /\ \A k \in 1..n : N[k] = LabItem(N[k - 1], k, now)

LEMMA SomeItemRun ==
  ASSUME StateTyped, WorksTyped, LabStart \in LabState, NEW n0 \in Nat, NEW now \in Nat,
         DOMAIN BatchPayments = 1..n0,
         \A k \in 1..n0 : BatchPayments[k] \in {0} \cup DOMAIN payments
  PROVE  \E N : ItemRun(n0, now, N)
  <1>1. PICK n, V, base : n = n0 /\ V = LabState /\ base = LabStart
    OBVIOUS
  <1>2. n \in Nat /\ base \in V /\ DOMAIN Items = 1..n
        /\ \A k \in 1..n : Items[k] = k
    BY <1>1 DEF Items
  <1> DEFINE step == [k \in 1..n |-> [s \in V |-> LabItem(s, k, now)]]
  <1>3. ASSUME NEW k \in 1..n, NEW s \in V
        PROVE  LabItem(s, k, now) \in V
    <2>1. BatchPayments[k] \in {0} \cup DOMAIN payments /\ s \in LabState /\ k \in Nat
      BY <1>1
    <2>2. PICK t : t = LabItem(s, k, now)
      OBVIOUS
    <2>3. t \in LabState
      BY <2>1, <2>2, LabItemTyped
    <2> QED BY <1>1, <2>2, <2>3
  <1>4. /\ step \in [1..n -> [V -> V]]
        /\ \A k \in 1..n, s \in V : step[k][s] = LabItem(s, k, now)
    BY <1>3
  <1> HIDE DEF step
  <1>5. PICK h \in [SUBSET (1..n) -> V] : LeftFold(n, base, step, h)
    BY <1>2, <1>4, SomeLeftFold
  <1>6. ASSUME NEW S \in SUBSET (1..n), S # {} PROVE Max(S) \in S
    <2>1. S \in SUBSET Int /\ n \in Int /\ \A x \in S : x <= n
      BY <1>2
    <2> QED BY <1>6, <2>1, MaxOfBounded
  <1>7. ASSUME NEW S \in SUBSET (1..n), S # {}
        PROVE  step[Max(S)][h[S \ {Max(S)}]]
                 = LabItem(h[S \ {Max(S)}], Items[Max(S)], now)
    <2>1. /\ Max(S) \in 1..n /\ h[S \ {Max(S)}] \in V
          /\ Items[Max(S)] = Max(S)
      BY <1>1, <1>2, <1>5, <1>6, <1>7
    <2> QED BY <1>4, <2>1
  <1>8. ItemFolds(now, h)
    <2>1. [S \in SUBSET (1..n) |-> IF S = {} THEN base ELSE step[Max(S)][h[S \ {Max(S)}]]]
            = [S \in SUBSET (1..n) |->
                 IF S = {} THEN base
                 ELSE LabItem(h[S \ {Max(S)}], Items[Max(S)], now)]
      BY <1>7
    <2> QED BY <1>1, <1>2, <1>5, <2>1 DEF LeftFold, ItemFolds
  <1>9. PICK g : ItemFolds(now, g) /\ g[DOMAIN Items] = AfterItems(now)
    BY <1>8, ItemsAreRecursive
  <1>10. /\ g[{}] = LabStart
         /\ \A S \in SUBSET (1..n) : S # {} =>
              g[S] = LabItem(g[S \ {Max(S)}], Items[Max(S)], now)
    BY <1>2, <1>9 DEF ItemFolds
  <1> DEFINE N == [k \in 0..n |-> g[1..k]]
  <1>11. N[0] = LabStart
    <2>1. 1..0 = {} /\ 0 \in 0..n
      BY <1>2
    <2>2. N[0] = g[1..0]
      BY <2>1
    <2> HIDE DEF N
    <2> QED BY <2>1, <2>2, <1>10
  <1>12. ASSUME NEW k \in 1..n
         PROVE  N[k] = LabItem(N[k - 1], k, now)
    <2>1. /\ 1..k \in SUBSET (1..n) /\ 1..k # {} /\ Max(1..k) = k
          /\ (1..k) \ {k} = 1..(k - 1)
      BY <1>2, PrefixEnd
    <2>2. g[1..k] = LabItem(g[1..(k - 1)], k, now)
      BY <1>2, <1>10, <2>1
    <2>3. N[k] = g[1..k] /\ N[k - 1] = g[1..(k - 1)]
      BY <1>2
    <2> HIDE DEF N
    <2> QED BY <2>2, <2>3
  <1>13. N[n] = AfterItems(now)
    <2>1. N[n] = g[1..n]
      BY <1>2
    <2> HIDE DEF N
    <2> QED BY <1>2, <1>9, <2>1
  <1> HIDE DEF N
  <1> QED BY <1>1, <1>11, <1>12, <1>13 DEF ItemRun

\* The completed items came before the next one.
CompletedInv == /\ completed \in Seq(Queue!CompletedPayment)
                /\ \A i \in DOMAIN completed : completed[i].arrival_order < nextArrival

\* The laboratory's ledger says what its payments' outcomes do.
LabInv ==
  /\ RetryInv /\ WorksTyped /\ Strangers /\ CompletedInv
  /\ keys \subseteq PaymentIds /\ ordered \subseteq PaymentIds
  /\ failed = {r.arrival_order : r \in refusals}
  /\ Effects(payments, ledger, keys, ordered, RaisedWorks, DuplicateDelivered, clock)

\* What the ledger says is so at a later time too.
LEMMA LaterEffects ==
  ASSUME NEW pays, NEW led, NEW ks, NEW ord, NEW broke, NEW dup, NEW now \in Nat,
         NEW later \in Nat, now <= later, Effects(pays, led, ks, ord, broke, dup, now)
  PROVE  Effects(pays, led, ks, ord, broke, dup, later)
  <1>1. Books(led, now)
    BY DEF Effects
  <1>2. \A i \in DOMAIN led : led[i].posted_at \in Nat
    <2>1. \A i \in DOMAIN led : led[i] \in L!Entry
      BY <1>1, ElementOfSeq DEF Books
    <2> QED BY <2>1 DEF L!Entry
  <1>3. \A i \in DOMAIN led : led[i].posted_at <= now => led[i].posted_at <= later
    BY <1>2
  <1>4. Books(led, later)
    BY <1>1, <1>3 DEF Books
  <1> HIDE DEF Books
  <1> QED BY <1>4 DEF Effects

LEMMA LabTickStages ==
  ASSUME LabInv, NEW now \in Nat, clock <= now
  PROVE  LET n == Len(Queue!Batch)
         IN  /\ n \in 0..Len(waiting) /\ n \in Nat
             /\ LabStage(AfterItems(now), n, now)
  <1>1. /\ RetryInv /\ LineInv /\ StateTyped /\ WorksTyped /\ Strangers /\ clock \in Nat
        /\ Effects(payments, ledger, keys, ordered, RaisedWorks, DuplicateDelivered, clock)
    BY DEF LabInv, RetryInv, HeapInv
  <1>2. PICK n \in Nat : /\ n = Len(Queue!Batch) /\ n \in 0..Len(waiting)
                         /\ DOMAIN BatchPayments = 1..n /\ Len(waiting) \in Nat
                         /\ \A k \in 1..n : /\ k \in 1..Len(waiting)
                                            /\ BatchPayments[k] = WhoWaits[k]
    <2>1. PICK n : /\ n \in 0..Len(waiting) /\ Len(Queue!Batch) = n
                   /\ DOMAIN BatchPayments = 1..n
                   /\ \A k \in 1..n : BatchPayments[k] = WhoWaits[k]
      BY <1>1, BatchIs
    <2>2. Len(waiting) \in Nat
      BY <1>1, LenProperties DEF LineInv
    <2>3. n \in Nat /\ \A k \in 1..n : k \in 1..Len(waiting)
      BY <2>1, <2>2
    <2> QED BY <2>1, <2>2, <2>3
  <1>3. \A k \in 1..n : BatchPayments[k] \in {0} \cup DOMAIN payments
    BY <1>1, <1>2, Waiters
  <1>4. LabStart \in LabState
    <2>1. payments \in [DOMAIN payments -> Payment] /\ <<>> \in Seq(RetryPush)
      BY <1>1, LenProperties DEF StateTyped, Typed
    <2>2. ledger \in Seq(L!Entry)
      BY <1>1 DEF Effects, Books
    <2> QED BY <1>1, <2>1, <2>2 DEF LabStart, LabState, LabInv, StateTyped, Typed
  <1>5. PICK N : ItemRun(n, now, N)
    BY <1>1, <1>2, <1>3, <1>4, SomeItemRun
  <1>6. /\ N[0] = LabStart /\ N[n] = AfterItems(now)
        /\ \A k \in 1..n : N[k] = LabItem(N[k - 1], k, now)
    BY <1>5 DEF ItemRun
  <1> DEFINE Holds(k) == LabStage(N[k], k, now)
             Bad == {k \in 0..n : ~Holds(k)}
  <1>7. Holds(0)
    <2>1. SameBase(Start, LabStart)
      BY <1>4, StatesTyped DEF SameBase, Start, LabStart
    <2>2. Stage(LabStart, 0, FALSE, now)
      BY <1>1, <2>1, StageStart
    <2>3. PICK dup : dup = DuplicateDelivered
      OBVIOUS
    <2>4. Effects(payments, ledger, keys, ordered, RaisedWorks, dup, now)
      <3>1. PICK pays, led, ks, ord, broke :
              /\ pays = payments /\ led = ledger /\ ks = keys /\ ord = ordered
              /\ broke = RaisedWorks
        OBVIOUS
      <3>2. Effects(pays, led, ks, ord, broke, dup, clock)
        BY <1>1, <2>3, <3>1
      <3>3. Effects(pays, led, ks, ord, broke, dup, now)
        BY <1>1, <3>2, LaterEffects
      <3> QED BY <3>1, <3>3
    <2>5. Delivered(0) = DuplicateDelivered
      <3>1. 1..0 = {}
        OBVIOUS
      <3>2. Delivered(0) <=> DuplicateDelivered
        BY <3>1 DEF Delivered
      <3>3. Delivered(0) \in BOOLEAN /\ DuplicateDelivered \in BOOLEAN
        BY Zenon DEF Delivered, DuplicateDelivered
      <3>4. CASE Delivered(0) = TRUE
        BY ONLY <3>2, <3>3, <3>4
      <3>5. CASE Delivered(0) = FALSE
        BY ONLY <3>2, <3>3, <3>5
      <3> QED BY ONLY <3>3, <3>4, <3>5
    <2>6. EffectsIn(LabStart, RaisedWorks, Delivered(0), now)
      BY <2>3, <2>4, <2>5 DEF EffectsIn, LabStart
    <2>7. LabStart.raised = FALSE /\ LabStart.ran = 0
      BY DEF LabStart
    <2> QED BY <1>4, <1>6, <2>2, <2>6, <2>7 DEF LabStage, AllReturned
  <1>8. ASSUME NEW k \in 1..n, Holds(k - 1)
        PROVE  Holds(k)
    <2>1. PICK s, t : s = N[k - 1] /\ t = N[k]
      OBVIOUS
    <2>2. /\ k \in 1..Len(waiting) /\ BatchPayments[k] = WhoWaits[k]
          /\ LabStage(s, k - 1, now) /\ t = LabItem(s, k, now)
      BY <1>2, <1>6, <1>8, <2>1
    <2>3. LabStage(t, k, now)
      BY ONLY <1>1, <2>2, now \in Nat, ItemStep
    <2> QED BY <2>1, <2>3
  <1>9. \A k \in 0..n : Holds(k)
    <2> SUFFICES ASSUME Bad # {} PROVE FALSE
      OBVIOUS
    <2>1. Bad \in SUBSET Nat
      BY <1>2
    <2> HIDE DEF Holds
    <2>2. PICK k \in Bad : \A j \in Bad : k <= j
      <3> HIDE DEF Bad
      <3> QED BY <2>1, LeastNatural
    <2>3. k \in 0..n /\ ~Holds(k)
      OBVIOUS
    <2>4. k \in 1..n /\ k - 1 \in 0..n /\ ~(k <= k - 1)
      BY <1>2, <1>7, <2>3
    <2>5. Holds(k - 1)
      BY <2>2, <2>4
    <2> QED BY <1>8, <2>3, <2>4, <2>5
  <1>10. Holds(n)
    <2> HIDE DEF Holds
    <2> QED BY <1>2, <1>9
  <1> QED BY <1>2, <1>6, <1>10
-----------------------------------------------------------------------------
(***************************************************************************)
(* The steps of the laboratory.                                            *)
(***************************************************************************)
\* The works of a run never change.
LEMMA SameWorks ==
  ASSUME works' = works
  PROVE  /\ WorksTyped = WorksTyped'
         /\ \A id : KindOf(id)' = KindOf(id) /\ Suffixed(id)' = Suffixed(id)
         /\ \A led, id : HasDebit(led, id)' <=> HasDebit(led, id)
         /\ \A led, id, at, known :
              Refusal(led, id, at, known)' <=> Refusal(led, id, at, known)
         /\ \A led, now : Books(led, now)' <=> Books(led, now)
         /\ \A led, ks, ord, id : Remembers(led, ks, ord, id)' <=> Remembers(led, ks, ord, id)
  <1>1. WorksTyped = WorksTyped'
    BY DEF WorksTyped
  <1>2. \A id : KindOf(id)' = KindOf(id)
    BY DEF KindOf
  <1>3. \A id : Suffixed(id)' = Suffixed(id)
    BY <1>2 DEF Suffixed
  <1>4. \A led, id : HasDebit(led, id)' <=> HasDebit(led, id)
    BY <1>3 DEF HasDebit
  <1>5. \A led, id, at, known : Refusal(led, id, at, known)' <=> Refusal(led, id, at, known)
    BY <1>2, <1>3 DEF Refusal
  <1>6. \A led, now : Books(led, now)' <=> Books(led, now)
    BY <1>2, <1>3 DEF Books
  <1>7. \A led, ks, ord, id : Remembers(led, ks, ord, id)' <=> Remembers(led, ks, ord, id)
    BY <1>2, <1>4 DEF Remembers
  <1> QED BY <1>1, <1>2, <1>3, <1>4, <1>5, <1>6, <1>7

LEMMA EffectsKept ==
  ASSUME works' = works, NEW pays, NEW led, NEW ks, NEW ord, NEW broke, NEW dup, NEW now,
         Effects(pays, led, ks, ord, broke, dup, now)
  PROVE  Effects(pays, led, ks, ord, broke, dup, now)'
  <1>1. /\ \A id : KindOf(id)' = KindOf(id)
        /\ \A l, id : HasDebit(l, id)' <=> HasDebit(l, id)
        /\ \A l, id, at, known : Refusal(l, id, at, known)' <=> Refusal(l, id, at, known)
        /\ \A l, t : Books(l, t)' <=> Books(l, t)
        /\ \A l, k, o, id : Remembers(l, k, o, id)' <=> Remembers(l, k, o, id)
    BY SameWorks
  <1> QED BY <1>1 DEF Effects

\* What the queue's tick adds to the completed items.
LEMMA CompletedTakes ==
  ASSUME LineInv, CompletedInv, NEW m \in 0..Len(Queue!Batch), NEW now \in Nat,
         completed' = completed \o [i \in 1..m |-> Queue!Started(Queue!Batch[i], now)],
         owner' = owner, nextArrival' = nextArrival
  PROVE  CompletedInv' /\ (DuplicateDelivered' <=> Delivered(m))
  <1>1. /\ m \in Nat
        /\ \A i \in 1..m : /\ Queue!Batch[i] = waiting[i] /\ i \in DOMAIN waiting
                           /\ waiting[i] \in Queue!QueuedPayment
                           /\ waiting[i].arrival_order < nextArrival
                           /\ WhoWaits[i] = owner[waiting[i].arrival_order + 1]
    <2>1. PICK n : /\ n \in 0..Len(waiting) /\ Len(Queue!Batch) = n
                   /\ \A k \in 1..n : Queue!Batch[k] = waiting[k]
      BY BatchIs
    <2>2. Len(waiting) \in Nat
      BY LenProperties DEF LineInv
    <2>3. m \in Nat /\ \A i \in 1..m : i \in 1..n /\ i \in 1..Len(waiting)
      BY <2>1, <2>2
    <2>4. \A i \in 1..m : i \in DOMAIN waiting /\ WhoWaits[i] = owner[waiting[i].arrival_order + 1]
      BY <2>3, Waiters
    <2> QED BY <2>1, <2>3, <2>4, ElementOfSeq DEF LineInv
  <1>2. PICK old, tail, new, E :
          /\ old = completed /\ new = completed' /\ E = Queue!CompletedPayment
          /\ tail = [i \in 1..m |-> Queue!Started(Queue!Batch[i], now)]
    OBVIOUS
  <1>3. \A i \in 1..m : tail[i] \in E /\ tail[i].arrival_order = waiting[i].arrival_order
    BY <1>1, <1>2 DEF Queue!Started, Queue!QueuedPayment, Queue!CompletedPayment
  <1>4. tail \in Seq(E) /\ Len(tail) = m /\ old \in Seq(E) /\ new = old \o tail
    <2>1. tail \in [1..m -> E]
      BY <1>2, <1>3
    <2>2. tail \in Seq(E)
      BY <1>1, <2>1, SeqDef
    <2>3. DOMAIN tail = 1..m
      BY <1>2
    <2> QED BY <1>1, <1>2, <2>2, <2>3, LenProperties DEF CompletedInv
  <1>5. PICK n : n = Len(old)
    OBVIOUS
  <1>6. /\ n \in Nat /\ new \in Seq(E) /\ DOMAIN old = 1..n /\ DOMAIN new = 1..(n + m)
        /\ \A i \in 1..n : new[i] = old[i]
        /\ \A i \in 1..m : new[n + i] = tail[i]
    <2>1. n \in Nat /\ DOMAIN old = 1..n
      BY <1>4, <1>5, LenProperties
    <2>2. /\ new \in Seq(E) /\ Len(new) = n + m
          /\ \A i \in 1..(n + m) : new[i] = IF i <= n THEN old[i] ELSE tail[i - n]
      BY <1>4, <1>5, ConcatProperties
    <2>3. DOMAIN new = 1..(n + m)
      BY <2>2, LenProperties
    <2>4. \A i \in 1..n : i \in 1..(n + m) /\ i <= n
      BY <1>1, <2>1
    <2>5. \A i \in 1..m : n + i \in 1..(n + m) /\ ~(n + i <= n) /\ n + i - n = i
      BY <1>1, <2>1
    <2> QED BY <2>1, <2>2, <2>3, <2>4, <2>5
  <1>7. \A i \in DOMAIN new : i \in 1..n \/ \E j \in 1..m : i = n + j
    <2> TAKE i \in DOMAIN new
    <2>1. i \in 1..n \/ (i - n \in 1..m /\ i = n + (i - n))
      BY <1>1, <1>6
    <2> QED BY <2>1
  <1>8. \A i \in DOMAIN new : new[i].arrival_order < nextArrival
    <2>1. \A i \in 1..n : new[i].arrival_order < nextArrival
      BY <1>2, <1>6 DEF CompletedInv
    <2>2. \A j \in 1..m : new[n + j].arrival_order < nextArrival
      BY <1>1, <1>3, <1>6
    <2> QED BY ONLY <1>7, <2>1, <2>2
  <1>9. CompletedInv'
    BY <1>2, <1>6, <1>8 DEF CompletedInv
  <1>10. (\E i \in DOMAIN new : owner[new[i].arrival_order + 1] = 0)
           <=> \/ \E i \in 1..n : owner[old[i].arrival_order + 1] = 0
               \/ \E i \in 1..m : WhoWaits[i] = 0
    <2>1. \A i \in 1..n : i \in DOMAIN new
      BY <1>1, <1>6
    <2>2. \A i \in 1..m : n + i \in DOMAIN new
      BY <1>1, <1>6
    <2>3. \A i \in 1..m : owner[new[n + i].arrival_order + 1] = WhoWaits[i]
      BY <1>1, <1>3, <1>6
    <2>4. \A i \in 1..n : owner[new[i].arrival_order + 1] = owner[old[i].arrival_order + 1]
      BY <1>6
    <2>5. ASSUME NEW i \in DOMAIN new, owner[new[i].arrival_order + 1] = 0
          PROVE  \/ \E x \in 1..n : owner[old[x].arrival_order + 1] = 0
                 \/ \E x \in 1..m : WhoWaits[x] = 0
      <3>1. CASE i \in 1..n
        BY ONLY <3>1, <2>4, <2>5
      <3>2. ASSUME NEW j \in 1..m, i = n + j
            PROVE  WhoWaits[j] = 0
        BY ONLY <3>2, <2>3, <2>5
      <3> QED BY ONLY <1>7, <2>5, <3>1, <3>2
    <2>6. ASSUME NEW i \in 1..n, owner[old[i].arrival_order + 1] = 0
          PROVE  \E x \in DOMAIN new : owner[new[x].arrival_order + 1] = 0
      BY ONLY <2>1, <2>4, <2>6
    <2>7. ASSUME NEW i \in 1..m, WhoWaits[i] = 0
          PROVE  \E x \in DOMAIN new : owner[new[x].arrival_order + 1] = 0
      BY ONLY <2>2, <2>3, <2>7
    <2> QED BY ONLY <2>5, <2>6, <2>7
  <1> QED BY <1>2, <1>6, <1>9, <1>10 DEF DuplicateDelivered, Delivered
-----------------------------------------------------------------------------
(***************************************************************************)
(* The ticks of the laboratory.                                            *)
(***************************************************************************)
LEMMA StrangersStay ==
  ASSUME works' = works, owner' = owner, Strangers, WorksTyped
  PROVE  Strangers' /\ WorksTyped'
  <1>1. KindOf(DuplicateId)' = KindOf(DuplicateId) /\ WorksTyped'
    BY SameWorks
  <1> QED BY <1>1 DEF Strangers

\* The first d items have completed and s has become the laboratory's state.
LabTakes(e, s, d) ==
  /\ completed' = completed \o [i \in 1..d |-> Queue!Started(Queue!Batch[i], e.time)]
  /\ ledger' = s.ledger /\ keys' = s.keys /\ ordered' = s.ordered /\ works' = works

LEMMA LabTickEnds ==
  ASSUME LabInv, NEW e \in queue, NEW s \in LabState, NEW m \in 0..Len(waiting),
         NEW raises \in BOOLEAN, raises => m \in 1..Len(waiting),
         Stage(s, m, raises, e.time), TickTakes(e, s, m, raises),
         NEW d \in 0..Len(Queue!Batch), LabTakes(e, s, d),
         failed' = {r.arrival_order : r \in refusals'},
         EffectsIn(s, RaisedWorks', Delivered(d), e.time)
  PROVE  LabInv'
  <1>1. RetryInv /\ LineInv /\ CompletedInv /\ Strangers /\ WorksTyped /\ e.time \in Nat
    BY EventKinds DEF LabInv, RetryInv, HeapInv
  <1>2. RetryInv'
    BY <1>1, TickEnds
  <1>3. /\ payments' = s.payments /\ owner' = owner /\ nextArrival' = nextArrival
        /\ clock' = e.time /\ ledger' = s.ledger /\ keys' = s.keys /\ ordered' = s.ordered
        /\ works' = works
        /\ completed' = completed \o [i \in 1..d |-> Queue!Started(Queue!Batch[i], e.time)]
    BY DEF TickTakes, LabTakes
  <1>4. Strangers' /\ WorksTyped'
    BY <1>1, <1>3, StrangersStay
  <1>5. CompletedInv' /\ (DuplicateDelivered' <=> Delivered(d))
    BY <1>1, <1>3, CompletedTakes
  <1>6. keys' \subseteq PaymentIds /\ ordered' \subseteq PaymentIds
    BY <1>3 DEF LabState
  <1>7. PICK pays, led, ks, ord, broke, dup, now :
          /\ pays = payments' /\ led = ledger' /\ ks = keys' /\ ord = ordered'
          /\ broke = RaisedWorks' /\ dup = Delivered(d) /\ now = clock'
    OBVIOUS
  <1>8. dup = DuplicateDelivered'
    <2>1. dup \in BOOLEAN /\ DuplicateDelivered' \in BOOLEAN
      BY <1>7, Zenon DEF Delivered, DuplicateDelivered
    <2>2. CASE Delivered(d) = TRUE
      BY ONLY <1>5, <1>7, <2>1, <2>2
    <2>3. CASE Delivered(d) = FALSE
      BY ONLY <1>5, <1>7, <2>1, <2>3
    <2> QED BY ONLY <1>7, <2>1, <2>2, <2>3
  <1>9. Effects(pays, led, ks, ord, broke, dup, now)
    BY <1>3, <1>7 DEF EffectsIn
  <1>10. Effects(pays, led, ks, ord, broke, dup, now)'
    BY <1>3, <1>9, EffectsKept
  <1>11. Effects(payments, ledger, keys, ordered, RaisedWorks, DuplicateDelivered, clock)'
    BY ONLY <1>7, <1>8, <1>10 DEF Effects
  <1> QED BY <1>2, <1>4, <1>5, <1>6, <1>11 DEF LabInv

LEMMA LabTickKeeps ==
  ASSUME LabInv, NEW e \in queue, RunLabTick(e)
  PROVE  LabInv'
  <1>1. PICK s : /\ s = AfterItems(e.time)
                 /\ IF s.raised THEN Queue!RunTickRaises(e, s.ran, s.pushes)
                                ELSE Queue!RunTick(e, s.pushes)
                 /\ TakesOver(s) /\ ledger' = s.ledger /\ keys' = s.keys
                 /\ ordered' = s.ordered /\ works' = works
                 /\ refusals' = refusals
                      \cup IF s.raised THEN {RaisedAt(s, e.time)} ELSE {}
    BY DEF RunLabTick
  <1>2. PICK n, now : n = Len(Queue!Batch) /\ now = e.time
    OBVIOUS
  <1>3. RetryInv /\ LineInv /\ now \in Nat /\ owner' = owner
    BY <1>1, <1>2, EventKinds DEF LabInv, RetryInv, HeapInv, TakesOver
  <1>4. clock <= now
    BY <1>1, <1>2 DEF Queue!RunTick, Queue!RunTickRaises, Queue!Sched!RunEvent
  <1>5. n \in 0..Len(waiting) /\ n \in Nat /\ LabStage(s, n, now) /\ Len(waiting) \in Nat
    BY <1>1, <1>2, <1>3, <1>4, LabTickStages, LenProperties DEF LineInv
  <1>6. /\ DOMAIN Queue!Batch = 1..n
        /\ \A k \in 1..n : Queue!Batch[k] = waiting[k]
    BY <1>2, <1>3, BatchIs
  <1>7. CASE AllReturned(s, n, now)
    <2>1. /\ s \in LabState /\ s.raised = FALSE /\ Stage(s, n, FALSE, now)
          /\ EffectsIn(s, RaisedWorks, Delivered(n), now)
      BY <1>5, <1>7 DEF LabStage, AllReturned
    <2>2. Queue!RunTick(e, s.pushes)
      BY <1>1, <2>1
    <2>3. TickTakes(e, s, n, FALSE)
      BY <1>1, <1>2, <1>3, <2>1, <2>2, QueueTick DEF Stage
    <2>4. LabTakes(e, s, n) /\ failed' = failed
      BY <1>1, <1>6, <2>2 DEF LabTakes, Queue!RunTick
    <2>5. refusals' = refusals
      BY <1>1, <2>1
    <2>6. RaisedWorks' = RaisedWorks /\ failed' = {r.arrival_order : r \in refusals'}
      BY <1>3, <2>4, <2>5 DEF RaisedWorks, LabInv
    <2>7. n \in 0..Len(Queue!Batch)
      BY <1>2, <1>5
    <2> QED BY <1>2, <1>5, <2>1, <2>3, <2>4, <2>6, <2>7, LabTickEnds
  <1>8. CASE OneRaised(s, n, now)
    <2>1. PICK k, d : k = s.ran /\ d = k - 1
      OBVIOUS
    <2>2. /\ s \in LabState /\ s.raised = TRUE /\ k \in 1..n /\ Stage(s, k, TRUE, now)
          /\ EffectsIn(s, RaisedWorks \cup {RaiseOf(WhoWaits[k], s.ledger, now)}, Delivered(d), now)
      BY <1>5, <1>8, <2>1 DEF LabStage, OneRaised
    <2>3. Queue!RunTickRaises(e, k, s.pushes)
      BY <1>1, <2>1, <2>2
    <2>4. TickTakes(e, s, k, TRUE)
      BY <1>1, <1>3, <1>6, <2>2, <2>3, QueueTickRaises
    <2>5. LabTakes(e, s, d) /\ failed' = failed \cup {waiting[k].arrival_order}
      BY <1>1, <1>6, <2>1, <2>2, <2>3 DEF LabTakes, Queue!RunTickRaises
    <2>6. k \in 1..Len(waiting) /\ k \in 0..Len(waiting) /\ d \in 0..Len(Queue!Batch)
      BY <1>2, <1>5, <2>1, <2>2
    <2>7. PICK r : /\ r = RaisedAt(s, now) /\ refusals' = refusals \cup {r}
                   /\ r.arrival_order = waiting[k].arrival_order
                   /\ r.at = now /\ r.known = Len(s.ledger)
      <3>1. Queue!Batch[k] = waiting[k]
        BY <1>6, <2>2
      <3>2. /\ RaisedAt(s, now).arrival_order = waiting[k].arrival_order
            /\ RaisedAt(s, now).at = now /\ RaisedAt(s, now).known = Len(s.ledger)
        BY <2>1, <3>1 DEF RaisedAt
      <3>3. refusals' = refusals \cup {RaisedAt(s, now)}
        BY <1>1, <1>2, <2>2
      <3> QED BY <3>2, <3>3
    <2>8. RaisedWorks' = RaisedWorks \cup {RaiseOf(WhoWaits[k], s.ledger, now)}
      <3>1. WhoWaits[k] = owner[waiting[k].arrival_order + 1]
        BY <1>3, <2>6, Waiters
      <3> QED BY <1>3, <2>7, <3>1 DEF RaisedWorks, RaiseOf
    <2>9. failed' = {x.arrival_order : x \in refusals'}
      BY <2>5, <2>7 DEF LabInv
    <2> QED BY <1>2, <2>2, <2>4, <2>5, <2>6, <2>8, <2>9, LabTickEnds
  <1> QED BY <1>5, <1>7, <1>8 DEF LabStage
-----------------------------------------------------------------------------
(***************************************************************************)
(* The steps that call no work.                                            *)
(***************************************************************************)
\* A payment that has just been submitted owes nothing.
LEMMA EffectsOfSubmit ==
  ASSUME NEW pays \in Seq(Payment), NEW q \in Payment, q.outcome = "none",
         NEW led, NEW ks, NEW ord, NEW broke, NEW dup, NEW now,
         Effects(pays, led, ks, ord, broke, dup, now),
         NEW pays2, pays2 = Append(pays, q)
  PROVE  Effects(pays2, led, ks, ord, broke, dup, now)
  <1>1. PICK n : n = Len(pays)
    OBVIOUS
  <1>2. /\ n \in Nat /\ DOMAIN pays = 1..n /\ DOMAIN pays2 = 1..(n + 1)
        /\ pays2[n + 1] = q /\ \A i \in 1..n : pays2[i] = pays[i]
    BY <1>1, AppendOne
  <1>3. /\ \A x \in DOMAIN pays : x \in DOMAIN pays2
        /\ \A x \in DOMAIN pays2 : x \in DOMAIN pays \/ x = n + 1
        /\ 0 \notin DOMAIN pays2
    BY <1>2
  <1>4. ~Succeeded(pays2, n + 1)
    BY <1>2 DEF Succeeded
  <1>5. \A x \in DOMAIN pays : Succeeded(pays2, x) <=> Succeeded(pays, x)
    BY <1>2 DEF Succeeded
  <1>6. \A x \in DOMAIN pays : \A id : IsFor(pays2, x, id) <=> IsFor(pays, x, id)
    BY <1>2, <1>3 DEF IsFor
  <1>7. \A x, id : IsFor(pays, x, id) => x \in DOMAIN pays
    BY DEF IsFor
  <1> HIDE DEF HasDebit, Refusal, KindOf, Succeeded, IsFor
  <1>8. ASSUME NEW id \in PaymentIds
         PROVE  /\ Remembers(led, ks, ord, id)
                /\ KindOf(id) = "ordered" /\ id \in ord /\ ~HasDebit(led, id)
                     => \E b \in broke : IsFor(pays2, b.owner, id)
                /\ HasDebit(led, id)
                     => \/ \E p \in DOMAIN pays2 : IsFor(pays2, p, id) /\ Succeeded(pays2, p)
                        \/ id = DuplicateId /\ dup
    <2>1. /\ Remembers(led, ks, ord, id)
          /\ KindOf(id) = "ordered" /\ id \in ord /\ ~HasDebit(led, id)
               => \E b \in broke : IsFor(pays, b.owner, id)
          /\ HasDebit(led, id)
               => \/ \E p \in DOMAIN pays : IsFor(pays, p, id) /\ Succeeded(pays, p)
                  \/ id = DuplicateId /\ dup
      BY DEF Effects
    <2>2. (\E b \in broke : IsFor(pays, b.owner, id)) => \E b \in broke : IsFor(pays2, b.owner, id)
      BY <1>6, <1>7
    <2>3. (\E p \in DOMAIN pays : IsFor(pays, p, id) /\ Succeeded(pays, p))
            => \E p \in DOMAIN pays2 : IsFor(pays2, p, id) /\ Succeeded(pays2, p)
      BY <1>3, <1>5, <1>6
    <2> QED BY <2>1, <2>2, <2>3
  <1>9. ASSUME NEW p \in DOMAIN pays2, Succeeded(pays2, p)
         PROVE  \E id \in PaymentIds :
                  /\ IsFor(pays2, p, id)
                  /\ HasDebit(led, id) \/ (KindOf(id) = "ordered" /\ id \in ord)
    <2>1. p \in DOMAIN pays /\ Succeeded(pays, p)
      BY <1>3, <1>4, <1>5, <1>9
    <2> QED BY <1>6, <2>1 DEF Effects
  <1>10. ASSUME NEW b \in broke
         PROVE  \E id \in PaymentIds :
                  /\ IF b.owner = 0 THEN id = DuplicateId ELSE IsFor(pays2, b.owner, id)
                  /\ Refusal(led, id, b.at, b.known)
    <2>1. PICK id \in PaymentIds :
            /\ IF b.owner = 0 THEN id = DuplicateId ELSE IsFor(pays, b.owner, id)
            /\ Refusal(led, id, b.at, b.known)
      BY DEF Effects
    <2> QED BY <1>6, <1>7, <2>1
  <1> QED BY <1>3, <1>8, <1>9, <1>10 DEF Effects

\* A step that calls no work: at most a payment is submitted, and an item of a
\* payment, or of a payment that may be delivered twice, joins the line.
CallsNoWork ==
  /\ UNCHANGED labVars /\ completed' = completed /\ failed' = failed
  /\ clock <= clock' /\ nextArrival <= nextArrival'
  /\ \/ owner' = owner
     \/ \E x :
          owner' = Append(owner, x) /\ (x = 0 => KindOf(DuplicateId) = "keyed")
  /\ \/ payments' = payments
     \/ \E q \in Payment : q.outcome = "none" /\ payments' = Append(payments, q)

LEMMA OwnersStay ==
  ASSUME LabInv, CallsNoWork, RetryInv'
  PROVE  /\ RaisedWorks' = RaisedWorks
         /\ DuplicateDelivered' <=> DuplicateDelivered
         /\ Strangers' /\ CompletedInv'
  <1>1. LineInv /\ LineInv' /\ CompletedInv /\ Strangers /\ works' = works
        /\ completed' = completed /\ failed' = failed /\ refusals' = refusals
    BY DEF LabInv, RetryInv, CallsNoWork, labVars
  <1>2. PICK n, own, own2 : n = nextArrival /\ own = owner /\ own2 = owner'
    OBVIOUS
  <1>3. /\ n \in Nat /\ DOMAIN own = 1..n /\ nextArrival' \in Nat /\ n <= nextArrival'
    BY <1>1, <1>2, LenProperties DEF LineInv, CallsNoWork
  <1>4. /\ \A i \in 1..n : i \in DOMAIN own2 /\ own2[i] = own[i]
        /\ \A i \in DOMAIN own2 :
             own2[i] = 0 => i \in 1..n \/ KindOf(DuplicateId) = "keyed"
    <2>1. CASE own2 = own
      BY <1>3, <2>1
    <2>2. ASSUME NEW x, own2 = Append(own, x),
                 x = 0 => KindOf(DuplicateId) = "keyed"
          PROVE  <1>4
      <3>1. PICK E : E = {x} \cup {0} \cup DOMAIN payments
        OBVIOUS
      <3>2. own \in Seq(E) /\ x \in E /\ Len(own) = n
        <4>1. own \in [1..n -> {0} \cup DOMAIN payments] /\ Len(own) = n
          BY <1>1, <1>2, LenProperties DEF LineInv
        <4>2. own \in [1..n -> E]
          BY <3>1, <4>1
        <4> QED BY <1>3, <3>1, <4>1, <4>2, SeqDef
      <3>3. /\ DOMAIN own2 = 1..(n + 1) /\ own2[n + 1] = x
            /\ \A i \in 1..n : own2[i] = own[i]
        BY <2>2, <3>2, AppendOne
      <3>4. \A i \in 1..(n + 1) : i \in 1..n \/ i = n + 1
        BY <1>3
      <3>5. \A i \in 1..n : i \in 1..(n + 1)
        BY <1>3
      <3> QED BY <2>2, <3>3, <3>4, <3>5
    <2> QED BY <1>2, <2>1, <2>2 DEF CallsNoWork
  <1>5. RaisedWorks' = RaisedWorks
    <2>1. \A o \in failed : own2[o + 1] = own[o + 1]
      <3>1. \A o \in failed : o + 1 \in 1..n
        BY <1>1, <1>2, <1>3 DEF LineInv
      <3> QED BY <1>4, <3>1
    <2>2. \A r \in refusals : own2[r.arrival_order + 1] = own[r.arrival_order + 1]
      BY <2>1 DEF LabInv
    <2> QED BY <1>1, <1>2, <2>2 DEF RaisedWorks
  <1>6. \A i \in DOMAIN completed : /\ completed[i].arrival_order + 1 \in 1..n
                                    /\ completed[i].arrival_order \in Nat
                                    /\ completed[i].arrival_order < n
    <2>1. \A i \in DOMAIN completed : completed[i] \in Queue!CompletedPayment
      BY <1>1, ElementOfSeq DEF CompletedInv
    <2>2. \A i \in DOMAIN completed : /\ completed[i].arrival_order \in Nat
                                      /\ completed[i].arrival_order < n
      BY <1>1, <1>2, <2>1 DEF CompletedInv, Queue!CompletedPayment
    <2> QED BY <1>3, <2>2
  <1>7. DuplicateDelivered' <=> DuplicateDelivered
    <2>1. \A i \in DOMAIN completed :
            own2[completed[i].arrival_order + 1] = own[completed[i].arrival_order + 1]
      BY <1>4, <1>6
    <2> QED BY <1>1, <1>2, <2>1 DEF DuplicateDelivered
  <1>8. CompletedInv'
    <2>1. \A i \in DOMAIN completed : completed[i].arrival_order < nextArrival'
      BY <1>3, <1>6
    <2> QED BY <1>1, <2>1 DEF CompletedInv
  <1>9. Strangers'
    <2>1. KindOf(DuplicateId)' = KindOf(DuplicateId)
      BY <1>1, SameWorks
    <2>2. (\E i \in DOMAIN own2 : own2[i] = 0) => KindOf(DuplicateId) = "keyed"
      BY <1>1, <1>2, <1>3, <1>4 DEF Strangers
    <2> QED BY <1>2, <2>1, <2>2 DEF Strangers
  <1> QED BY <1>5, <1>7, <1>8, <1>9

LEMMA QuietStepKeeps ==
  ASSUME LabInv, CallsNoWork, RetryInv'
  PROVE  LabInv'
  <1>1. /\ RaisedWorks' = RaisedWorks
        /\ DuplicateDelivered' <=> DuplicateDelivered
        /\ Strangers' /\ CompletedInv'
    BY OwnersStay
  <1>2. /\ works' = works /\ ledger' = ledger /\ keys' = keys /\ ordered' = ordered
        /\ clock <= clock' /\ clock \in Nat /\ clock' \in Nat /\ payments \in Seq(Payment)
        /\ WorksTyped /\ keys \subseteq PaymentIds /\ ordered \subseteq PaymentIds
        /\ failed' = {r.arrival_order : r \in refusals'}
    BY DEF LabInv, RetryInv, HeapInv, StateTyped, Typed, CallsNoWork, labVars
  <1>3. WorksTyped'
    BY <1>2, SameWorks
  <1>4. PICK pays, pays2, led, ks, ord, broke, dup, now, later :
          /\ pays = payments /\ pays2 = payments' /\ led = ledger /\ ks = keys
          /\ ord = ordered /\ broke = RaisedWorks /\ dup = DuplicateDelivered
          /\ now = clock /\ later = clock'
    OBVIOUS
  <1>5. dup = DuplicateDelivered'
    <2>1. dup \in BOOLEAN /\ DuplicateDelivered' \in BOOLEAN
      BY <1>4, Zenon DEF DuplicateDelivered
    <2>2. CASE DuplicateDelivered = TRUE
      BY ONLY <1>1, <1>4, <2>1, <2>2
    <2>3. CASE DuplicateDelivered = FALSE
      BY ONLY <1>1, <1>4, <2>1, <2>3
    <2> QED BY ONLY <1>4, <2>1, <2>2, <2>3
  <1>6. Effects(pays, led, ks, ord, broke, dup, now)
    BY <1>4 DEF LabInv
  <1>7. Effects(pays, led, ks, ord, broke, dup, later)
    BY <1>2, <1>4, <1>6, LaterEffects
  <1>8. Effects(pays2, led, ks, ord, broke, dup, later)
    <2>1. CASE pays2 = pays
      BY <1>7, <2>1
    <2>2. ASSUME NEW q \in Payment, q.outcome = "none", pays2 = Append(pays, q)
          PROVE  Effects(pays2, led, ks, ord, broke, dup, later)
      BY <1>2, <1>4, <1>7, <2>2, EffectsOfSubmit
    <2> QED BY <1>4, <2>1, <2>2 DEF CallsNoWork
  <1>9. Effects(pays2, led, ks, ord, broke, dup, later)'
    BY <1>2, <1>8, EffectsKept
  <1>10. Effects(payments, ledger, keys, ordered, RaisedWorks, DuplicateDelivered, clock)'
    BY ONLY <1>1, <1>2, <1>4, <1>5, <1>9 DEF Effects
  <1> QED BY <1>1, <1>2, <1>3, <1>10 DEF LabInv
-----------------------------------------------------------------------------
(***************************************************************************)
(* The laboratory keeps its invariant.                                     *)
(***************************************************************************)
LEMMA LabStarts ==
  ASSUME LabInit
  PROVE  LabInv
  <1>1. /\ Init /\ works \in Works /\ ledger = <<OpenEntry>> /\ keys = {} /\ ordered = {}
        /\ refusals = {}
    BY DEF LabInit
  <1>2. /\ payments = <<>> /\ owner = <<>> /\ completed = <<>> /\ failed = {} /\ clock = 0
    BY <1>1 DEF Init, Queue!Init
  <1>3. RetryInv
    BY <1>1, RetryStarts
  <1>4. WorksTyped
    BY <1>1, LaboratoryInputs DEF WorksTyped
  <1>5. /\ Strangers /\ CompletedInv /\ RaisedWorks = {}
        /\ failed = {r.arrival_order : r \in refusals}
    BY <1>1, <1>2 DEF Strangers, CompletedInv, RaisedWorks
  <1>6. PICK led, x : led = ledger /\ x = OpenEntry
    OBVIOUS
  <1>7. /\ x \in L!Entry /\ x.entry_id = <<DuplicateId, "OPEN">> /\ x.posted_at = 0
    BY <1>6, LaboratoryInputs DEF OpenEntry, L!Entry, L!CREDIT, L!DEBIT
  <1>8. led \in Seq(L!Entry) /\ DOMAIN led = {1} /\ led[1] = x
    BY <1>1, <1>6, <1>7
  <1>9. Books(led, clock)
    BY <1>7, <1>8 DEF Books
  <1>10. \A id : ~HasDebit(led, id)
    BY <1>7, <1>8 DEF HasDebit, Suffixed
  <1>11. \A id : Remembers(led, {}, {}, id)
    BY <1>10 DEF Remembers
  <1>12. DOMAIN payments = {}
    BY <1>2
  <1>13. Effects(payments, led, {}, {}, {}, DuplicateDelivered, clock)
    <2> HIDE DEF HasDebit, Books, Remembers
    <2> QED BY <1>9, <1>10, <1>11, <1>12 DEF Effects
  <1>14. Effects(payments, ledger, keys, ordered, RaisedWorks, DuplicateDelivered, clock)
    BY <1>1, <1>5, <1>6, <1>13
  <1> QED BY <1>1, <1>3, <1>4, <1>5, <1>14 DEF LabInv

\* Between two events, the clock stays and an item may join.
LEMMA EnqueueOnly ==
  ASSUME HeapInv, LineInv, Queue!enqueue
  PROVE  /\ completed' = completed /\ failed' = failed
         /\ clock <= clock' /\ nextArrival <= nextArrival'
  <1>1. /\ nextArrival' = nextArrival + 1 /\ completed' = completed /\ failed' = failed
    BY DEF Queue!enqueue, Queue!EnqueueAt
  <1>2. clock' = clock
    BY DEF Queue!enqueue, Queue!schedVars, Queue!Sched!ScheduleAt
  <1>3. clock \in Nat /\ nextArrival \in Nat
    BY DEF HeapInv, LineInv
  <1> QED BY <1>1, <1>2, <1>3

LEMMA LabStep ==
  ASSUME LabInv, [LabNext]_allVars
  PROVE  LabInv'
  <1>1. RetryInv /\ LineInv /\ HeapInv /\ clock \in Nat /\ nextArrival \in Nat
    BY DEF LabInv, RetryInv, HeapInv, LineInv
  <1>2. CASE Submit /\ UNCHANGED labVars
    <2>1. PICK processor \in Processor, id \in PaymentIds, failures \in Nat,
               permanent \in BOOLEAN : submit(processor, id, failures, permanent)
      BY <1>1, <1>2, SubmitCases
    <2>2. RetryInv'
      BY <1>1, <2>1, SubmitKeeps
    <2>3. PICK q, x : /\ q = NewPayment(processor, id, failures, permanent)
                      /\ x = Len(payments) + 1
      OBVIOUS
    <2>4. /\ payments' = Append(payments, q) /\ owner' = Append(owner, x) /\ Queue!enqueue
      BY <2>1, <2>3 DEF submit, NewPayment
    <2>5. q \in Payment /\ q.outcome = "none"
      BY <2>3, RetryInputs DEF NewPayment, Payment, Outcome
    <2>6. x # 0
      <3>1. Len(payments) \in Nat
        BY <1>1, LenProperties DEF RetryInv, StateTyped, Typed
      <3> QED BY <2>3, <3>1
    <2>7. CallsNoWork
      BY <1>1, <1>2, <2>4, <2>5, <2>6, EnqueueOnly DEF CallsNoWork
    <2> QED BY <2>2, <2>7, QuietStepKeeps
  <1>3. CASE enqueue_duplicate
    <2>1. /\ KindOf(DuplicateId) = "keyed" /\ Queue!enqueue /\ owner' = Append(owner, 0)
          /\ UNCHANGED <<payments, entries, pendingRetries, attempts>>
          /\ UNCHANGED labVars
      BY <1>3 DEF enqueue_duplicate, KindOf
    <2>2. RetryInv'
      BY <1>1, <2>1, DuplicateKeeps
    <2>3. CallsNoWork
      BY <1>1, <2>1, EnqueueOnly DEF CallsNoWork
    <2> QED BY <2>2, <2>3, QuietStepKeeps
  <1>4. CASE Jump /\ UNCHANGED labVars
    <2>1. RetryInv'
      BY <1>1, <1>4, JumpKeeps
    <2>2. UNCHANGED <<queueVars, retryVars>>
      BY <1>4 DEF Jump, Queue!Jump, Queue!queueVars, queueVars
    <2>3. clock <= clock'
      <3>1. PICK time \in Nat : time >= clock /\ clock' = time
        BY <1>1, <1>4, RetryInputs DEF Jump, Queue!Jump, Queue!Sched!AdvanceTo
      <3> QED BY <1>1, <3>1
    <2>4. CallsNoWork
      BY <1>1, <1>4, <2>2, <2>3 DEF CallsNoWork, queueVars, retryVars
    <2> QED BY <2>1, <2>4, QuietStepKeeps
  <1>5. ASSUME NEW e \in queue, RunRetry(e), UNCHANGED labVars
        PROVE  LabInv'
    <2>1. RetryInv'
      BY <1>1, <1>5, RetryRuns
    <2>2. e.callback[2] # 0 /\ e.time \in Nat
      <3>1. e \in Queue!Sched!Event /\ IsRetry(e)
        BY <1>1, <1>5 DEF HeapInv, RunRetry, IsRetry
      <3> QED BY <3>1, EventKinds DEF Submission
    <2>3. clock <= e.time /\ clock' = e.time
      BY <1>5 DEF RunRetry, Queue!Sched!RunEvent
    <2>4. /\ completed' = completed /\ failed' = failed
          /\ nextArrival' = nextArrival \/ nextArrival' = nextArrival + 1
      BY <1>5 DEF RunRetry, Queue!EnqueueAt, queueVars
    <2>5. owner' = owner \/ owner' = Append(owner, e.callback[2])
      BY <1>5 DEF RunRetry
    <2>6. payments' = payments
      BY <1>5 DEF RunRetry
    <2>7. CallsNoWork
      BY <1>1, <1>5, <2>2, <2>3, <2>4, <2>5, <2>6 DEF CallsNoWork
    <2> QED BY <2>1, <2>7, QuietStepKeeps
  <1>6. ASSUME NEW e \in queue, Queue!Sched!DropOverdue(e), UNCHANGED <<queueVars, retryVars>>,
               UNCHANGED labVars
        PROVE  LabInv'
    <2>1. RetryInv'
      BY <1>1, <1>6, DropKeeps
    <2>2. clock' = clock
      BY <1>6 DEF Queue!Sched!DropOverdue
    <2>3. CallsNoWork
      BY <1>1, <1>6, <2>2 DEF CallsNoWork, queueVars, retryVars
    <2> QED BY <2>1, <2>3, QuietStepKeeps
  <1>7. ASSUME NEW e \in queue, RunLabTick(e)
        PROVE  LabInv'
    BY <1>7, LabTickKeeps
  <1>8. CASE UNCHANGED allVars
    <2>1. /\ UNCHANGED queueVars /\ UNCHANGED retryVars /\ clock' = clock /\ queue' = queue
          /\ nextOrder' = nextOrder /\ lost' = lost /\ UNCHANGED labVars
      BY <1>8 DEF allVars, vars, schedVars
    <2>2. RetryInv'
      BY <1>1, <2>1, SameKeeps
    <2>3. CallsNoWork
      BY <1>1, <2>1 DEF CallsNoWork, queueVars, retryVars
    <2> QED BY <2>2, <2>3, QuietStepKeeps
  <1> QED BY <1>2, <1>3, <1>4, <1>5, <1>6, <1>7, <1>8 DEF LabNext, LabRunNext

\* In the laboratory too, where works raise and a duplicate shares the queue, every
\* undecided payment has one attempt under way and a decided one none.
THEOREM LabOneAttempt == LabSpec => []OneAttemptUnderWay
  <1>1. LabInit => LabInv
    BY LabStarts
  <1>2. LabInv /\ [LabNext]_allVars => LabInv'
    BY LabStep
  <1>3. LabInv => OneAttemptUnderWay
    BY OneAttemptFollows DEF LabInv
  <1> QED BY <1>1, <1>2, <1>3, PTL DEF LabSpec

\* The laboratory's payments keep the retry policy, whatever the works do.
THEOREM LabPolicy == LabSpec => []PolicyKept
  <1>1. LabInit => LabInv
    BY LabStarts
  <1>2. LabInv /\ [LabNext]_allVars => LabInv'
    BY LabStep
  <1>3. LabInv => PolicyKept
    BY PolicyFollows DEF LabInv
  <1> QED BY <1>1, <1>2, <1>3, PTL DEF LabSpec
-----------------------------------------------------------------------------
(***************************************************************************)
(* What the ledger and the outcomes say of each other.                     *)
(***************************************************************************)
\* The debits of an identifier are those of its work: at most one.
LEMMA DebitsAre ==
  ASSUME LabInv, NEW id \in PaymentIds
  PROVE  /\ \A i, j \in DebitsOf(id) : i = j
         /\ DebitsOf(id) # {} <=> HasDebit(ledger, id)
         /\ DebitsOf(id) = {i \in DOMAIN ledger : ledger[i].entry_id = Suffixed(id)}
  <1>1. PICK led : led = ledger /\ Books(led, clock)
    BY DEF LabInv, Effects
  <1>2. /\ Suffixed(id) \in {id} \X {"DEBIT", "SETTLEMENT"}
        /\ <<DuplicateId, "OPEN">> \notin {id} \X {"DEBIT", "SETTLEMENT"}
        /\ \A x \in PaymentIds : Suffixed(x) \in {id} \X {"DEBIT", "SETTLEMENT"} => x = id
    BY DEF Suffixed
  <1>3. ASSUME NEW i \in DOMAIN led, led[i].entry_id \in {id} \X {"DEBIT", "SETTLEMENT"}
        PROVE  led[i].entry_id = Suffixed(id)
    <2>1. PICK y : y = led[i].entry_id
      OBVIOUS
    <2>2. y = <<DuplicateId, "OPEN">> \/ \E x \in PaymentIds : y = Suffixed(x)
      BY <1>1, <2>1 DEF Books
    <2> HIDE DEF Suffixed
    <2> QED BY <1>2, <1>3, <2>1, <2>2
  <1>4. DebitsOf(id) = {i \in DOMAIN led : led[i].entry_id = Suffixed(id)}
    <2> HIDE DEF Suffixed
    <2> QED BY <1>1, <1>2, <1>3 DEF DebitsOf
  <1>5. \A i, j \in DOMAIN led : led[i].entry_id = led[j].entry_id => i = j
    BY <1>1 DEF Books
  <1> HIDE DEF Suffixed
  <1>6. \A i, j \in DebitsOf(id) : i = j
    BY <1>4, <1>5
  <1>7. DebitsOf(id) # {} <=> HasDebit(led, id)
    BY <1>4 DEF HasDebit
  <1> QED BY <1>1, <1>4, <1>6, <1>7

LEMMA EffectsFollow ==
  ASSUME LabInv
  PROVE  EffectsMatchOutcomes
  <1> SUFFICES ASSUME NEW id \in DOMAIN works
               PROVE  LET succeeded == {p \in PaymentsOf(id) : payments[p].outcome = "succeeded"}
                      IN  /\ Cardinality(DebitsOf(id)) <= 1
                          /\ succeeded # {} /\ DebitsOf(id) = {} =>
                               works[id].kind = "ordered" /\ PaymentsOf(id) \cap RaisedOwners # {}
                          /\ DebitsOf(id) # {} /\ succeeded = {} =>
                               id = DuplicateId /\ DuplicateDelivered
    BY DEF EffectsMatchOutcomes
  <1>1. id \in PaymentIds
    BY DEF LabInv, WorksTyped
  <1>2. PICK led, pays, ord, broke, dup :
          /\ led = ledger /\ pays = payments /\ ord = ordered /\ broke = RaisedWorks
          /\ dup = DuplicateDelivered
          /\ Effects(pays, led, keys, ord, broke, dup, clock)
    BY DEF LabInv
  <1>3. /\ KindOf(id) = "ordered" /\ id \in ord /\ ~HasDebit(led, id)
             => \E b \in broke : IsFor(pays, b.owner, id)
        /\ HasDebit(led, id)
             => \/ \E p \in DOMAIN pays : IsFor(pays, p, id) /\ Succeeded(pays, p)
                \/ id = DuplicateId /\ dup
        /\ \A p \in DOMAIN pays : Succeeded(pays, p) =>
             \E x \in PaymentIds :
               /\ IsFor(pays, p, x)
               /\ HasDebit(led, x) \/ (KindOf(x) = "ordered" /\ x \in ord)
    BY <1>1, <1>2 DEF Effects
  <1>4. /\ \A i, j \in DebitsOf(id) : i = j
        /\ DebitsOf(id) # {} <=> HasDebit(led, id)
    BY <1>1, <1>2, DebitsAre
  <1>5. Cardinality(DebitsOf(id)) <= 1
    <2>1. PICK c, S : c = Cardinality(S) /\ S = DebitsOf(id)
      OBVIOUS
    <2>2. c = IF S = {} THEN 0 ELSE 1
      BY <1>4, <2>1, NoneOrOne
    <2>3. c <= 1
      BY ONLY <2>2
    <2> QED BY <2>1, <2>3
  <1>6. \A p : p \in PaymentsOf(id) <=> IsFor(pays, p, id)
    BY <1>2 DEF PaymentsOf, IsFor
  <1>7. \A p : payments[p].outcome = "succeeded" <=> Succeeded(pays, p)
    BY <1>2 DEF Succeeded
  <1>8. ASSUME NEW p \in PaymentsOf(id), payments[p].outcome = "succeeded", DebitsOf(id) = {}
        PROVE  works[id].kind = "ordered" /\ PaymentsOf(id) \cap RaisedOwners # {}
    <2>1. p \in DOMAIN pays /\ pays[p].payment_id = id /\ Succeeded(pays, p)
      BY <1>6, <1>7, <1>8 DEF IsFor
    <2>2. PICK x \in PaymentIds : /\ IsFor(pays, p, x)
                                  /\ HasDebit(led, x) \/ (KindOf(x) = "ordered" /\ x \in ord)
      BY <1>3, <2>1
    <2>3. x = id
      BY <2>1, <2>2 DEF IsFor
    <2>4. ~HasDebit(led, id) /\ KindOf(id) = "ordered" /\ id \in ord
      BY <1>4, <1>8, <2>2, <2>3
    <2>5. PICK b \in broke : IsFor(pays, b.owner, id)
      BY <1>3, <2>4
    <2>6. b.owner \in RaisedOwners
      BY <1>2, <2>5 DEF RaisedWorks, RaisedOwners, LabInv
    <2> QED BY <1>2, <1>6, <2>4, <2>5, <2>6 DEF KindOf
  <1>9. ASSUME DebitsOf(id) # {}, {p \in PaymentsOf(id) : payments[p].outcome = "succeeded"} = {}
        PROVE  id = DuplicateId /\ DuplicateDelivered
    <2>1. HasDebit(led, id)
      BY <1>4, <1>9
    <2>2. ~\E p \in DOMAIN pays : IsFor(pays, p, id) /\ Succeeded(pays, p)
      BY <1>6, <1>7, <1>9
    <2> QED BY <1>2, <1>3, <2>1, <2>2
  <1> QED BY <1>5, <1>8, <1>9

\* A payment whose work raised has not succeeded.
LEMMA RaiserFails ==
  ASSUME LabInv, NEW o \in failed, NEW p, p = owner[o + 1], p # 0
  PROVE  payments[p].outcome # "succeeded"
  <1>1. p \in RaisedPayments
    BY DEF RaisedPayments
  <1>2. Broken(payments[p])
    BY <1>1 DEF LabInv, RetryInv, GoodNow, Good, Placed
  <1> QED BY <1>2 DEF Broken

\* Only a payment that may be delivered twice has a duplicate.
LEMMA DeliveredKind ==
  ASSUME LabInv, DuplicateDelivered
  PROVE  KindOf(DuplicateId) = "keyed"
  <1>1. PICK i \in DOMAIN completed : owner[completed[i].arrival_order + 1] = 0
    BY DEF DuplicateDelivered
  <1>2. PICK n, x : n = nextArrival /\ x = completed[i].arrival_order
    OBVIOUS
  <1>3. n \in Nat /\ DOMAIN owner = 1..n
    BY <1>2, LenProperties DEF LabInv, RetryInv, LineInv
  <1>4. x \in Nat /\ x < n
    <2>1. completed[i] \in Queue!CompletedPayment
      BY ElementOfSeq DEF LabInv, CompletedInv
    <2> QED BY <1>2, <2>1 DEF LabInv, CompletedInv, Queue!CompletedPayment
  <1>5. x + 1 \in DOMAIN owner
    BY <1>3, <1>4
  <1> QED BY <1>1, <1>2, <1>5 DEF LabInv, Strangers

LEMMA RefusalsFollow ==
  ASSUME LabInv
  PROVE  RefusalsExplained
  <1>1. failed = {r.arrival_order : r \in refusals}
    BY DEF LabInv
  <1>2. ASSUME NEW r \in refusals, NEW p, p = owner[r.arrival_order + 1], NEW id,
               id = IF p = 0 THEN DuplicateId ELSE payments[p].payment_id
        PROVE  Explained(r, p, id)
    <2>a. PICK known : known = {i \in DOMAIN ledger : i <= r.known}
      OBVIOUS
    <2>1. PICK b \in RaisedWorks : b.owner = p /\ b.at = r.at /\ b.known = r.known
      <3>1. PICK b : b = [owner |-> p, at |-> r.at, known |-> r.known]
        OBVIOUS
      <3>2. b \in RaisedWorks
        BY <1>2, <3>1 DEF RaisedWorks
      <3> QED BY <3>1, <3>2
    <2>2. PICK x \in PaymentIds :
            /\ IF p = 0 THEN x = DuplicateId ELSE IsFor(payments, p, x)
            /\ Refusal(ledger, x, r.at, r.known)
      BY <2>1 DEF LabInv, Effects
    <2>3. x = id
      BY <1>2, <2>2 DEF IsFor
    <2>4. id \in PaymentIds /\ Refusal(ledger, id, r.at, r.known)
      BY <2>2, <2>3
    <2>5. PICK i \in known :
            IF KindOf(id) = "post"
            THEN \/ ledger[i].entry_id = Suffixed(id)
                 \/ /\ ledger[i].posted_at > r.at
                    /\ \E y \in PaymentIds :
                         KindOf(y) # "post" /\ ledger[i].entry_id = Suffixed(y)
            ELSE ledger[i].posted_at > works[id].at
      BY <2>a, <2>4 DEF Refusal
    <2>6. \A y \in PaymentIds :
            /\ ledger[i].entry_id = Suffixed(y) => i \in DebitsOf(y)
            /\ i \in DebitsOf(y) => HasDebit(ledger, y)
      BY <2>a, <2>5, DebitsAre
    <2>7. CASE KindOf(id) # "post"
      BY <2>a, <2>5, <2>7 DEF KindOf, Explained
    <2>8. CASE KindOf(id) = "post" /\ ledger[i].entry_id = Suffixed(id)
      <3>1. i \in known \cap DebitsOf(id) /\ HasDebit(ledger, id)
        BY <2>4, <2>5, <2>6, <2>8
      <3>2. \/ \E q \in DOMAIN payments : IsFor(payments, q, id) /\ Succeeded(payments, q)
            \/ id = DuplicateId /\ DuplicateDelivered
        BY <2>4, <3>1 DEF LabInv, Effects
      <3>3. PICK q \in DOMAIN payments : IsFor(payments, q, id) /\ Succeeded(payments, q)
        BY <2>8, <3>2, DeliveredKind
      <3>4. q \in PaymentsOf(id) /\ payments[q].outcome = "succeeded"
        BY <3>3 DEF PaymentsOf, IsFor, Succeeded
      <3>5. q # p
        <4>1. r.arrival_order \in failed
          BY <1>1
        <4>2. q # 0
          BY DEF LabInv, Effects
        <4> QED BY <1>2, <3>4, <4>1, <4>2, RaiserFails
      <3> QED BY <2>a, <2>8, <3>1, <3>4, <3>5 DEF KindOf, Explained
    <2>9. CASE KindOf(id) = "post" /\ ledger[i].entry_id # Suffixed(id)
      <3>1. PICK y \in PaymentIds : KindOf(y) # "post" /\ ledger[i].entry_id = Suffixed(y)
        BY <2>5, <2>9
      <3>2. ledger[i].posted_at > r.at /\ i \in DebitsOf(y)
        BY <2>5, <2>6, <2>9, <3>1
      <3> QED BY <2>a, <2>5, <2>9, <3>1, <3>2 DEF KindOf, Explained
    <2> QED BY <2>7, <2>8, <2>9
  <1> QED BY <1>1, <1>2 DEF RefusalsExplained

\* Whatever retries, duplicates, reordering and isolation do together, an identifier
\* has at most one debit, and only if a payment of it has succeeded or it is the
\* duplicate's, which was delivered; and a payment that has succeeded has its debit,
\* unless it is ordered and another of its identifier was refused before: for any
\* works, payments, capacity and raises.
THEOREM LedgerMatches == LabSpec => []EffectsMatchOutcomes
  <1>1. LabInit => LabInv
    BY LabStarts
  <1>2. LabInv /\ [LabNext]_allVars => LabInv'
    BY LabStep
  <1>3. LabInv => EffectsMatchOutcomes
    BY EffectsFollow
  <1> QED BY <1>1, <1>2, <1>3, PTL DEF LabSpec

\* When a work raised, the ledger of that moment explains it: a work that posts at the
\* clock's time found the entry of another payment of its identifier, which succeeded,
\* or an entry of a work with a fixed posting time ahead of the clock; a work with a
\* fixed posting time found an entry ahead of that.
THEOREM Refusals == LabSpec => []RefusalsExplained
  <1>1. LabInit => LabInv
    BY LabStarts
  <1>2. LabInv /\ [LabNext]_allVars => LabInv'
    BY LabStep
  <1>3. LabInv => RefusalsExplained
    BY RefusalsFollow
  <1> QED BY <1>1, <1>2, <1>3, PTL DEF LabSpec
=============================================================================
