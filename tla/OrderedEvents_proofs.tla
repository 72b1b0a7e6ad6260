------------------------ MODULE OrderedEvents_proofs ------------------------
(***************************************************************************)
(* Proofs about the ordered event processor, for any payments, versions    *)
(* and amounts and any number of deliveries in any order: what has been    *)
(* applied is a prefix of the workflow, a debit means a completed          *)
(* workflow, the order of delivery is irrelevant, and the ledger is only   *)
(* extended by entries it accepts.                                         *)
(***************************************************************************)
EXTENDS OrderedEvents, DataLemmas

(***************************************************************************)
(* One append.                                                             *)
(***************************************************************************)
\* An accepted entry leaves a well-formed ledger well formed, and is a step of
\* the ledger's contract.
LEMMA AcceptedEntry ==
  ASSUME NEW s \in Seq(L!Entry), NEW e \in L!Entry,
         L!Canonical(s), L!UniqueIds(s), L!Accepts(s, e)
  PROVE  LET t == Append(s, e)
         IN  /\ t \in Seq(L!Entry) /\ L!Canonical(t) /\ L!UniqueIds(t)
             /\ L!Extends(s, t)
             /\ DOMAIN t = DOMAIN s \cup {Len(s) + 1}
             /\ Len(s) + 1 \notin DOMAIN s
             /\ \A i \in DOMAIN s : t[i] = s[i]
             /\ t[Len(s) + 1] = e
  <1> DEFINE t == Append(s, e)
             n == Len(s)
  <1>1. /\ n \in Nat /\ DOMAIN s = 1..n
        /\ \A i \in 1..n : s[i] \in L!Entry
    BY AppendOne
  <1>2. /\ t \in Seq(L!Entry) /\ Len(t) = n + 1
        /\ DOMAIN t = 1..(n + 1)
        /\ \A i \in 1..n : t[i] = s[i]
        /\ t[n + 1] = e
    BY AppendOne
  <1>3. /\ e.sequence = n + 1
        /\ \A i \in 1..n : s[i].entry_id # e.entry_id
        /\ e.posted_at >= L!LastPosted(s)
    BY <1>1 DEF L!Accepts, L!Ids
  <1>4. e.posted_at \in Nat /\ \A i \in 1..n : s[i].posted_at \in Nat
    BY <1>1 DEF L!Entry
  <1>5. n # 0 => s # <<>> /\ L!LastPosted(s) = s[n].posted_at
    BY <1>1 DEF L!LastPosted
  <1>6. SubSeq(t, n + 1, Len(t)) = <<e>>
    <2>1. SubSeq(Append(s, e), Len(s) + 1, Len(s) + 1) = <<e>>
      BY AppendedSuffix
    <2> QED BY <2>1, <1>2
  <1>7. t = s \o <<e>>
    BY AppendOne
  <1> HIDE DEF t, n
  <1>8. L!Canonical(t)
    <2>1. \A i \in DOMAIN t : t[i].sequence = i
      BY <1>1, <1>2, <1>3 DEF L!Canonical
    <2>2. \A i \in DOMAIN t \ {1} : t[i - 1].posted_at <= t[i].posted_at
      <3> SUFFICES ASSUME NEW i \in 1..(n + 1), i # 1
                   PROVE  t[i - 1].posted_at <= t[i].posted_at
        BY <1>2
      <3>1. CASE i = n + 1
        BY <3>1, <1>1, <1>2, <1>3, <1>4, <1>5
      <3>2. CASE i \in 1..n
        <4>1. i - 1 \in 1..n /\ i \in DOMAIN s \ {1}
          BY <3>2, <1>1
        <4> QED BY <4>1, <3>2, <1>2 DEF L!Canonical
      <3> QED BY <3>1, <3>2, <1>1
    <2> QED BY <2>1, <2>2 DEF L!Canonical
  <1>9. L!UniqueIds(t)
    BY <1>1, <1>2, <1>3 DEF L!UniqueIds
  <1>10. L!AcceptsBatch(s, <<e>>)
    <2>1. DOMAIN <<e>> = {1} /\ <<e>>[1] = e /\ <<e>> # <<>>
      OBVIOUS
    <2>2. \A j \in 1..(1 - 1) : <<e>>[j].entry_id # e.entry_id
      OBVIOUS
    <2> QED BY <2>1, <2>2 DEF L!Accepts, L!AcceptsBatch
  <1>11. L!Extends(s, t)
    BY <1>6, <1>7, <1>10 DEF L!Extends, t, n
  <1>12. /\ DOMAIN t = DOMAIN s \cup {n + 1}
         /\ n + 1 \notin DOMAIN s
    BY <1>1, <1>2
  <1> QED BY <1>1, <1>2, <1>8, <1>9, <1>11, <1>12 DEF t, n

(***************************************************************************)
(* The drain.                                                              *)
(***************************************************************************)
\* The drain applies consecutive buffered events of the same amount and stops only
\* at the end of the workflow, at a gap or at a conflict.
LEMMA DrainStops ==
  ASSUME NEW buffer, NEW from \in Sequence, NEW cents
  PROVE  LET final == DrainEnd(buffer, from, cents)
             Fits(n) == buffer[n] # None /\ buffer[n].amount = cents
         IN  /\ final \in from..COMPLETED
             /\ \A n \in (from + 1)..final : Fits(n)
             /\ final < COMPLETED => ~Fits(final + 1)
  <1> DEFINE Fits(n) == buffer[n] # None /\ buffer[n].amount = cents
             S == {m \in from..COMPLETED : \A n \in (from + 1)..m : Fits(n)}
             IsMax(x) == x \in S /\ \A y \in S : x >= y
  <1>1. \E x \in S : \A y \in S : x >= y
    <2>1. from \in {1, 2, 3, 4} /\ COMPLETED = 4
      BY DEF Sequence, COMPLETED
    <2>2. from \in S /\ S \subseteq from..4
      BY <2>1
    <2> HIDE DEF S
    <2>3. CASE 4 \in S
      BY <2>1, <2>2, <2>3
    <2>4. CASE 4 \notin S /\ 3 \in S
      BY <2>1, <2>2, <2>4
    <2>5. CASE 4 \notin S /\ 3 \notin S /\ 2 \in S
      BY <2>1, <2>2, <2>5
    <2>6. CASE 4 \notin S /\ 3 \notin S /\ 2 \notin S
      BY <2>1, <2>2, <2>6
    <2> QED BY <2>3, <2>4, <2>5, <2>6
  <1>2. IsMax(DrainEnd(buffer, from, cents))
    <2>1. DrainEnd(buffer, from, cents) = CHOOSE x \in S : \A y \in S : x >= y
      BY DEF DrainEnd, Max
    <2> HIDE DEF S
    <2> QED BY <1>1, <2>1
  <1> DEFINE final == DrainEnd(buffer, from, cents)
  <1> HIDE DEF final
  <1>3. ASSUME final < COMPLETED, Fits(final + 1)
        PROVE  FALSE
    <2>1. final + 1 \in from..COMPLETED
      BY <1>2, <1>3 DEF final, Sequence, COMPLETED
    <2>2. \A n \in (from + 1)..(final + 1) : n \in (from + 1)..final \/ n = final + 1
      BY <1>2 DEF final, Sequence, COMPLETED
    <2>3. final + 1 \in S
      BY <2>1, <2>2, <1>2, <1>3 DEF final
    <2>4. final >= final + 1
      BY <2>3, <1>2 DEF final
    <2>5. final \in Int
      BY <1>2 DEF final, Sequence, COMPLETED
    <2> QED BY <2>4, <2>5
  <1> QED BY <1>2, <1>3 DEF final
-----------------------------------------------------------------------------
(***************************************************************************)
(* The inductive invariant.                                                *)
(***************************************************************************)
\* A settlement debit means a completed workflow, and carries its amount.
DebitsSettled ==
  \A p \in Payments : \A i \in DebitsOf(p) :
    last[p] = COMPLETED /\ entries[i].amount = amount[p]

\* What was delivered for a payment, against what became of it.
Followed ==
  /\ IsFiniteSet(delivered)
  /\ \A p \in Payments :
       /\ last[p] > 0 => amount[p] \in AmountsOf(p)
       /\ 1..last[p] \subseteq Sequences(p)
       /\ \A s \in Sequence :
            buffers[p][s] # None => <<p, s, buffers[p][s].amount>> \in delivered
       /\ (\A c, d \in AmountsOf(p) : c = d) =>
            \A s \in Sequences(p) : s <= last[p] \/ buffers[p][s] # None

\* A payment that has begun has an amount, and only such a payment.
BegunHasAmount == \A p \in Payments : last[p] = 0 <=> amount[p] = None

Inv == /\ TypeOK /\ PrefixThenGap
       /\ L!WellFormed /\ DebitsSettled
       /\ BegunHasAmount /\ Followed

\* Applying an expected event: the sequences from s to final are applied, the
\* events drained or dropped leave the buffer, and the ledger takes the settlement
\* of a completed workflow or stays as it is; every event taken from the buffer is
\* decided, but for a completion that the ledger refuses.
LEMMA AppliedStep ==
  ASSUME TypeOK, NEW p \in Payments, NEW s \in Sequence, NEW event \in Event,
         Applied(p, s, event)
  PROVE  \E final \in s..COMPLETED, refused \in BOOLEAN :
    /\ refused => final = COMPLETED
    /\ decisions' =
         [decisions EXCEPT
            !["processed"] = @ + final - s + 1 - (IF refused THEN 1 ELSE 0),
            !["rejected"] = @ + (IF final < COMPLETED /\ buffers[p][final + 1] # None
                                 THEN 1 ELSE 0)]
    /\ raised' = IF refused THEN raised \cup {p} ELSE raised
    /\ \A n \in (s + 1)..final : /\ buffers[p][n] \in Event
                                 /\ buffers[p][n].amount = event.amount
    /\ final < COMPLETED => \/ buffers[p][final + 1] = None
                            \/ buffers[p][final + 1].amount # event.amount
    /\ last' = [last EXCEPT ![p] = final]
    /\ amount' = [amount EXCEPT ![p] = event.amount]
    /\ processed' = processed \cup AppliedIds(p, s, event, final)
    /\ buffers' = Cleared(p, s + 1, final)
    /\ \/ entries' = entries
       \/ /\ final = COMPLETED
          /\ \E e \in L!Entry : /\ e.entry_id = <<p, "SETTLEMENT">>
                                /\ e.amount = event.amount
                                /\ L!Accepts(entries, e)
                                /\ entries' = Append(entries, e)
  <1> DEFINE final == DrainEnd(buffers[p], s, event.amount)
             completion == IF s = COMPLETED THEN event ELSE buffers[p][COMPLETED]
             entry == SettlementEntry(p, event.amount, completion.arrival_order)
             refused == Settles(p, s, final) /\ ~LedgerTakes(entry)
  <1>1. /\ final \in s..COMPLETED
        /\ \A n \in (s + 1)..final : /\ buffers[p][n] # None
                                     /\ buffers[p][n].amount = event.amount
        /\ final < COMPLETED => ~ /\ buffers[p][final + 1] # None
                                  /\ buffers[p][final + 1].amount = event.amount
    BY DrainStops
  <1>2. /\ last' = [last EXCEPT ![p] = final]
        /\ amount' = [amount EXCEPT ![p] = event.amount]
        /\ processed' = processed \cup AppliedIds(p, s, event, final)
        /\ buffers' = Cleared(p, s + 1, final)
        /\ decisions' =
             [decisions EXCEPT
                !["processed"] = @ + final - s + 1 - (IF refused THEN 1 ELSE 0),
                !["rejected"] = @ + (IF final < COMPLETED /\ buffers[p][final + 1] # None
                                     THEN 1 ELSE 0)]
        /\ raised' = IF refused THEN raised \cup {p} ELSE raised
        /\ \/ entries' = entries
           \/ /\ Settles(p, s, final) /\ LedgerTakes(entry)
              /\ entries' = Append(entries, entry)
    BY DEF Applied
  <1>h. /\ final = DrainEnd(buffers[p], s, event.amount)
        /\ completion = IF s = COMPLETED THEN event ELSE buffers[p][COMPLETED]
        /\ entry = SettlementEntry(p, event.amount, completion.arrival_order)
        /\ refused \in BOOLEAN /\ (refused => Settles(p, s, final))
    OBVIOUS
  <1> HIDE DEF final, completion, entry, refused
  <1>3. \A n \in (s + 1)..final : buffers[p][n] \in Event
    <2>1. \A n \in (s + 1)..final : n \in Sequence
      BY <1>1 DEF Sequence, COMPLETED
    <2>2. \A n \in Sequence : buffers[p][n] \in Event \cup {None}
      BY DEF TypeOK
    <2> QED BY <1>1, <2>1, <2>2
  <1>5. Settles(p, s, final) => final = COMPLETED
    BY <1>1 DEF Settles, Sequence, COMPLETED
  <1>4. ASSUME Settles(p, s, final), LedgerTakes(entry)
        PROVE  /\ final = COMPLETED /\ entry \in L!Entry
               /\ entry.entry_id = <<p, "SETTLEMENT">>
               /\ entry.amount = event.amount
               /\ L!Accepts(entries, entry)
    <2>1. final = COMPLETED
      BY <1>4, <1>5
    <2>2. completion \in Event
      BY <2>1, <1>h, <1>3 DEF Sequence, COMPLETED
    <2>3. completion.arrival_order \in Nat /\ event.amount \in Nat \ {0}
      BY <2>2, OrderingInputs DEF Event
    <2>4. Len(entries) + 1 \in Nat \ {0}
      BY LenProperties DEF TypeOK, L!LedgerType
    <2>5. entry \in L!Entry /\ entry.entry_id = <<p, "SETTLEMENT">>
                            /\ entry.amount = event.amount
      BY <2>3, <2>4, <1>h DEF SettlementEntry, L!Entry, L!DEBIT
    <2> QED BY <2>1, <2>5, <1>4 DEF LedgerTakes
  <1>6. \/ entries' = entries
        \/ /\ final = COMPLETED
           /\ \E e \in L!Entry : /\ e.entry_id = <<p, "SETTLEMENT">>
                                 /\ e.amount = event.amount
                                 /\ L!Accepts(entries, e)
                                 /\ entries' = Append(entries, e)
    BY <1>2, <1>4
  <1>7. refused => final = COMPLETED
    BY <1>5, <1>h
  <1>8. refused \in BOOLEAN
    BY <1>h
  <1> QED BY <1>1, <1>2, <1>3, <1>6, <1>7, <1>8

\* What the counts of decisions become.
LEMMA CountsOfApplied ==
  ASSUME TypeOK, NEW s \in Sequence, NEW final \in s..COMPLETED,
         NEW r \in {0, 1}, NEW c \in {0, 1},
         decisions' = [decisions EXCEPT !["processed"] = @ + final - s + 1 - r,
                                        !["rejected"] = @ + c]
  PROVE  /\ decisions' \in [Decision -> Nat]
         /\ decisions'["processed"] = decisions["processed"] + final - s + 1 - r
         /\ decisions'["rejected"] = decisions["rejected"] + c
         /\ \A d \in {"stale", "duplicate"} : decisions'[d] = decisions[d]
  <1>1. decisions \in [Decision -> Nat]
    BY DEF TypeOK
  <1>2. s \in Nat /\ final \in Nat /\ s <= final
    BY DEF Sequence, COMPLETED
  <1>3. decisions["processed"] + final - s + 1 - r \in Nat
    BY <1>1, <1>2 DEF Decision
  <1>4. decisions["rejected"] + c \in Nat
    BY <1>1 DEF Decision
  <1> QED BY <1>1, <1>3, <1>4 DEF Decision

\* The places of a buffer after its drain.
LEMMA ClearedPlaces ==
  ASSUME TypeOK, NEW p \in Payments, NEW first, NEW final
  PROVE  /\ Cleared(p, first, final) \in [Payments -> [Sequence -> Event \cup {None}]]
         /\ \A q \in Payments, n \in Sequence :
              Cleared(p, first, final)[q][n] =
                IF q = p /\ n \in first..(final + 1) THEN None ELSE buffers[q][n]
  BY DEF TypeOK, Cleared
-----------------------------------------------------------------------------
(***************************************************************************)
(* The invariant is inductive.                                             *)
(***************************************************************************)
LEMMA InvStarts == Init => Inv
  <1> SUFFICES ASSUME Init PROVE Inv
    OBVIOUS
  <1>1. TypeOK
    BY OrderingInputs DEF Init, TypeOK, L!LedgerType, Sequence, COMPLETED
  <1>2. PrefixThenGap
    BY DEF Init, PrefixThenGap, Sequence, COMPLETED
  <1>3. L!WellFormed
    BY OrderingInputs DEF Init, L!WellFormed
  <1>4. \A p \in Payments : DebitsOf(p) = {}
    <2> SUFFICES ASSUME NEW p \in Payments, NEW i \in DebitsOf(p) PROVE FALSE
      OBVIOUS
    <2>1. i \in DOMAIN OpeningEntries /\ OpeningEntries[i].entry_id = <<p, "SETTLEMENT">>
      BY DEF DebitsOf, Init
    <2>2. <<p, "SETTLEMENT">> \in L!Ids(OpeningEntries)
      BY <2>1 DEF L!Ids
    <2> QED BY <2>2, OrderingInputs
  <1>5. DebitsSettled
    BY <1>4 DEF DebitsSettled
  <1>6. BegunHasAmount
    BY DEF Init, BegunHasAmount
  <1>7. Followed
    <2>1. \A p \in Payments : Sequences(p) = {} /\ 1..last[p] = {}
      BY DEF Init, Sequences
    <2>2. IsFiniteSet(delivered)
      BY FS_EmptySet DEF Init
    <2> QED BY <2>1, <2>2 DEF Init, Followed
  <1> QED BY <1>1, <1>2, <1>3, <1>5, <1>6, <1>7 DEF Inv

\* One more delivery, of a payment's event: what it adds to what was delivered.
LEMMA OneMoreDelivery ==
  ASSUME TypeOK, NEW p \in Payments, NEW s \in Sequence, NEW cents \in Amounts,
         delivered' = delivered \cup {<<p, s, cents>>}
  PROVE  /\ delivered' \subseteq Payments \X Sequence \X Amounts
         /\ IsFiniteSet(delivered) => IsFiniteSet(delivered')
         /\ \A q \in Payments :
              /\ AmountsOf(q)' = IF q = p THEN AmountsOf(q) \cup {cents} ELSE AmountsOf(q)
              /\ Sequences(q)' = IF q = p THEN Sequences(q) \cup {s} ELSE Sequences(q)
  <1>1. delivered' \subseteq Payments \X Sequence \X Amounts
    BY DEF TypeOK
  <1>2. IsFiniteSet(delivered) => IsFiniteSet(delivered')
    BY FS_AddElement
  <1>3. \A q, n, c : <<q, n, c>> \in delivered' <=>
                       \/ <<q, n, c>> \in delivered
                       \/ q = p /\ n = s /\ c = cents
    OBVIOUS
  <1>4. \A q \in Payments :
          AmountsOf(q)' = IF q = p THEN AmountsOf(q) \cup {cents} ELSE AmountsOf(q)
    BY <1>3 DEF AmountsOf
  <1>5. \A q \in Payments :
          Sequences(q)' = IF q = p THEN Sequences(q) \cup {s} ELSE Sequences(q)
    BY <1>3 DEF Sequences
  <1> QED BY <1>1, <1>2, <1>4, <1>5

\* A delivery that changes no payment keeps the invariant when it brings nothing
\* new, or an amount that is not the payment's.
LEMMA NothingAppliedKeepsInv ==
  ASSUME Inv, NEW p \in Payments, NEW s \in Sequence, NEW event \in Event,
         delivered' = delivered \cup {<<p, s, event.amount>>},
         received' \in Nat, decisions' \in [Decision -> Nat],
         UNCHANGED <<last, amount, buffers, processed, entries, raised>>,
         \/ s <= last[p] \/ buffers[p][s] # None
         \/ amount[p] # None /\ amount[p] # event.amount
  PROVE  Inv'
  <1>1. event.amount \in Amounts
    BY DEF Event
  <1>2. /\ delivered' \subseteq Payments \X Sequence \X Amounts
        /\ IsFiniteSet(delivered')
        /\ \A q \in Payments :
             /\ AmountsOf(q)' = IF q = p THEN AmountsOf(q) \cup {event.amount}
                                         ELSE AmountsOf(q)
             /\ Sequences(q)' = IF q = p THEN Sequences(q) \cup {s} ELSE Sequences(q)
    BY <1>1, OneMoreDelivery DEF Inv, Followed
  <1>3. TypeOK'
    BY <1>2 DEF Inv, TypeOK, L!LedgerType
  <1>4. PrefixThenGap' /\ L!WellFormed' /\ DebitsSettled' /\ BegunHasAmount'
    BY DEF Inv, PrefixThenGap, L!WellFormed, DebitsSettled, DebitsOf, BegunHasAmount
  <1>5. Followed'
    <2> SUFFICES ASSUME NEW q \in Payments
                 PROVE  (/\ last[q] > 0 => amount[q] \in AmountsOf(q)
                         /\ 1..last[q] \subseteq Sequences(q)
                         /\ \A n \in Sequence :
                              buffers[q][n] # None =>
                                <<q, n, buffers[q][n].amount>> \in delivered
                         /\ (\A c, d \in AmountsOf(q) : c = d) =>
                              \A n \in Sequences(q) :
                                n <= last[q] \/ buffers[q][n] # None)'
      BY <1>2 DEF Followed
    <2>1. (last[q] > 0 => amount[q] \in AmountsOf(q))'
      BY <1>2 DEF Inv, Followed
    <2>2. (1..last[q] \subseteq Sequences(q))'
      BY <1>2 DEF Inv, Followed
    <2>3. (\A n \in Sequence : buffers[q][n] # None =>
             <<q, n, buffers[q][n].amount>> \in delivered)'
      BY DEF Inv, Followed
    <2>4. ASSUME \A c, d \in AmountsOf(q)' : c = d,
                 NEW n \in Sequences(q)'
          PROVE  n <= last[q] \/ buffers[q][n] # None
      <3>1. \A c, d \in AmountsOf(q) : c = d
        BY <2>4, <1>2
      <3>2. CASE n \in Sequences(q)
        BY <3>1, <3>2 DEF Inv, Followed
      <3>3. CASE n \notin Sequences(q)
        <4>1. q = p /\ n = s
          BY <3>3, <1>2
        <4>2. ASSUME amount[p] # None, amount[p] # event.amount
              PROVE  FALSE
          <5>1. last[p] > 0
            BY <4>2 DEF Inv, BegunHasAmount, TypeOK
          <5>2. amount[p] \in AmountsOf(p)
            BY <5>1 DEF Inv, Followed
          <5> QED BY <5>2, <4>1, <4>2, <2>4, <1>2
        <4> QED BY <4>1, <4>2
      <3> QED BY <3>2, <3>3
    <2> QED BY <2>1, <2>2, <2>3, <2>4
  <1> QED BY <1>3, <1>4, <1>5 DEF Inv

\* A future event put into its free place keeps the invariant.
LEMMA BufferingKeepsInv ==
  ASSUME Inv, NEW p \in Payments, NEW s \in Sequence, NEW event \in Event,
         delivered' = delivered \cup {<<p, s, event.amount>>},
         received' \in Nat, decisions' \in [Decision -> Nat],
         UNCHANGED <<last, amount, processed, entries, raised>>,
         s > last[p] + 1,
         buffers' = [buffers EXCEPT ![p][s] = event]
  PROVE  Inv'
  <1>1. event.amount \in Amounts /\ event # None
    BY OrderingInputs DEF Event
  <1>2. /\ delivered' \subseteq Payments \X Sequence \X Amounts
        /\ IsFiniteSet(delivered')
        /\ \A q \in Payments :
             /\ AmountsOf(q)' = IF q = p THEN AmountsOf(q) \cup {event.amount}
                                         ELSE AmountsOf(q)
             /\ Sequences(q)' = IF q = p THEN Sequences(q) \cup {s} ELSE Sequences(q)
    BY <1>1, OneMoreDelivery DEF Inv, Followed
  <1>3. /\ buffers' \in [Payments -> [Sequence -> Event \cup {None}]]
        /\ \A q \in Payments, n \in Sequence :
             buffers'[q][n] = IF q = p /\ n = s THEN event ELSE buffers[q][n]
    BY DEF Inv, TypeOK
  <1>4. TypeOK'
    BY <1>2, <1>3 DEF Inv, TypeOK, L!LedgerType
  <1>5. PrefixThenGap'
    BY <1>3 DEF Inv, PrefixThenGap
  <1>6. L!WellFormed' /\ DebitsSettled' /\ BegunHasAmount'
    BY DEF Inv, L!WellFormed, DebitsSettled, DebitsOf, BegunHasAmount
  <1>7. Followed'
    <2> SUFFICES ASSUME NEW q \in Payments
                 PROVE  (/\ last[q] > 0 => amount[q] \in AmountsOf(q)
                         /\ 1..last[q] \subseteq Sequences(q)
                         /\ \A n \in Sequence :
                              buffers[q][n] # None =>
                                <<q, n, buffers[q][n].amount>> \in delivered
                         /\ (\A c, d \in AmountsOf(q) : c = d) =>
                              \A n \in Sequences(q) :
                                n <= last[q] \/ buffers[q][n] # None)'
      BY <1>2 DEF Followed
    <2>1. (last[q] > 0 => amount[q] \in AmountsOf(q))'
      BY <1>2 DEF Inv, Followed
    <2>2. (1..last[q] \subseteq Sequences(q))'
      BY <1>2 DEF Inv, Followed
    <2>3. (\A n \in Sequence : buffers[q][n] # None =>
             <<q, n, buffers[q][n].amount>> \in delivered)'
      BY <1>3 DEF Inv, Followed
    <2>4. ASSUME \A c, d \in AmountsOf(q)' : c = d,
                 NEW n \in Sequences(q)'
          PROVE  n <= last[q] \/ buffers'[q][n] # None
      <3>1. \A c, d \in AmountsOf(q) : c = d
        BY <2>4, <1>2
      <3>2. n \in Sequence
        BY <1>2 DEF Sequences
      <3>3. CASE n \in Sequences(q)
        BY <3>1, <3>2, <3>3, <1>1, <1>3 DEF Inv, Followed
      <3>4. CASE n \notin Sequences(q)
        BY <3>2, <3>4, <1>1, <1>2, <1>3
      <3> QED BY <3>3, <3>4
    <2> QED BY <2>1, <2>2, <2>3, <2>4
  <1> QED BY <1>4, <1>5, <1>6, <1>7 DEF Inv

\* What the ledger gains by an applied event: nothing, or the one debit of a
\* payment that has just completed.
LEMMA SettlingKeepsLedger ==
  ASSUME Inv, NEW p \in Payments, last[p] # COMPLETED,
         NEW final \in 0..COMPLETED, NEW cents \in Amounts,
         last' = [last EXCEPT ![p] = final],
         amount' = [amount EXCEPT ![p] = cents],
         \/ entries' = entries
         \/ /\ final = COMPLETED
            /\ \E e \in L!Entry : /\ e.entry_id = <<p, "SETTLEMENT">>
                                  /\ e.amount = cents
                                  /\ L!Accepts(entries, e)
                                  /\ entries' = Append(entries, e)
  PROVE  /\ L!LedgerType' /\ L!WellFormed' /\ DebitsSettled'
         /\ entries' = entries \/ L!Extends(entries, entries')
  <1>1. /\ \A q \in Payments : last'[q] = IF q = p THEN final ELSE last[q]
        /\ \A q \in Payments : amount'[q] = IF q = p THEN cents ELSE amount[q]
    BY DEF Inv, TypeOK
  <1>2. DebitsOf(p) = {}
    BY DEF Inv, DebitsSettled
  <1>3. entries \in Seq(L!Entry) /\ L!Canonical(entries) /\ L!UniqueIds(entries)
    BY DEF Inv, TypeOK, L!LedgerType, L!WellFormed
  <1>4. CASE entries' = entries
    <2>1. \A q \in Payments : DebitsOf(q)' = DebitsOf(q)
      BY <1>4 DEF DebitsOf
    <2>2. DebitsSettled'
      <3> SUFFICES ASSUME NEW q \in Payments, NEW i \in DebitsOf(q)'
                   PROVE  last'[q] = COMPLETED /\ entries'[i].amount = amount'[q]
        BY DEF DebitsSettled
      <3>1. i \in DebitsOf(q) /\ q # p
        BY <2>1, <1>2
      <3> QED BY <3>1, <1>1, <1>4 DEF Inv, DebitsSettled
    <2> QED BY <2>2, <1>3, <1>4 DEF L!LedgerType, L!WellFormed
  <1>5. ASSUME final = COMPLETED, NEW e \in L!Entry,
               e.entry_id = <<p, "SETTLEMENT">>, e.amount = cents,
               L!Accepts(entries, e), entries' = Append(entries, e)
        PROVE  /\ L!LedgerType' /\ L!WellFormed' /\ DebitsSettled'
               /\ L!Extends(entries, entries')
    <2>1. /\ entries' \in Seq(L!Entry)
          /\ L!Canonical(entries') /\ L!UniqueIds(entries')
          /\ L!Extends(entries, entries')
          /\ DOMAIN entries' = DOMAIN entries \cup {Len(entries) + 1}
          /\ Len(entries) + 1 \notin DOMAIN entries
          /\ \A i \in DOMAIN entries : entries'[i] = entries[i]
          /\ entries'[Len(entries) + 1] = e
      BY <1>3, <1>5, AcceptedEntry
    <2>2. DebitsSettled'
      <3> SUFFICES ASSUME NEW q \in Payments, NEW i \in DebitsOf(q)'
                   PROVE  last'[q] = COMPLETED /\ entries'[i].amount = amount'[q]
        BY DEF DebitsSettled
      <3>0. i \in DOMAIN entries' /\ entries'[i].entry_id = <<q, "SETTLEMENT">>
        BY DEF DebitsOf
      <3>1. CASE i \in DOMAIN entries
        <4>1. i \in DebitsOf(q) /\ entries'[i] = entries[i]
          BY <3>0, <3>1, <2>1 DEF DebitsOf
        <4>2. q # p
          BY <4>1, <1>2
        <4> QED BY <4>1, <4>2, <1>1 DEF Inv, DebitsSettled
      <3>2. CASE i = Len(entries) + 1
        <4>1. entries'[i] = e
          BY <3>2, <2>1
        <4>2. <<q, "SETTLEMENT">> = <<p, "SETTLEMENT">>
          BY <4>1, <3>0, <1>5
        <4>3. q = p
          BY <4>2
        <4> QED BY <4>1, <4>3, <1>1, <1>5
      <3> QED BY <3>0, <3>1, <3>2, <2>1
    <2> QED BY <2>1, <2>2 DEF L!LedgerType, L!WellFormed
  <1> QED BY <1>4, <1>5

\* An expected event keeps the invariant, with the drain that it starts.
LEMMA ApplyingKeepsInv ==
  ASSUME Inv, NEW p \in Payments, NEW s \in Sequence, NEW event \in Event,
         delivered' = delivered \cup {<<p, s, event.amount>>},
         received' \in Nat,
         s = last[p] + 1, ~Conflicts(amount[p], event.amount),
         Applied(p, s, event)
  PROVE  Inv' /\ (entries' = entries \/ L!Extends(entries, entries'))
  <1>1. event.amount \in Amounts /\ event.version \in Versions /\ TypeOK
    BY DEF Inv, Event
  <1>2. /\ delivered' \subseteq Payments \X Sequence \X Amounts
        /\ IsFiniteSet(delivered')
        /\ \A q \in Payments :
             /\ AmountsOf(q)' = IF q = p THEN AmountsOf(q) \cup {event.amount}
                                         ELSE AmountsOf(q)
             /\ Sequences(q)' = IF q = p THEN Sequences(q) \cup {s} ELSE Sequences(q)
    BY <1>1, OneMoreDelivery DEF Inv, Followed
  <1>3. PICK final \in s..COMPLETED, refused \in BOOLEAN :
          /\ refused => final = COMPLETED
          /\ decisions' =
               [decisions EXCEPT
                  !["processed"] = @ + final - s + 1 - (IF refused THEN 1 ELSE 0),
                  !["rejected"] = @ + (IF final < COMPLETED /\ buffers[p][final + 1] # None
                                       THEN 1 ELSE 0)]
          /\ raised' = IF refused THEN raised \cup {p} ELSE raised
          /\ \A n \in (s + 1)..final : /\ buffers[p][n] \in Event
                                       /\ buffers[p][n].amount = event.amount
          /\ final < COMPLETED => \/ buffers[p][final + 1] = None
                                  \/ buffers[p][final + 1].amount # event.amount
          /\ last' = [last EXCEPT ![p] = final]
          /\ amount' = [amount EXCEPT ![p] = event.amount]
          /\ processed' = processed \cup AppliedIds(p, s, event, final)
          /\ buffers' = Cleared(p, s + 1, final)
          /\ \/ entries' = entries
             \/ /\ final = COMPLETED
                /\ \E e \in L!Entry : /\ e.entry_id = <<p, "SETTLEMENT">>
                                      /\ e.amount = event.amount
                                      /\ L!Accepts(entries, e)
                                      /\ entries' = Append(entries, e)
    BY SMTT(30), <1>1, AppliedStep
  <1>4. /\ s \in 1..4 /\ final \in s..4 /\ COMPLETED = 4 /\ Sequence = 1..4
        /\ last[p] \in 0..3 /\ last[p] + 1 = s
    BY <1>1 DEF Sequence, COMPLETED, TypeOK
  <1>5. /\ \A q \in Payments : last'[q] = IF q = p THEN final ELSE last[q]
        /\ \A q \in Payments : amount'[q] = IF q = p THEN event.amount ELSE amount[q]
        /\ last' \in [Payments -> 0..COMPLETED]
        /\ amount' \in [Payments -> Amounts \cup {None}]
    <2>1. /\ last \in [Payments -> 0..COMPLETED]
          /\ amount \in [Payments -> Amounts \cup {None}]
      BY <1>1 DEF TypeOK
    <2>2. final \in 0..COMPLETED
      BY <1>4
    <2>3. /\ last' = [last EXCEPT ![p] = final]
          /\ amount' = [amount EXCEPT ![p] = event.amount]
      BY <1>3
    <2> QED BY <1>1, <2>1, <2>2, <2>3
  <1>6. /\ buffers' \in [Payments -> [Sequence -> Event \cup {None}]]
        /\ \A q \in Payments, n \in Sequence :
             buffers'[q][n] = IF q = p /\ n \in (s + 1)..(final + 1)
                              THEN None ELSE buffers[q][n]
    BY <1>1, <1>3, ClearedPlaces
  <1>7. \A q, n, v :
          <<q, n, v>> \in processed' <=>
            \/ <<q, n, v>> \in processed
            \/ /\ q = p /\ n \in s..final
               /\ v = IF n = s THEN event.version ELSE buffers[p][n].version
    <2>1. \A q, n, v : <<q, n, v>> \in AppliedIds(p, s, event, final) <=>
                         /\ q = p /\ n \in s..final
                         /\ v = IF n = s THEN event.version ELSE buffers[p][n].version
      <3>1. \A n : n \in s..final <=> n = s \/ n \in (s + 1)..final
        BY <1>4
      <3>2. s \notin (s + 1)..final
        BY <1>4
      <3> QED BY <3>1, <3>2 DEF AppliedIds
    <2>2. processed' = processed \cup AppliedIds(p, s, event, final)
      BY <1>3
    <2> QED BY <2>1, <2>2
  <1>8. \A n \in (s + 1)..final : buffers[p][n].version \in Versions
    BY <1>3 DEF Event
  <1>9. /\ L!LedgerType' /\ L!WellFormed' /\ DebitsSettled'
        /\ entries' = entries \/ L!Extends(entries, entries')
    <2>1. last[p] # COMPLETED /\ final \in 0..COMPLETED
      BY <1>4
    <2>2. /\ last' = [last EXCEPT ![p] = final]
          /\ amount' = [amount EXCEPT ![p] = event.amount]
          /\ \/ entries' = entries
             \/ /\ final = COMPLETED
                /\ \E e \in L!Entry : /\ e.entry_id = <<p, "SETTLEMENT">>
                                      /\ e.amount = event.amount
                                      /\ L!Accepts(entries, e)
                                      /\ entries' = Append(entries, e)
      BY <1>3
    <2> QED BY <2>1, <2>2, <1>1, SettlingKeepsLedger
  <1>10. TypeOK'
    <2>1. processed' \subseteq EventId
      <3>1. AppliedIds(p, s, event, final) \subseteq EventId
        BY <1>1, <1>4, <1>8 DEF AppliedIds, EventId
      <3> QED BY <3>1, <1>1, <1>3 DEF TypeOK
    <2>2. decisions' \in [Decision -> Nat] /\ raised' \subseteq Payments
      <3> DEFINE r == IF refused THEN 1 ELSE 0
                 c == IF final < COMPLETED /\ buffers[p][final + 1] # None
                      THEN 1 ELSE 0
      <3>1. /\ decisions' = [decisions EXCEPT !["processed"] = @ + final - s + 1 - r,
                                              !["rejected"] = @ + c]
            /\ raised' = IF refused THEN raised \cup {p} ELSE raised
        BY <1>3
      <3>2. r \in {0, 1} /\ c \in {0, 1}
        OBVIOUS
      <3> HIDE DEF r, c
      <3>3. decisions' \in [Decision -> Nat]
        BY <3>1, <3>2, <1>1, CountsOfApplied
      <3> QED BY <3>1, <3>3, <1>1 DEF TypeOK
    <2> QED BY <2>1, <2>2, <1>2, <1>5, <1>6, <1>9 DEF TypeOK
  <1>11. PrefixThenGap'
    <2> SUFFICES ASSUME NEW q \in Payments, NEW n \in Sequence
                 PROVE  /\ n <= last'[q] =>
                             \E v \in Versions :
                               {w \in Versions : <<q, n, w>> \in processed'} = {v}
                        /\ ~(n <= last'[q]) =>
                             \A v \in Versions : <<q, n, v>> \notin processed'
                        /\ buffers'[q][n] # None => n > last'[q] + 1
      BY DEF PrefixThenGap
    <2>1. /\ n <= last[q] =>
               \E v \in Versions : {w \in Versions : <<q, n, w>> \in processed} = {v}
          /\ ~(n <= last[q]) => \A v \in Versions : <<q, n, v>> \notin processed
          /\ buffers[q][n] # None => n > last[q] + 1
      BY DEF Inv, PrefixThenGap
    <2>2. last[q] \in 0..4 /\ n \in 1..4
      BY <1>1, <1>4 DEF TypeOK
    <2>3. CASE q # p
      BY <2>1, <2>3, <1>5, <1>6, <1>7
    <2>4. CASE q = p /\ n < s
      <3>1. \A v : <<q, n, v>> \in processed' <=> <<q, n, v>> \in processed
        BY <2>4, <2>2, <1>4, <1>7
      <3>2. n <= last[q] /\ n <= last'[q] /\ buffers[q][n] = None
        BY <2>4, <2>1, <2>2, <1>4, <1>5
      <3>3. buffers'[q][n] = None
        BY <3>2, <1>6
      <3> QED BY <3>1, <3>2, <3>3, <2>1
    <2>5. CASE q = p /\ n \in s..final
      <3> DEFINE v == IF n = s THEN event.version ELSE buffers[p][n].version
      <3>1. v \in Versions
        BY <2>5, <1>1, <1>4, <1>8
      <3>2. \A w \in Versions : <<q, n, w>> \notin processed
        BY <2>5, <2>1, <1>4
      <3>3. \A w \in Versions : <<q, n, w>> \in processed' <=> w = v
        BY <3>2, <2>5, <1>7
      <3>4. {w \in Versions : <<q, n, w>> \in processed'} = {v}
        BY <3>1, <3>3
      <3>5. n <= last'[q]
        BY <2>5, <1>4, <1>5
      <3>6. n \in (s + 1)..(final + 1) \/ n = last[q] + 1
        BY <2>5, <1>4
      <3>7. buffers'[q][n] = None
        BY <3>6, <2>1, <2>2, <2>5, <1>6
      <3> QED BY <3>1, <3>4, <3>5, <3>7
    <2>6. CASE q = p /\ n > final
      <3>1. \A w : <<q, n, w>> \in processed' <=> <<q, n, w>> \in processed
        BY <2>6, <2>2, <1>4, <1>7
      <3>2. ~(n <= last[q]) /\ ~(n <= last'[q])
        BY <2>6, <2>2, <1>4, <1>5
      <3>3. buffers'[q][n] # None => n > final + 1
        BY <2>6, <2>2, <1>4, <1>6
      <3> QED BY <3>1, <3>2, <3>3, <2>1, <2>6, <1>5
    <2> QED BY <2>2, <2>3, <2>4, <2>5, <2>6, <1>4
  <1>12. BegunHasAmount'
    <2>1. event.amount # None
      BY <1>1, OrderingInputs
    <2> QED BY <2>1, <1>4, <1>5 DEF Inv, BegunHasAmount
  <1>13. Followed'
    <2> SUFFICES ASSUME NEW q \in Payments
                 PROVE  (/\ last[q] > 0 => amount[q] \in AmountsOf(q)
                         /\ 1..last[q] \subseteq Sequences(q)
                         /\ \A n \in Sequence :
                              buffers[q][n] # None =>
                                <<q, n, buffers[q][n].amount>> \in delivered
                         /\ (\A c, d \in AmountsOf(q) : c = d) =>
                              \A n \in Sequences(q) :
                                n <= last[q] \/ buffers[q][n] # None)'
      BY <1>2 DEF Followed
    <2>o. /\ last[q] > 0 => amount[q] \in AmountsOf(q)
          /\ 1..last[q] \subseteq Sequences(q)
          /\ \A n \in Sequence : buffers[q][n] # None =>
                                 <<q, n, buffers[q][n].amount>> \in delivered
          /\ (\A c, d \in AmountsOf(q) : c = d) =>
               \A n \in Sequences(q) : n <= last[q] \/ buffers[q][n] # None
      BY DEF Inv, Followed
    <2>1. (last[q] > 0 => amount[q] \in AmountsOf(q))'
      BY <2>o, <1>2, <1>5
    <2>2. (1..last[q] \subseteq Sequences(q))'
      <3> SUFFICES ASSUME NEW n \in 1..last'[q] PROVE n \in Sequences(q)'
        OBVIOUS
      <3>1. CASE q # p
        BY <3>1, <2>o, <1>2, <1>5
      <3>2. CASE q = p /\ n < s
        <4>1. n \in 1..last[q]
          BY <3>2, <1>4, <1>5
        <4> QED BY <4>1, <2>o, <1>2
      <3>3. CASE q = p /\ n = s
        BY <3>3, <1>2
      <3>4. CASE q = p /\ n \in (s + 1)..final
        <4>1. buffers[q][n] # None /\ n \in Sequence
          BY <3>4, <1>3, <1>4, OrderingInputs
        <4>2. buffers[q][n].amount \in Amounts
          BY <3>4, <1>3, <1>1
        <4> QED BY <4>1, <4>2, <2>o, <1>2 DEF Sequences
      <3> QED BY <3>1, <3>2, <3>3, <3>4, <1>4, <1>5
    <2>3. (\A n \in Sequence : buffers[q][n] # None =>
             <<q, n, buffers[q][n].amount>> \in delivered)'
      BY <2>o, <1>6
    <2>4. ASSUME \A c, d \in AmountsOf(q)' : c = d,
                 NEW n \in Sequences(q)'
          PROVE  n <= last'[q] \/ buffers'[q][n] # None
      <3>1. \A c, d \in AmountsOf(q) : c = d
        BY <2>4, <1>2
      <3>2. n \in 1..4 /\ n \in Sequence
        BY <1>2, <1>4 DEF Sequences
      <3>3. CASE q # p
        BY <3>1, <3>2, <3>3, <2>o, <1>2, <1>5, <1>6
      <3>4. CASE q = p /\ n <= final
        BY <3>4, <1>5
      <3>5. CASE q = p /\ n > final
        <4>1. n \in Sequences(q) /\ ~(n <= last[q])
          BY <3>2, <3>5, <1>2, <1>4
        <4>2. buffers[q][n] # None
          BY <4>1, <3>1, <2>o
        <4>3. n # final + 1
          <5> SUFFICES ASSUME n = final + 1 PROVE FALSE
            OBVIOUS
          <5>1. buffers[p][n].amount # event.amount
            BY <4>2, <3>2, <3>5, <1>3, <1>4
          <5>2. <<p, n, buffers[p][n].amount>> \in delivered
            BY <4>2, <3>2, <3>5, <2>o
          <5>3. buffers[p][n].amount \in AmountsOf(p)
            BY <5>2, <3>2, <1>1 DEF AmountsOf, TypeOK
          <5> QED BY <5>1, <5>3, <2>4, <3>5, <1>2
        <4>4. n \notin (s + 1)..(final + 1)
          BY <4>3, <3>2, <3>5, <1>4
        <4> QED BY <4>2, <4>4, <3>2, <1>6
      <3> QED BY <3>2, <3>3, <3>4, <3>5, <1>4
    <2> QED BY <2>1, <2>2, <2>3, <2>4
  <1> QED BY <1>9, <1>10, <1>11, <1>12, <1>13 DEF Inv

\* What Next delivers.
LEMMA NextDelivers ==
  ASSUME Next, received \in Nat
  PROVE  \E p \in Payments, s \in Sequence, event \in Event : receive(p, s, event)
  <1>1. PICK p \in Payments, s \in Sequence, version \in Versions, cents \in Amounts :
          receive(p, s, [version |-> version, amount |-> cents,
                         arrival_order |-> IF s = COMPLETED THEN received + 1
                                                            ELSE 0])
    BY DEF Next
  <1>2. [version |-> version, amount |-> cents,
         arrival_order |-> IF s = COMPLETED THEN received + 1 ELSE 0] \in Event
    BY DEF Event
  <1> QED BY <1>1, <1>2

\* Every delivery keeps the invariant, and changes the ledger by an accepted append.
LEMMA InvContinues ==
  ASSUME Inv, [Next]_vars
  PROVE  Inv' /\ (entries' = entries \/ L!Extends(entries, entries'))
  <1>1. CASE UNCHANGED vars
    <2>1. TypeOK'
      BY <1>1 DEF vars, Inv, TypeOK, L!LedgerType
    <2>2. PrefixThenGap' /\ BegunHasAmount'
      BY <1>1 DEF vars, Inv, PrefixThenGap, BegunHasAmount
    <2>3. L!WellFormed' /\ DebitsSettled'
      BY <1>1 DEF vars, Inv, L!WellFormed, DebitsSettled, DebitsOf
    <2>4. Followed'
      BY <1>1 DEF vars, Inv, Followed, AmountsOf, Sequences
    <2> QED BY <2>1, <2>2, <2>3, <2>4, <1>1 DEF vars, Inv
  <1>2. CASE Next
    <2>1. received \in Nat /\ received + 1 \in Nat
      BY DEF Inv, TypeOK
    <2>2. PICK p \in Payments, s \in Sequence, event \in Event : receive(p, s, event)
      BY <1>2, <2>1, NextDelivers
    <2>3. /\ received' \in Nat
          /\ delivered' = delivered \cup {<<p, s, event.amount>>}
      BY <2>1, <2>2 DEF receive
    <2>4. \A d \in Decision : Count(d, 1) \in [Decision -> Nat]
      BY DEF Inv, TypeOK, Count
    <2>5. /\ last[p] \in 0..4 /\ s \in 1..4
      BY DEF Inv, TypeOK, Sequence, COMPLETED
    <2>6. CASE IsDuplicate(p, s, event.version) /\ Refused("duplicate")
      <3>1. s <= last[p]
        BY <2>6 DEF Inv, PrefixThenGap, IsDuplicate, Event
      <3>2. decisions' \in [Decision -> Nat]
        BY <2>4, <2>6 DEF Refused, Decision
      <3> QED BY <3>1, <3>2, <2>3, <2>6, NothingAppliedKeepsInv DEF Refused
    <2>7. CASE IsStale(p, s) /\ Refused("stale")
      <3>1. s <= last[p]
        BY <2>7 DEF IsStale
      <3>2. decisions' \in [Decision -> Nat]
        BY <2>4, <2>7 DEF Refused, Decision
      <3> QED BY <3>1, <3>2, <2>3, <2>7, NothingAppliedKeepsInv DEF Refused
    <2>8. CASE IsFuture(p, s) /\ Buffered(p, s, event)
      <3>1. CASE buffers[p][s] # None
        <4>1. Refused("rejected")
          BY <2>8, <3>1 DEF Buffered
        <4>2. decisions' \in [Decision -> Nat]
          BY <2>4, <4>1 DEF Refused, Decision
        <4> QED BY <3>1, <4>1, <4>2, <2>3, NothingAppliedKeepsInv DEF Refused
      <3>2. CASE buffers[p][s] = None
        <4>1. /\ buffers' = [buffers EXCEPT ![p][s] = event]
              /\ decisions' = Count("buffered", 1)
              /\ UNCHANGED <<last, amount, processed, entries, raised>>
          BY <2>8, <3>2 DEF Buffered
        <4>2. decisions' \in [Decision -> Nat]
          BY <2>4, <4>1 DEF Decision
        <4>3. s > last[p] + 1
          BY <2>8 DEF IsFuture
        <4> QED BY <4>1, <4>2, <4>3, <2>3, BufferingKeepsInv
      <3> QED BY <3>1, <3>2
    <2>9. CASE Conflicts(amount[p], event.amount) /\ Refused("rejected")
      <3>1. amount[p] # None /\ amount[p] # event.amount
        BY <2>9 DEF Conflicts
      <3>2. decisions' \in [Decision -> Nat]
        BY <2>4, <2>9 DEF Refused, Decision
      <3> QED BY <3>1, <3>2, <2>3, <2>9, NothingAppliedKeepsInv DEF Refused
    <2>10. CASE /\ ~IsStale(p, s) /\ ~IsFuture(p, s)
                /\ ~Conflicts(amount[p], event.amount)
                /\ Applied(p, s, event)
      <3>1. s = last[p] + 1
        BY <2>5, <2>10 DEF IsStale, IsFuture
      <3> QED BY <3>1, <2>3, <2>10, ApplyingKeepsInv
    <2> QED BY <2>2, <2>6, <2>7, <2>8, <2>9, <2>10 DEF receive
  <1> QED BY <1>1, <1>2

\* The invariant always holds.
THEOREM Invariant == Spec => []Inv
  <1>1. Inv /\ [Next]_vars => Inv'
    BY InvContinues
  <1> QED BY InvStarts, <1>1, PTL DEF Spec
-----------------------------------------------------------------------------
(***************************************************************************)
(* What follows from it.                                                   *)
(***************************************************************************)
\* The processor's state always has its type.
THEOREM TypeCorrect == Spec => []TypeOK
  <1>1. Inv => TypeOK
    BY DEF Inv
  <1> QED BY <1>1, Invariant, PTL

\* In whatever order events arrive, again and in rival versions, what has been applied
\* is one event for each sequence of a prefix, and nothing applicable waits.
THEOREM AppliedInOrder == Spec => []PrefixThenGap
  <1>1. Inv => PrefixThenGap
    BY DEF Inv
  <1> QED BY <1>1, Invariant, PTL

\* A payment has at most one debit, of its amount, and only when it has completed.
THEOREM DebitedWhenCompleted == Spec => []DebitOnlyIfCompleted
  <1>1. Inv => DebitOnlyIfCompleted
    <2> SUFFICES ASSUME Inv, NEW p \in Payments
                 PROVE  Cardinality(DebitsOf(p)) <= 1
      BY DEF Inv, DebitsSettled, DebitOnlyIfCompleted
    <2>1. \A i, j \in DebitsOf(p) : i = j
      BY DEF Inv, L!WellFormed, L!UniqueIds, DebitsOf
    <2> QED BY <2>1, NoTwo
  <1> QED BY <1>1, Invariant, PTL

\* A payment whose events agree on its amount stands where the longest prefix of
\* what was delivered ends, whatever the order of the deliveries.
THEOREM OrderOfDelivery == Spec => []OrderIsIrrelevant
  <1>1. Inv => OrderIsIrrelevant
    <2> SUFFICES ASSUME Inv, NEW p \in Payments, Cardinality(AmountsOf(p)) <= 1
                 PROVE  last[p] = Max({n \in 0..COMPLETED : 1..n \subseteq Sequences(p)})
      BY DEF OrderIsIrrelevant
    <2> DEFINE Prefixes == {n \in 0..COMPLETED : 1..n \subseteq Sequences(p)}
    <2>1. IsFiniteSet(AmountsOf(p))
      <3> DEFINE f == [d \in delivered |-> d[3]]
                 All == {f[d] : d \in delivered}
      <3>1. f \in Surjection(delivered, All)
        BY DEF Surjection
      <3>2. IsFiniteSet(All)
        BY <3>1, FS_Surjection DEF Inv, Followed
      <3>3. AmountsOf(p) \subseteq All
        <4> SUFFICES ASSUME NEW c \in AmountsOf(p) PROVE c \in All
          OBVIOUS
        <4>1. PICK s \in Sequence : <<p, s, c>> \in delivered
          BY DEF AmountsOf
        <4>2. f[<<p, s, c>>] = c
          BY <4>1
        <4> QED BY <4>1, <4>2
      <3> HIDE DEF All
      <3> QED BY <3>2, <3>3, FS_Subset
    <2>2. \A c, d \in AmountsOf(p) : c = d
      BY <2>1, AtMostOne
    <2>3. last[p] \in 0..4 /\ COMPLETED = 4 /\ Sequence = 1..4
      BY DEF Inv, TypeOK, Sequence, COMPLETED
    <2>4. last[p] \in Prefixes
      BY <2>3 DEF Inv, Followed
    <2>5. \A n \in Prefixes : n <= last[p]
      <3> SUFFICES ASSUME NEW n \in 0..4, 1..n \subseteq Sequences(p), n > last[p]
                   PROVE  FALSE
        BY <2>3
      <3>1. last[p] + 1 \in 1..n /\ last[p] + 1 \in Sequence
        BY <2>3
      <3>2. last[p] + 1 \in Sequences(p) /\ ~(last[p] + 1 <= last[p])
        BY <3>1, <2>3
      <3>3. \A k \in Sequences(p) : k <= last[p] \/ buffers[p][k] # None
        BY <2>2 DEF Inv, Followed
      <3>4. buffers[p][last[p] + 1] # None
        BY <3>2, <3>3
      <3> QED BY <3>1, <3>4, <2>3 DEF Inv, PrefixThenGap
    <2>6. \A n \in Prefixes : n \in Int
      BY <2>3
    <2> HIDE DEF Prefixes
    <2>7. \A x \in Prefixes : (\A y \in Prefixes : x >= y) => x = last[p]
      BY <2>4, <2>5, <2>6
    <2>8. last[p] = Max(Prefixes)
      BY <2>4, <2>5, <2>6, <2>7 DEF Max
    <2> QED BY <2>8 DEF Prefixes
  <1> QED BY <1>1, Invariant, PTL

\* The processor keeps the contract of the ledger that it is given.
THEOREM KeepsLedgerContract == Spec => LedgerContract
  <1>1. Inv => L!LedgerType /\ L!WellFormed
    BY DEF Inv, TypeOK
  <1>2. Inv /\ [Next]_vars => [L!LedgerType' /\ L!Extends(entries, entries')]_entries
    <2> SUFFICES ASSUME Inv, [Next]_vars
                 PROVE  [L!LedgerType' /\ L!Extends(entries, entries')]_entries
      OBVIOUS
    <2>1. Inv' /\ (entries' = entries \/ L!Extends(entries, entries'))
      BY InvContinues
    <2> QED BY <2>1 DEF Inv, TypeOK
  <1>3. Spec => []Inv
    BY Invariant
  <1>4. Init => L!LedgerType /\ L!WellFormed
    BY InvStarts, <1>1
  <1> QED BY <1>1, <1>2, <1>3, <1>4, PTL DEF Spec, LedgerContract, L!LedgerContract
-----------------------------------------------------------------------------
(***************************************************************************)
(* The account of the deliveries.                                          *)
(***************************************************************************)
\* A completion whose settlement the ledger refused has completed its payment, so a
\* payment raises once; what waits was delivered, so it is finite.
Accounted == /\ IsFiniteSet(Waiting) /\ IsFiniteSet(raised)
             /\ \A p \in raised : last[p] = COMPLETED
             /\ EveryDeliveryDecided

\* What the drain takes from the buffer: the events from first to final and the one
\* after them, if one waits there.
LEMMA WaitingAfterDrain ==
  ASSUME TypeOK, IsFiniteSet(Waiting), NEW p \in Payments, NEW s \in Sequence,
         NEW final \in s..COMPLETED, NEW c \in {0, 1},
         \A n \in (s + 1)..final : buffers[p][n] # None,
         c = 1 <=> final < COMPLETED /\ buffers[p][final + 1] # None,
         buffers' = Cleared(p, s + 1, final)
  PROVE  /\ IsFiniteSet(Waiting')
         /\ Cardinality(Waiting') = Cardinality(Waiting) - (final + c - s)
  <1> DEFINE Gone == {p} \X ((s + 1)..(final + c))
  <1>1. /\ s \in 1..4 /\ final \in s..4 /\ COMPLETED = 4 /\ Sequence = 1..4
    BY DEF Sequence, COMPLETED
  <1>2. \A n \in Sequence : n \in (s + 1)..(final + 1) =>
          (buffers[p][n] # None <=> n \in (s + 1)..(final + c))
    <2> SUFFICES ASSUME NEW n \in 1..4, n \in (s + 1)..(final + 1)
                 PROVE  buffers[p][n] # None <=> n \in (s + 1)..(final + c)
      BY <1>1
    <2>1. CASE n \in (s + 1)..final
      BY <2>1, <1>1
    <2>2. CASE n = final + 1
      BY <2>2, <1>1
    <2> QED BY <2>1, <2>2, <1>1
  <1>3. (s + 1)..(final + c) \subseteq Sequence
                               /\ (s + 1)..(final + c) \subseteq (s + 1)..(final + 1)
    BY <1>1
  <1>4. Gone \subseteq Waiting
    BY <1>2, <1>3 DEF Waiting
  <1>5. \A q \in Payments, n \in Sequence :
          buffers'[q][n] = IF q = p /\ n \in (s + 1)..(final + 1)
                           THEN None ELSE buffers[q][n]
    BY ClearedPlaces
  <1>6. Waiting' = Waiting \ Gone
    <2>1. \A q \in Payments, n \in Sequence :
            buffers'[q][n] # None <=>
              buffers[q][n] # None /\ ~(q = p /\ n \in (s + 1)..(final + c))
      BY <1>2, <1>3, <1>5
    <2> QED BY <2>1 DEF Waiting
  <1>7. IsFiniteSet(Gone) /\ Cardinality(Gone) = final + c - s
    <2>1. /\ IsFiniteSet((s + 1)..(final + c))
          /\ Cardinality((s + 1)..(final + c)) = final + c - s
      BY <1>1, FS_Interval
    <2>2. IsFiniteSet({p}) /\ Cardinality({p}) = 1
      BY FS_Singleton
    <2>3. /\ IsFiniteSet(Gone)
          /\ Cardinality(Gone) = Cardinality({p}) * Cardinality((s + 1)..(final + c))
      BY <2>1, <2>2, FS_Product
    <2> QED BY <2>1, <2>2, <2>3, <1>1
  <1>8. Waiting \cap Gone = Gone
    BY <1>4
  <1> HIDE DEF Gone
  <1>9. /\ IsFiniteSet(Waiting \ Gone)
        /\ Cardinality(Waiting \ Gone) = Cardinality(Waiting) - Cardinality(Waiting \cap Gone)
    BY FS_Difference
  <1> QED BY <1>6, <1>7, <1>8, <1>9

\* Every delivery adds one to one count, one waiting event or one refused completion.
LEMMA AccountContinues ==
  ASSUME Inv, Accounted, [Next]_vars
  PROVE  Accounted'
  <1>t. /\ decisions \in [Decision -> Nat] /\ received \in Nat
        /\ Cardinality(Waiting) \in Nat /\ Cardinality(raised) \in Nat
    BY FS_CardinalityType DEF Inv, TypeOK, Accounted
  <1>1. CASE UNCHANGED vars
    <2>1. Waiting' = Waiting
      BY <1>1 DEF vars, Waiting
    <2> QED BY <2>1, <1>1 DEF vars, Accounted, EveryDeliveryDecided
  <1>2. ASSUME Refused("stale") \/ Refused("duplicate") \/ Refused("rejected"),
               received' = received + 1
        PROVE  Accounted'
    <2>1. Waiting' = Waiting /\ raised' = raised /\ last' = last
      BY <1>2 DEF Refused, Waiting
    <2>2. decisions'["processed"] + decisions'["stale"] + decisions'["duplicate"]
            + decisions'["rejected"]
          = decisions["processed"] + decisions["stale"] + decisions["duplicate"]
            + decisions["rejected"] + 1
      BY <1>2, <1>t DEF Refused, Count, Decision
    <2>3. /\ decisions'["processed"] \in Nat /\ decisions'["stale"] \in Nat
          /\ decisions'["duplicate"] \in Nat /\ decisions'["rejected"] \in Nat
      BY <1>2, <1>t DEF Refused, Count, Decision
    <2> QED BY <2>1, <2>2, <2>3, <1>2, <1>t DEF Accounted, EveryDeliveryDecided, Decision
  <1>3. CASE Next
    <2>1. PICK p \in Payments, s \in Sequence, event \in Event : receive(p, s, event)
      BY <1>3, <1>t, NextDelivers
    <2>2. received' = received + 1
      BY <2>1 DEF receive
    <2>3. last[p] \in 0..4 /\ s \in 1..4 /\ Sequence = 1..4 /\ COMPLETED = 4
      BY DEF Inv, TypeOK, Sequence, COMPLETED
    <2>4. CASE Buffered(p, s, event)
      <3>1. CASE buffers[p][s] # None
        BY <3>1, <2>2, <2>4, <1>2 DEF Buffered
      <3>2. CASE buffers[p][s] = None
        <4>1. /\ buffers' = [buffers EXCEPT ![p][s] = event]
              /\ decisions' = Count("buffered", 1)
              /\ UNCHANGED <<last, raised>>
          BY <2>4, <3>2 DEF Buffered
        <4>2. event # None
          BY OrderingInputs
        <4>3. \A q \in Payments, n \in Sequence :
                buffers'[q][n] = IF q = p /\ n = s THEN event ELSE buffers[q][n]
          BY <4>1 DEF Inv, TypeOK
        <4>4. Waiting' = Waiting \cup {<<p, s>>} /\ <<p, s>> \notin Waiting
          BY <4>2, <4>3, <3>2 DEF Waiting
        <4>5. /\ IsFiniteSet(Waiting')
              /\ Cardinality(Waiting') = Cardinality(Waiting) + 1
          BY <4>4, FS_AddElement DEF Accounted
        <4>6. \A d \in {"processed", "stale", "duplicate", "rejected"} :
                decisions'[d] = decisions[d] /\ decisions[d] \in Nat
          BY <4>1, <1>t DEF Count, Decision
        <4> QED BY <4>1, <4>5, <4>6, <2>2, <1>t DEF Accounted, EveryDeliveryDecided
      <3> QED BY <3>1, <3>2
    <2>5. CASE ~IsStale(p, s) /\ ~IsFuture(p, s) /\ Applied(p, s, event)
      <3>1. s = last[p] + 1
        BY <2>3, <2>5 DEF IsStale, IsFuture
      <3>2. PICK final \in s..COMPLETED, refused \in BOOLEAN :
              /\ refused => final = COMPLETED
              /\ decisions' =
                   [decisions EXCEPT
                      !["processed"] = @ + final - s + 1 - (IF refused THEN 1 ELSE 0),
                      !["rejected"] = @ + (IF /\ final < COMPLETED
                                              /\ buffers[p][final + 1] # None
                                           THEN 1 ELSE 0)]
              /\ raised' = IF refused THEN raised \cup {p} ELSE raised
              /\ \A n \in (s + 1)..final : buffers[p][n] \in Event
              /\ last' = [last EXCEPT ![p] = final]
              /\ buffers' = Cleared(p, s + 1, final)
        BY <2>5, AppliedStep DEF Inv
      <3> DEFINE r == IF refused THEN 1 ELSE 0
                 c == IF final < COMPLETED /\ buffers[p][final + 1] # None
                      THEN 1 ELSE 0
      <3>3. /\ r \in {0, 1} /\ c \in {0, 1}
            /\ r = 1 <=> refused
            /\ c = 1 <=> final < COMPLETED /\ buffers[p][final + 1] # None
            /\ decisions' = [decisions EXCEPT !["processed"] = @ + final - s + 1 - r,
                                              !["rejected"] = @ + c]
        BY <3>2
      <3> HIDE DEF r, c
      <3>4. /\ decisions'["processed"] = decisions["processed"] + final - s + 1 - r
            /\ decisions'["rejected"] = decisions["rejected"] + c
            /\ \A d \in {"stale", "duplicate"} : decisions'[d] = decisions[d]
        BY <3>3, CountsOfApplied DEF Inv
      <3>5. \A n \in (s + 1)..final : buffers[p][n] # None
        BY <3>2, OrderingInputs
      <3>6. /\ IsFiniteSet(Waiting')
            /\ Cardinality(Waiting') = Cardinality(Waiting) - (final + c - s)
        BY <3>2, <3>3, <3>5, WaitingAfterDrain DEF Inv, Accounted
      <3>7. p \notin raised
        BY <3>1, <2>3 DEF Accounted
      <3>8. /\ IsFiniteSet(raised')
            /\ Cardinality(raised') = Cardinality(raised) + r
        <4>1. IsFiniteSet(raised \cup {p})
                /\ Cardinality(raised \cup {p}) = Cardinality(raised) + 1
          BY <3>7, FS_AddElement DEF Accounted
        <4> QED BY <4>1, <3>2, <3>3, <1>t DEF Accounted
      <3>9. \A q \in raised' : last'[q] = COMPLETED
        <4>1. \A q \in Payments : last'[q] = IF q = p THEN final ELSE last[q]
          BY <3>2 DEF Inv, TypeOK
        <4> QED BY <4>1, <3>2, <3>7 DEF Accounted, Inv, TypeOK
      <3>10. /\ decisions["processed"] \in Nat /\ decisions["rejected"] \in Nat
             /\ decisions["stale"] \in Nat /\ decisions["duplicate"] \in Nat
             /\ final \in Int /\ s \in Int /\ r \in Int /\ c \in Int
        BY <1>t, <2>3, <3>3 DEF Decision
      <3>11. EveryDeliveryDecided'
        <4>1. received = decisions["processed"] + decisions["stale"]
                         + decisions["duplicate"] + decisions["rejected"]
                         + Cardinality(Waiting) + Cardinality(raised)
          BY DEF Accounted, EveryDeliveryDecided
        <4>2. decisions'["stale"] = decisions["stale"]
                /\ decisions'["duplicate"] = decisions["duplicate"]
          BY <3>4
        <4>3. received' = decisions'["processed"] + decisions'["stale"]
                          + decisions'["duplicate"] + decisions'["rejected"]
                          + Cardinality(Waiting') + Cardinality(raised')
          BY <4>1, <4>2, <3>4, <3>6, <3>8, <3>10, <2>2, <1>t
        <4> QED BY <4>3 DEF EveryDeliveryDecided
      <3> QED BY <3>6, <3>8, <3>9, <3>11 DEF Accounted
    <2> QED BY <2>1, <2>2, <2>4, <2>5, <1>2 DEF receive
  <1> QED BY <1>1, <1>3

\* Every delivery is applied, refused, still waiting or raised, and counted once.
THEOREM DeliveriesAccounted == Spec => []EveryDeliveryDecided
  <1>1. Init => Accounted
    <2> SUFFICES ASSUME Init PROVE Accounted
      OBVIOUS
    <2>1. Waiting = {} /\ raised = {}
      BY DEF Init, Waiting
    <2>2. /\ IsFiniteSet(Waiting) /\ Cardinality(Waiting) = 0
          /\ IsFiniteSet(raised) /\ Cardinality(raised) = 0
      BY <2>1, FS_EmptySet
    <2>3. \A d \in Decision : decisions[d] = 0
      BY DEF Init
    <2>4. EveryDeliveryDecided
      BY <2>2, <2>3 DEF EveryDeliveryDecided, Decision, Init
    <2> QED BY <2>1, <2>2, <2>4 DEF Accounted
  <1>2. Inv /\ Accounted /\ [Next]_vars => Accounted'
    BY AccountContinues
  <1>3. Accounted => EveryDeliveryDecided
    BY DEF Accounted
  <1> QED BY <1>1, <1>2, <1>3, Invariant, PTL DEF Spec
=============================================================================
