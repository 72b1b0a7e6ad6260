----------------------- MODULE AccountWriters_proofs -----------------------
(***************************************************************************)
(* Proofs about the synchronous writers of the ledger, for any number of   *)
(* accounts, requests, keys and amounts and for any order of the calls.    *)
(***************************************************************************)
EXTENDS AccountWriters, DataLemmas

-----------------------------------------------------------------------------
(***************************************************************************)
(* The ledger.                                                             *)
(***************************************************************************)
\* An accepted entry leaves a well-formed ledger well formed, and is a step of
\* the ledger's contract.
LEMMA AcceptedEntry ==
  ASSUME NEW s \in Seq(L!Entry), NEW e \in L!Entry,
         L!Canonical(s), L!UniqueIds(s), L!Accepts(s, e)
  PROVE  LET t == Append(s, e)
         IN  /\ t \in Seq(L!Entry) /\ L!Canonical(t) /\ L!UniqueIds(t)
             /\ L!Extends(s, t)
             /\ DOMAIN t = DOMAIN s \cup {Len(s) + 1}
             /\ Len(s) + 1 \notin DOMAIN s
             /\ \A i \in DOMAIN s : t[i] = s[i]
             /\ t[Len(s) + 1] = e
  <1> DEFINE t == Append(s, e)
             n == Len(s)
  <1>1. /\ n \in Nat /\ DOMAIN s = 1..n
        /\ \A i \in 1..n : s[i] \in L!Entry
    BY AppendOne
  <1>2. /\ t \in Seq(L!Entry) /\ Len(t) = n + 1
        /\ DOMAIN t = 1..(n + 1)
        /\ \A i \in 1..n : t[i] = s[i]
        /\ t[n + 1] = e
    BY AppendOne
  <1>3. /\ e.sequence = n + 1
        /\ \A i \in 1..n : s[i].entry_id # e.entry_id
        /\ e.posted_at >= L!LastPosted(s)
    BY <1>1 DEF L!Accepts, L!Ids
  <1>4. e.posted_at \in Nat /\ \A i \in 1..n : s[i].posted_at \in Nat
    BY <1>1 DEF L!Entry
  <1>5. n # 0 => s # <<>> /\ L!LastPosted(s) = s[n].posted_at
    BY <1>1 DEF L!LastPosted
  <1>6. SubSeq(t, n + 1, Len(t)) = <<e>>
    <2>1. SubSeq(Append(s, e), Len(s) + 1, Len(s) + 1) = <<e>>
      BY AppendedSuffix
    <2> QED BY <2>1, <1>2
  <1>7. t = s \o <<e>>
    BY AppendOne
  <1> HIDE DEF t, n
  <1>8. L!Canonical(t)
    <2>1. \A i \in DOMAIN t : t[i].sequence = i
      BY <1>1, <1>2, <1>3 DEF L!Canonical
    <2>2. \A i \in DOMAIN t \ {1} : t[i - 1].posted_at <= t[i].posted_at
      <3> SUFFICES ASSUME NEW i \in 1..(n + 1), i # 1
                   PROVE  t[i - 1].posted_at <= t[i].posted_at
        BY <1>2
      <3>1. CASE i = n + 1
        BY <3>1, <1>1, <1>2, <1>3, <1>4, <1>5
      <3>2. CASE i \in 1..n
        <4>1. i - 1 \in 1..n /\ i \in DOMAIN s \ {1}
          BY <3>2, <1>1
        <4> QED BY <4>1, <3>2, <1>2 DEF L!Canonical
      <3> QED BY <3>1, <3>2, <1>1
    <2> QED BY <2>1, <2>2 DEF L!Canonical
  <1>9. L!UniqueIds(t)
    BY <1>1, <1>2, <1>3 DEF L!UniqueIds
  <1>10. L!AcceptsBatch(s, <<e>>)
    <2>1. DOMAIN <<e>> = {1} /\ <<e>>[1] = e /\ <<e>> # <<>>
      OBVIOUS
    <2>2. \A j \in 1..(1 - 1) : <<e>>[j].entry_id # e.entry_id
      OBVIOUS
    <2> QED BY <2>1, <2>2 DEF L!Accepts, L!AcceptsBatch
  <1>11. L!Extends(s, t)
    BY <1>6, <1>7, <1>10 DEF L!Extends, t, n
  <1>12. /\ DOMAIN t = DOMAIN s \cup {n + 1}
         /\ n + 1 \notin DOMAIN s
    BY <1>1, <1>2
  <1> QED BY <1>1, <1>2, <1>8, <1>9, <1>11, <1>12 DEF t, n

\* An accepted pair is two accepted entries, and is one step of the contract.
LEMMA AcceptedPair ==
  ASSUME NEW s \in Seq(L!Entry), NEW e \in L!Entry, NEW f \in L!Entry,
         L!AcceptsBatch(s, <<e, f>>)
  PROVE  /\ L!Accepts(s, e) /\ L!Accepts(Append(s, e), f)
         /\ s \o <<e, f>> = Append(Append(s, e), f)
         /\ L!Extends(s, s \o <<e, f>>)
  <1> DEFINE b == <<e, f>>
             r == Append(s, e)
             t == Append(r, f)
  <1>1. b \in Seq(L!Entry) /\ Len(b) = 2 /\ DOMAIN b = 1..2 /\ b[1] = e /\ b[2] = f
    OBVIOUS
  <1>2. PICK n \in Nat : n = Len(s)
    BY LenProperties
  <1>3. /\ r \in Seq(L!Entry) /\ Len(r) = n + 1 /\ DOMAIN s = 1..n /\ DOMAIN r = 1..(n + 1)
        /\ \A i \in 1..n : r[i] = s[i]
        /\ r[n + 1] = e
    BY <1>2, AppendOne
  <1>4. /\ t \in Seq(L!Entry) /\ Len(t) = n + 2 /\ DOMAIN t = 1..(n + 2)
        /\ \A i \in 1..(n + 1) : t[i] = r[i]
        /\ t[n + 2] = f
    <2>1. (n + 1) + 1 = n + 2
      OBVIOUS
    <2> HIDE DEF r
    <2> QED BY <1>3, <2>1, AppendOne
  <1> HIDE DEF b, r, t
  <1>5. /\ s \o b \in Seq(L!Entry) /\ Len(s \o b) = n + 2
        /\ \A i \in 1..n : (s \o b)[i] = s[i]
        /\ (s \o b)[n + 1] = e /\ (s \o b)[n + 2] = f
    <2>1. /\ s \o b \in Seq(L!Entry) /\ Len(s \o b) = Len(s) + Len(b)
          /\ \A i \in 1..(Len(s) + Len(b)) :
               (s \o b)[i] = IF i <= Len(s) THEN s[i] ELSE b[i - Len(s)]
      BY <1>1, ConcatProperties
    <2>2. /\ Len(s) + Len(b) = n + 2 /\ (n + 1) - n = 1 /\ (n + 2) - n = 2
          /\ \A i \in 1..n : i \in 1..(n + 2) /\ i <= n
          /\ n + 1 \in 1..(n + 2) /\ ~(n + 1 <= n)
          /\ n + 2 \in 1..(n + 2) /\ ~(n + 2 <= n)
      BY <1>1, <1>2
    <2> QED BY <2>1, <2>2, <1>1, <1>2
  <1>6. \A i \in 1..(n + 2) : i \in 1..n \/ i = n + 1 \/ i = n + 2
    OBVIOUS
  <1>7. s \o b = t
    <2>1. \A i \in 1..(n + 2) : (s \o b)[i] = t[i]
      BY <1>3, <1>4, <1>5, <1>6
    <2> QED BY <2>1, <1>4, <1>5, SeqEqual
  <1>8. /\ e.sequence = n + 1 /\ e.entry_id \notin L!Ids(s) /\ e.posted_at >= L!LastPosted(s)
        /\ f.sequence = n + 2 /\ f.entry_id \notin L!Ids(s) /\ f.entry_id # e.entry_id
        /\ f.posted_at >= e.posted_at
    <2>1. L!AcceptsBatch(s, b)
      BY DEF b
    <2>2. 1 \in DOMAIN b /\ 2 \in DOMAIN b /\ 1 \in 1..(2 - 1) /\ 2 - 1 = 1 /\ 2 # 1
      BY <1>1
    <2> QED BY <2>1, <2>2, <1>1, <1>2 DEF L!AcceptsBatch
  <1>9. L!Accepts(s, e)
    BY <1>2, <1>8 DEF L!Accepts
  <1>10. L!Accepts(r, f)
    <2>1. \A i \in 1..(n + 1) : i \in 1..n \/ i = n + 1
      OBVIOUS
    <2>2. f.entry_id \notin L!Ids(r)
      BY <2>1, <1>3, <1>8 DEF L!Ids
    <2>3. r # <<>>
      <3>1. Len(r) # 0
        BY <1>3
      <3> QED BY <3>1, <1>3, EmptySeq
    <2>4. L!LastPosted(r) = e.posted_at
      BY <2>3, <1>3 DEF L!LastPosted
    <2>5. Len(r) + 1 = n + 2
      BY <1>3
    <2> QED BY <2>2, <2>4, <2>5, <1>8 DEF L!Accepts
  <1>11. SubSeq(t, n + 1, n + 2) = b
    <2> DEFINE c == SubSeq(t, n + 1, n + 2)
    <2>1. \A i \in (n + 1)..(n + 2) : t[i] \in L!Entry
      BY <1>3, <1>4, <1>6
    <2>2. /\ c \in Seq(L!Entry)
          /\ Len(c) = IF n + 1 <= n + 2 THEN (n + 2) - (n + 1) + 1 ELSE 0
          /\ \A i \in 1..((n + 2) - (n + 1) + 1) : c[i] = t[(n + 1) + i - 1]
      BY <2>1, SubSeqProperties
    <2> HIDE DEF c
    <2>3. Len(c) = 2 /\ (n + 2) - (n + 1) + 1 = 2 /\ (n + 1) + 1 - 1 = n + 1 /\ (n + 1) + 2 - 1 = n + 2
      BY <2>2
    <2>4. c[1] = e /\ c[2] = f
      BY <2>2, <2>3, <1>3, <1>4
    <2>5. \A i \in 1..2 : c[i] = b[i]
      <3>1. \A i \in 1..2 : i = 1 \/ i = 2
        OBVIOUS
      <3> QED BY <3>1, <2>4, <1>1
    <2> QED BY <2>2, <2>3, <2>5, <1>1, SeqEqual DEF c
  <1>12. L!Extends(s, t)
    <2>1. L!AcceptsBatch(s, b) /\ t = s \o b
      BY <1>7 DEF b
    <2> QED BY <2>1, <1>2, <1>4, <1>11 DEF L!Extends
  <1> QED BY <1>7, <1>9, <1>10, <1>12 DEF b, r, t
-----------------------------------------------------------------------------
(***************************************************************************)
(* Balances.                                                               *)
(***************************************************************************)
LEMMA SignedIsInt ==
  ASSUME NEW e \in L!Entry
  PROVE  L!Signed(e) \in Int /\ e.amount \in Nat /\ e.amount > 0
         /\ (e.entry_type = L!CREDIT => L!Signed(e) = e.amount)
         /\ (e.entry_type = L!DEBIT => L!Signed(e) = 0 - e.amount)
  BY DEF L!Entry, L!Signed, L!CREDIT, L!DEBIT

\* The sum of the signed entries at some places, before and after an append.
Placed(s, S) == SumFunction([i \in S |-> L!Signed(s[i])])

LEMMA SumOfLedger ==
  ASSUME NEW f
  PROVE  L!SumFunction(f) = SumFunction(f)
  BY DEF SumFunction, SumFunctionOnSet, FoldFunctionOnSet, MapThenFoldSet,
         L!SumFunction, L!SumFunctionOnSet, L!FoldFunctionOnSet, L!MapThenFoldSet

LEMMA BalancesArePlaced ==
  ASSUME NEW s
  PROVE  /\ L!Replay(s) = Placed(s, DOMAIN s)
         /\ \A a : L!AccountBalance(s, a)
                     = Placed(s, {i \in DOMAIN s : s[i].account_id = a})
  BY SumOfLedger DEF L!Replay, L!AccountBalance, Placed

\* t is s and then e, at the place after the last one.
Longer(s, t, e, last) ==
  /\ last \notin DOMAIN s /\ DOMAIN t = (DOMAIN s) \cup {last} /\ IsFiniteSet(DOMAIN s)
  /\ e \in L!Entry /\ t[last] = e
  /\ \A i \in DOMAIN s : t[i] = s[i] /\ s[i] \in L!Entry

LEMMA AppendIsLonger ==
  ASSUME NEW s \in Seq(L!Entry), NEW e \in L!Entry
  PROVE  Longer(s, Append(s, e), e, Len(s) + 1)
  <1>1. PICK n \in Nat : n = Len(s)
    BY LenProperties
  <1>2. /\ DOMAIN s = 1..n /\ DOMAIN Append(s, e) = 1..(n + 1)
        /\ Append(s, e)[n + 1] = e
        /\ \A i \in 1..n : Append(s, e)[i] = s[i] /\ s[i] \in L!Entry
    BY <1>1, AppendOne
  <1>3. n + 1 \notin 1..n /\ 1..(n + 1) = (1..n) \cup {n + 1}
    OBVIOUS
  <1>4. IsFiniteSet(1..n)
    BY FS_Interval
  <1> QED BY <1>1, <1>2, <1>3, <1>4 DEF Longer

LEMMA SumOfPlaces ==
  ASSUME NEW s, NEW t, NEW e, NEW last, Longer(s, t, e, last), NEW S \in SUBSET DOMAIN s
  PROVE  /\ Placed(s, S) \in Int
         /\ Placed(t, S) = Placed(s, S)
         /\ Placed(t, S \cup {last}) = Placed(s, S) + L!Signed(e)
  <1>1. /\ last \notin S /\ t[last] = e /\ e \in L!Entry /\ IsFiniteSet(DOMAIN s)
        /\ \A i \in S : t[i] = s[i] /\ s[i] \in L!Entry
    BY DEF Longer
  <1>4. IsFiniteSet(S)
    BY <1>1, FS_Subset
  <1> DEFINE f == [i \in S |-> L!Signed(s[i])]
             g == [i \in S \cup {last} |-> L!Signed(t[i])]
  <1>5. f \in [S -> Int]
    BY <1>1, SignedIsInt
  <1>6. g \in [S \cup {last} -> Int] /\ g[last] = L!Signed(e) /\ \A i \in S : g[i] = f[i]
    <2>1. \A i \in S : L!Signed(s[i]) \in Int
      BY <1>1, SignedIsInt
    <2>2. L!Signed(e) \in Int
      BY <1>1, SignedIsInt
    <2> QED BY <2>1, <2>2, <1>1
  <1>7. [i \in S |-> L!Signed(t[i])] = f
    BY <1>1
  <1>8. /\ Placed(s, S) = SumFunction(f)
        /\ Placed(t, S) = SumFunction([i \in S |-> L!Signed(t[i])])
        /\ Placed(t, S \cup {last}) = SumFunction(g)
    BY DEF Placed
  <1> HIDE DEF f, g
  <1>9. Grows(f, g, last)
    BY <1>1, <1>4, <1>5, <1>6 DEF Grows
  <1>10. SumFunction(f) \in Int /\ SumFunction(g) = SumFunction(f) + g[last]
    BY <1>9, SumGrows
  <1> QED BY <1>6, <1>7, <1>8, <1>10

\* The sum of the balances of all accounts.
BankTotal(ledger) == SumFunction([a \in AccountIds |-> L!AccountBalance(ledger, a)])

Change(e, a) == IF e.account_id = a THEN L!Signed(e) ELSE 0

\* What an append does to the balances.
BalancesMove(s, t, e) ==
  /\ L!Replay(s) \in Int /\ L!Replay(t) = L!Replay(s) + L!Signed(e)
  /\ \A a \in AccountIds : /\ L!AccountBalance(s, a) \in Int
                           /\ L!AccountBalance(t, a) = L!AccountBalance(s, a) + Change(e, a)
  /\ BankTotal(s) \in Int /\ BankTotal(t) = BankTotal(s) + L!Signed(e)

LEMMA LongerMovesBalances ==
  ASSUME NEW s, NEW t, NEW e, NEW last, Longer(s, t, e, last)
  PROVE  BalancesMove(s, t, e)
  <1>1. DOMAIN t = (DOMAIN s) \cup {last} /\ t[last] = e /\ e \in L!Entry
        /\ \A i \in DOMAIN s : t[i] = s[i]
    BY DEF Longer
  <1>2. last \notin DOMAIN s
    BY DEF Longer
  <1>3. L!Replay(s) \in Int /\ L!Replay(t) = L!Replay(s) + L!Signed(e)
    <2>1. PICK S \in SUBSET DOMAIN s : S = DOMAIN s
      OBVIOUS
    <2>2. /\ Placed(s, S) \in Int
          /\ Placed(t, S \cup {last}) = Placed(s, S) + L!Signed(e)
      BY SumOfPlaces
    <2>3. L!Replay(s) = Placed(s, S) /\ L!Replay(t) = Placed(t, S \cup {last})
      BY <1>1, <2>1, BalancesArePlaced
    <2> QED BY <2>2, <2>3
  <1>4. ASSUME NEW a \in AccountIds
        PROVE  /\ L!AccountBalance(s, a) \in Int
               /\ L!AccountBalance(t, a) = L!AccountBalance(s, a) + Change(e, a)
    <2> DEFINE S == {i \in DOMAIN s : s[i].account_id = a}
               T == {i \in DOMAIN t : t[i].account_id = a}
    <2>1. S \in SUBSET DOMAIN s
      OBVIOUS
    <2>2. T = IF e.account_id = a THEN S \cup {last} ELSE S
      BY <1>1, <1>2
    <2>3. L!AccountBalance(s, a) = Placed(s, S) /\ L!AccountBalance(t, a) = Placed(t, T)
      BY BalancesArePlaced
    <2> HIDE DEF S, T
    <2>5. /\ Placed(s, S) \in Int /\ Placed(t, S) = Placed(s, S)
          /\ Placed(t, S \cup {last}) = Placed(s, S) + L!Signed(e)
      BY <2>1, SumOfPlaces
    <2>6. CASE e.account_id = a
      BY <2>2, <2>3, <2>5, <2>6 DEF Change
    <2>7. CASE e.account_id # a
      BY <2>2, <2>3, <2>5, <2>7 DEF Change
    <2> QED BY <2>6, <2>7
  <1>5. BankTotal(s) \in Int /\ BankTotal(t) = BankTotal(s) + L!Signed(e)
    <2> DEFINE f == [a \in AccountIds |-> L!AccountBalance(s, a)]
               g == [a \in AccountIds |-> L!AccountBalance(t, a)]
               x == e.account_id
    <2>1. L!Signed(e) \in Int /\ x \in AccountIds /\ IsFiniteSet(AccountIds)
      BY <1>1, SignedIsInt, WriterInputs DEF L!Entry
    <2>2. \A a \in AccountIds : Change(e, a) \in Int
      BY <2>1 DEF Change
    <2>3. f \in [AccountIds -> Int] /\ g \in [AccountIds -> Int]
      BY <1>4, <2>2
    <2>4. \A a \in AccountIds \ {x} : g[a] = f[a]
      BY <1>4 DEF Change
    <2>5. g[x] = f[x] + L!Signed(e)
      BY <1>4, <2>1 DEF Change
    <2>6. BankTotal(s) = SumFunction(f) /\ BankTotal(t) = SumFunction(g)
      BY DEF BankTotal
    <2> HIDE DEF f, g, x
    <2>7. ChangesAt(f, g, x)
      BY <2>1, <2>3, <2>4 DEF ChangesAt
    <2>8. /\ SumFunction(f) \in Int /\ f[x] \in Int /\ g[x] \in Int
          /\ SumFunction(g) = SumFunction(f) + (g[x] - f[x])
      BY <2>7, SumChanges
    <2> QED BY <2>1, <2>5, <2>6, <2>8
  <1> QED BY <1>3, <1>4, <1>5 DEF BalancesMove
-----------------------------------------------------------------------------
(***************************************************************************)
(* The inductive invariant.                                                *)
(***************************************************************************)
IdempotencyRecord == [request : RequestIds, amount : Nat \ {0},
                      first_processed_at : Nat, duplicate_delivery_count : Nat]

Posting == [kind : {"deposit", "withdrawal"}, id : RequestIds,
            account : AccountIds, amount : Nat \ {0}]
Transfer == [kind : {"transfer"}, id : RequestIds, amount : Nat \ {0},
             source : AccountIds, destination : AccountIds]

WriterType == /\ posted \subseteq Posting \cup Transfer /\ IsFiniteSet(posted)
              /\ records \in [DOMAIN records -> IdempotencyRecord]
              /\ IsFiniteSet(DOMAIN records)
              /\ created \in Nat /\ acknowledged \in Nat

\* The entry that tells a posted result: no other result has its identifier.
EntryOf(result) ==
  <<result.id, IF result.kind = "transfer" THEN "DEBIT" ELSE "ENTRY">>

\* A result that was returned as posted is in the ledger.
PostedIsWritten == \A r \in posted : EntryOf(r) \in L!Ids(entries)

\* What a remembered key stands for.
DebitFor(record, e) == /\ e.entry_id = <<record.request, "DEBIT">>
                       /\ e.account_id = PaymentAccount
                       /\ e.entry_type = L!DEBIT
                       /\ e.amount = record.amount
                       /\ e.posted_at = record.first_processed_at

KeysHaveDebits ==
  \A k \in DOMAIN records : \E i \in DOMAIN entries : DebitFor(records[k], entries[i])

KeysApart ==
  \A k, l \in DOMAIN records : records[k].request = records[l].request => k = l

Repeats == SumFunction([k \in DOMAIN records |-> records[k].duplicate_delivery_count])

CallsCounted == /\ created = Cardinality(DOMAIN records)
                /\ acknowledged = created + Repeats

PostedEffect(a) == SumFunction([r \in posted |-> Effect(r, a)])

\* Every account's balance is what posted results and payments explain.
AccountsExplained ==
  \A a \in AccountIds :
    L!AccountBalance(entries, a) =
      PostedEffect(a) - (IF a = PaymentAccount THEN Payments ELSE 0)

LedgerInv == L!LedgerType /\ L!WellFormed /\ L!Replay(entries) = BankTotal(entries)

Inv == /\ LedgerInv /\ WriterType /\ PostedIsWritten
       /\ KeysHaveDebits /\ KeysApart /\ CallsCounted /\ AccountsExplained

\* A posted result's effect on an account.
LEMMA EffectIsInt ==
  ASSUME NEW r \in Posting \cup Transfer, NEW a
  PROVE  /\ Effect(r, a) \in Int
         /\ r \in Posting =>
              Effect(r, a) = IF r.account = a
                             THEN IF r.kind = "deposit" THEN r.amount ELSE 0 - r.amount
                             ELSE 0
         /\ r \in Transfer =>
              Effect(r, a) = IF r.source = a THEN 0 - r.amount
                             ELSE IF r.destination = a THEN r.amount ELSE 0
  BY DEF Posting, Transfer, Effect

\* The sums of the invariant are integers.
LEMMA SumsAreInts ==
  ASSUME WriterType
  PROVE  /\ Payments \in Int /\ Repeats \in Int
         /\ \A a : PostedEffect(a) \in Int
  <1>1. [k \in DOMAIN records |-> records[k].amount] \in [DOMAIN records -> Int]
    BY DEF WriterType, IdempotencyRecord
  <1>2. [k \in DOMAIN records |-> records[k].duplicate_delivery_count] \in [DOMAIN records -> Int]
    BY DEF WriterType, IdempotencyRecord
  <1>3. ASSUME NEW a PROVE [r \in posted |-> Effect(r, a)] \in [posted -> Int]
    <2>1. \A r \in posted : r \in Posting \cup Transfer
      BY DEF WriterType
    <2> QED BY <2>1, EffectIsInt
  <1>4. IsFiniteSet(posted) /\ IsFiniteSet(DOMAIN records)
    BY DEF WriterType
  <1>5. Payments \in Int
    BY <1>1, <1>4, SumType DEF Payments
  <1>6. Repeats \in Int
    BY <1>2, <1>4, SumType DEF Repeats
  <1>7. ASSUME NEW a PROVE PostedEffect(a) \in Int
    BY <1>3, <1>4, SumType DEF PostedEffect
  <1> QED BY <1>5, <1>6, <1>7

\* One more result.
LEMMA OneMorePosted ==
  ASSUME WriterType, NEW r \in Posting \cup Transfer, r \notin posted,
         posted' = posted \cup {r}
  PROVE  /\ posted' \subseteq Posting \cup Transfer /\ IsFiniteSet(posted')
         /\ \A a : PostedEffect(a)' = PostedEffect(a) + Effect(r, a)
  <1>1. posted' \subseteq Posting \cup Transfer
    BY DEF WriterType
  <1>2. IsFiniteSet(posted')
    BY FS_AddElement DEF WriterType
  <1>3. ASSUME NEW a PROVE PostedEffect(a)' = PostedEffect(a) + Effect(r, a)
    <2> DEFINE f == [q \in posted |-> Effect(q, a)]
               g == [q \in posted \cup {r} |-> Effect(q, a)]
    <2>1. \A q \in posted \cup {r} : Effect(q, a) \in Int
      BY EffectIsInt DEF WriterType
    <2>2. /\ f \in [posted -> Int] /\ g \in [posted \cup {r} -> Int]
          /\ \A q \in posted : g[q] = f[q]
          /\ g[r] = Effect(r, a)
      BY <2>1
    <2>3. PostedEffect(a) = SumFunction(f) /\ PostedEffect(a)' = SumFunction(g)
      BY DEF PostedEffect, Effect
    <2> HIDE DEF f, g
    <2>4. Grows(f, g, r)
      BY <2>2 DEF Grows, WriterType
    <2> QED BY <2>2, <2>3, <2>4, SumGrows
  <1> QED BY <1>1, <1>2, <1>3
-----------------------------------------------------------------------------
(***************************************************************************)
(* What one accepted entry does.                                           *)
(***************************************************************************)
\* t is the well-formed ledger s and then e.
Written(s, t, e) ==
  /\ t \in Seq(L!Entry) /\ L!Canonical(t) /\ L!UniqueIds(t)
  /\ L!Extends(s, t) /\ BalancesMove(s, t, e)
  /\ e \in L!Entry /\ e.entry_id \notin L!Ids(s)
  /\ L!Ids(t) = L!Ids(s) \cup {e.entry_id}
  /\ \A i \in DOMAIN s : i \in DOMAIN t /\ t[i] = s[i]
  /\ \E i \in DOMAIN t : t[i] = e

LEMMA EntryWritten ==
  ASSUME NEW s \in Seq(L!Entry), NEW e \in L!Entry,
         L!Canonical(s), L!UniqueIds(s), L!Accepts(s, e)
  PROVE  Written(s, Append(s, e), e)
  <1> DEFINE t == Append(s, e)
  <1>1. PICK last : last = Len(s) + 1
    OBVIOUS
  <1>2. /\ t \in Seq(L!Entry) /\ L!Canonical(t) /\ L!UniqueIds(t)
        /\ L!Extends(s, t)
        /\ DOMAIN t = DOMAIN s \cup {last}
        /\ last \notin DOMAIN s
        /\ \A i \in DOMAIN s : t[i] = s[i]
        /\ t[last] = e
    BY <1>1, AcceptedEntry
  <1>3. Longer(s, t, e, last)
    BY <1>1, AppendIsLonger
  <1> HIDE DEF t
  <1>4. BalancesMove(s, t, e)
    BY <1>3, LongerMovesBalances
  <1>5. L!Ids(t) = L!Ids(s) \cup {e.entry_id}
    BY <1>2 DEF L!Ids
  <1>6. e.entry_id \notin L!Ids(s)
    BY DEF L!Accepts
  <1>7. /\ \A i \in DOMAIN s : i \in DOMAIN t /\ t[i] = s[i]
        /\ \E i \in DOMAIN t : t[i] = e
    BY <1>2
  <1>8. Written(s, t, e)
    BY <1>2, <1>4, <1>5, <1>6, <1>7 DEF Written
  <1> QED BY <1>8 DEF t

\* The entries of the workflows are entries of the ledger.
Writing(e, place, key, account, amount, type, time) ==
  /\ e = EntryAfter(place, key, account, amount, type, time)
  /\ place \in Nat \ {0} /\ key \in RequestIds \X {"ENTRY", "DEBIT", "CREDIT"}
  /\ account \in AccountIds /\ amount \in Amount
  /\ type \in {L!CREDIT, L!DEBIT} /\ time \in Nat

LEMMA WritingAnEntry ==
  ASSUME L!LedgerType, NEW e, NEW place, NEW key, NEW account, NEW amount, NEW type, NEW time,
         Writing(e, place, key, account, amount, type, time)
  PROVE  /\ e \in L!Entry /\ e.entry_id = key
         /\ e.account_id = account /\ e.amount = amount
         /\ e.entry_type = type /\ e.posted_at = time
  <1>1. Len(entries) \in Nat
    BY LenProperties DEF L!LedgerType
  <1>2. Len(entries) + place \in Nat \ {0}
    BY <1>1 DEF Writing
  <1>3. amount \in Nat \ {0}
    BY WriterInputs DEF Amount, Writing
  <1> QED BY <1>2, <1>3 DEF EntryAfter, L!Entry, Writing

\* The ledger's part of the invariant survives an accepted entry.
LEMMA WrittenKeepsLedger ==
  ASSUME LedgerInv, NEW e, Written(entries, entries', e)
  PROVE  LedgerInv'
  <1>1. L!LedgerType' /\ L!WellFormed'
    BY DEF Written, L!LedgerType, L!WellFormed
  <1>2. (L!Replay(entries) = BankTotal(entries))'
    <2>1. /\ L!Replay(entries') = L!Replay(entries) + L!Signed(e)
          /\ BankTotal(entries') = BankTotal(entries) + L!Signed(e)
      BY DEF Written, BalancesMove
    <2> QED BY <2>1 DEF LedgerInv
  <1> QED BY <1>1, <1>2 DEF LedgerInv

\* The call posts the result r and nothing else.
Posts(r) ==
  /\ LedgerInv' /\ r \in Posting \cup Transfer
  /\ EntryOf(r) \notin L!Ids(entries) /\ EntryOf(r) \in L!Ids(entries')
  /\ \A x \in L!Ids(entries) : x \in L!Ids(entries')
  /\ \A i \in DOMAIN entries : i \in DOMAIN entries' /\ entries'[i] = entries[i]
  /\ \A a \in AccountIds :
       L!AccountBalance(entries', a) = L!AccountBalance(entries, a) + Effect(r, a)
  /\ posted' = posted \cup {r}
  /\ Unpaid

LEMMA PostsKeepsInv ==
  ASSUME Inv, NEW r, Posts(r)
  PROVE  Inv' /\ Payments' = Payments
  <1>1. r \in Posting \cup Transfer /\ r \notin posted
    BY DEF Inv, Posts, PostedIsWritten
  <1>2. /\ posted' \subseteq Posting \cup Transfer /\ IsFiniteSet(posted')
        /\ \A a : PostedEffect(a)' = PostedEffect(a) + Effect(r, a)
    BY <1>1, OneMorePosted DEF Inv, Posts
  <1>3. records' = records /\ created' = created /\ acknowledged' = acknowledged
    BY DEF Posts, Unpaid
  <1>4. Payments' = Payments /\ Repeats' = Repeats
    BY <1>3 DEF Payments, Repeats
  <1>5. WriterType'
    BY <1>2, <1>3 DEF Inv, WriterType
  <1>6. PostedIsWritten'
    BY DEF Inv, Posts, PostedIsWritten
  <1>7. KeysHaveDebits'
    BY <1>3 DEF Inv, Posts, KeysHaveDebits
  <1>8. KeysApart'
    BY <1>3 DEF Inv, KeysApart
  <1>9. CallsCounted'
    BY <1>3, <1>4 DEF Inv, CallsCounted
  <1>10. AccountsExplained'
    <2> SUFFICES ASSUME NEW a \in AccountIds
                 PROVE  L!AccountBalance(entries', a) =
                          PostedEffect(a)' - (IF a = PaymentAccount THEN Payments' ELSE 0)
      BY DEF AccountsExplained
    <2>1. L!AccountBalance(entries, a) =
            PostedEffect(a) - (IF a = PaymentAccount THEN Payments ELSE 0)
      BY DEF Inv, AccountsExplained
    <2>2. L!AccountBalance(entries', a) = L!AccountBalance(entries, a) + Effect(r, a)
      BY DEF Posts
    <2>3. PostedEffect(a)' = PostedEffect(a) + Effect(r, a)
      BY <1>2
    <2>4. PostedEffect(a) \in Int /\ Payments \in Int /\ Effect(r, a) \in Int
      BY <1>1, SumsAreInts, EffectIsInt DEF Inv
    <2> QED BY <1>4, <2>1, <2>2, <2>3, <2>4
  <1>11. LedgerInv'
    BY DEF Posts
  <1> QED BY <1>4, <1>5, <1>6, <1>7, <1>8, <1>9, <1>10, <1>11 DEF Inv
-----------------------------------------------------------------------------
(***************************************************************************)
(* What the actions do.                                                    *)
(***************************************************************************)
\* The whole ledger and the payments rise, or a withdrawal spends what was shown
\* to it, or a payment moves from the one to the other.
FundsMove ==
  \/ Payments' = Payments /\ L!Replay(entries') >= L!Replay(entries)
  \/ /\ Payments' = Payments
     /\ \E pending \in PendingLists, amount \in Amount :
          /\ ProjectionDefined(pending) /\ amount <= AvailableBalance(pending)
          /\ L!Replay(entries') = L!Replay(entries) - amount
  \/ \E amount \in Amount : /\ Payments' = Payments + amount
                            /\ L!Replay(entries') = L!Replay(entries) - amount

\* What a call that writes keeps, and what it does.
CallKeeps == Inv' /\ L!Extends(entries, entries') /\ FundsMove

LEMMA DepositKeeps ==
  ASSUME Inv, NEW id \in RequestIds, NEW account \in AccountIds, NEW amount \in Amount,
         post_deposit(id, account, amount)
  PROVE  CallKeeps
  <1> DEFINE time == Len(entries) + 1
  <1>1. PICK e : /\ e = EntryAfter(1, <<id, "ENTRY">>, account, amount, L!CREDIT, time)
                 /\ L!Accepts(entries, e) /\ entries' = Append(entries, e)
                 /\ posted' = posted \cup {[kind |-> "deposit", id |-> id,
                                            account |-> account, amount |-> amount]}
                 /\ Unpaid
    BY DEF post_deposit, LedgerTakes
  <1>2. entries \in Seq(L!Entry) /\ L!Canonical(entries) /\ L!UniqueIds(entries) /\ L!LedgerType
    BY DEF Inv, LedgerInv, L!LedgerType, L!WellFormed
  <1>3. time \in Nat
    BY <1>2, LenProperties
  <1> HIDE DEF time
  <1>4. /\ e \in L!Entry /\ e.entry_id = <<id, "ENTRY">> /\ e.account_id = account
        /\ e.amount = amount /\ e.entry_type = L!CREDIT
    <2>1. Writing(e, 1, <<id, "ENTRY">>, account, amount, L!CREDIT, time)
      BY <1>1, <1>3 DEF Writing
    <2> QED BY <2>1, <1>2, WritingAnEntry
  <1>5. Written(entries, entries', e)
    BY <1>1, <1>2, <1>4, EntryWritten
  <1>6. PICK r : r = [kind |-> "deposit", id |-> id, account |-> account, amount |-> amount]
    OBVIOUS
  <1>7. r \in Posting /\ EntryOf(r) = <<id, "ENTRY">>
    BY <1>6, WriterInputs DEF Posting, EntryOf, Amount
  <1>8. L!Signed(e) = amount /\ amount \in Nat
    BY <1>4, SignedIsInt
  <1>9. \A a \in AccountIds :
          L!AccountBalance(entries', a) = L!AccountBalance(entries, a) + Effect(r, a)
    <2> SUFFICES ASSUME NEW a \in AccountIds
                 PROVE  L!AccountBalance(entries', a)
                          = L!AccountBalance(entries, a) + Effect(r, a)
      OBVIOUS
    <2>1. Effect(r, a) = IF account = a THEN amount ELSE 0
      BY <1>6, <1>7, EffectIsInt
    <2>2. Change(e, a) = IF account = a THEN amount ELSE 0
      BY <1>4, <1>8 DEF Change
    <2> QED BY <1>5, <2>1, <2>2 DEF Written, BalancesMove
  <1>10. Posts(r)
    <2>1. LedgerInv'
      BY <1>5, WrittenKeepsLedger DEF Inv
    <2> QED BY <2>1, <1>1, <1>4, <1>5, <1>6, <1>7, <1>9 DEF Posts, Written
  <1>11. Inv' /\ Payments' = Payments
    BY <1>10, PostsKeepsInv
  <1>12. FundsMove
    <2>1. /\ L!Replay(entries) \in Int
          /\ L!Replay(entries') = L!Replay(entries) + amount
      BY <1>5, <1>8 DEF Written, BalancesMove
    <2>2. L!Replay(entries') >= L!Replay(entries)
      BY <2>1, <1>8
    <2> QED BY <2>2, <1>11 DEF FundsMove
  <1> QED BY <1>5, <1>11, <1>12 DEF CallKeeps, Written

LEMMA WithdrawalKeeps ==
  ASSUME Inv, NEW id \in RequestIds, NEW account \in AccountIds, NEW amount \in Amount,
         NEW pending \in PendingLists, process_withdrawal(id, account, amount, pending)
  PROVE  CallKeeps
  <1> DEFINE time == Len(entries) + 1
  <1>1. PICK e : /\ e = EntryAfter(1, <<id, "ENTRY">>, account, amount, L!DEBIT, time)
                 /\ L!Accepts(entries, e) /\ entries' = Append(entries, e)
                 /\ posted' = posted \cup {[kind |-> "withdrawal", id |-> id,
                                            account |-> account, amount |-> amount]}
                 /\ Unpaid
    BY DEF process_withdrawal, LedgerTakes
  <1>2. entries \in Seq(L!Entry) /\ L!Canonical(entries) /\ L!UniqueIds(entries) /\ L!LedgerType
    BY DEF Inv, LedgerInv, L!LedgerType, L!WellFormed
  <1>3. time \in Nat
    BY <1>2, LenProperties
  <1> HIDE DEF time
  <1>4. /\ e \in L!Entry /\ e.entry_id = <<id, "ENTRY">> /\ e.account_id = account
        /\ e.amount = amount /\ e.entry_type = L!DEBIT
    <2>1. Writing(e, 1, <<id, "ENTRY">>, account, amount, L!DEBIT, time)
      BY <1>1, <1>3 DEF Writing
    <2> QED BY <2>1, <1>2, WritingAnEntry
  <1>5. Written(entries, entries', e)
    BY <1>1, <1>2, <1>4, EntryWritten
  <1>6. PICK r : r = [kind |-> "withdrawal", id |-> id, account |-> account, amount |-> amount]
    OBVIOUS
  <1>7. r \in Posting /\ EntryOf(r) = <<id, "ENTRY">>
    BY <1>6, WriterInputs DEF Posting, EntryOf, Amount
  <1>8. L!Signed(e) = 0 - amount /\ amount \in Nat
    BY <1>4, SignedIsInt
  <1>9. \A a \in AccountIds :
          L!AccountBalance(entries', a) = L!AccountBalance(entries, a) + Effect(r, a)
    <2> SUFFICES ASSUME NEW a \in AccountIds
                 PROVE  L!AccountBalance(entries', a)
                          = L!AccountBalance(entries, a) + Effect(r, a)
      OBVIOUS
    <2>1. Effect(r, a) = IF account = a THEN 0 - amount ELSE 0
      BY <1>6, <1>7, EffectIsInt
    <2>2. Change(e, a) = IF account = a THEN 0 - amount ELSE 0
      BY <1>4, <1>8 DEF Change
    <2> QED BY <1>5, <2>1, <2>2 DEF Written, BalancesMove
  <1>10. Posts(r)
    <2>1. LedgerInv'
      BY <1>5, WrittenKeepsLedger DEF Inv
    <2> QED BY <2>1, <1>1, <1>4, <1>5, <1>6, <1>7, <1>9 DEF Posts, Written
  <1>11. Inv' /\ Payments' = Payments
    BY <1>10, PostsKeepsInv
  <1>12. FundsMove
    <2>1. /\ L!Replay(entries) \in Int
          /\ L!Replay(entries') = L!Replay(entries) + (0 - amount)
      BY <1>5, <1>8 DEF Written, BalancesMove
    <2>2. L!Replay(entries') = L!Replay(entries) - amount
      BY <2>1, <1>8
    <2>3. ProjectionDefined(pending) /\ amount <= AvailableBalance(pending)
      BY DEF process_withdrawal
    <2> QED BY <2>2, <2>3, <1>11 DEF FundsMove
  <1> QED BY <1>5, <1>11, <1>12 DEF CallKeeps, Written

LEMMA TransferKeeps ==
  ASSUME Inv, NEW id \in RequestIds, NEW source \in AccountIds,
         NEW destination \in AccountIds, NEW amount \in Amount,
         process_transfer(id, source, destination, amount)
  PROVE  CallKeeps
  <1> DEFINE time == Len(entries) + 1
             later == time + 1
  <1>1. PICK e, f :
          /\ e = EntryAfter(1, <<id, "DEBIT">>, source, amount, L!DEBIT, time)
          /\ f = EntryAfter(2, <<id, "CREDIT">>, destination, amount, L!CREDIT, later)
          /\ L!AcceptsBatch(entries, <<e, f>>) /\ entries' = entries \o <<e, f>>
          /\ posted' = posted \cup {[kind |-> "transfer", id |-> id, amount |-> amount,
                                     source |-> source, destination |-> destination]}
          /\ Unpaid /\ source # destination
    BY DEF process_transfer, TransferEntries
  <1>2. entries \in Seq(L!Entry) /\ L!Canonical(entries) /\ L!UniqueIds(entries) /\ L!LedgerType
    BY DEF Inv, LedgerInv, L!LedgerType, L!WellFormed
  <1>3. time \in Nat /\ later \in Nat
    BY <1>2, LenProperties
  <1> HIDE DEF time, later
  <1>4. /\ e \in L!Entry /\ e.entry_id = <<id, "DEBIT">> /\ e.account_id = source
        /\ e.amount = amount /\ e.entry_type = L!DEBIT
    <2>1. Writing(e, 1, <<id, "DEBIT">>, source, amount, L!DEBIT, time)
      BY <1>1, <1>3 DEF Writing
    <2> QED BY <2>1, <1>2, WritingAnEntry
  <1>5. /\ f \in L!Entry /\ f.entry_id = <<id, "CREDIT">> /\ f.account_id = destination
        /\ f.amount = amount /\ f.entry_type = L!CREDIT
    <2>1. Writing(f, 2, <<id, "CREDIT">>, destination, amount, L!CREDIT, later)
      BY <1>1, <1>3 DEF Writing
    <2> QED BY <2>1, <1>2, WritingAnEntry
  <1>6. PICK mid : mid = Append(entries, e)
    OBVIOUS
  <1>7. /\ L!Accepts(entries, e) /\ L!Accepts(mid, f)
        /\ entries' = Append(mid, f)
        /\ L!Extends(entries, entries')
    BY <1>1, <1>2, <1>4, <1>5, <1>6, AcceptedPair
  <1>8. Written(entries, mid, e)
    BY <1>2, <1>4, <1>6, <1>7, EntryWritten
  <1>9. Written(mid, entries', f)
    <2>1. mid \in Seq(L!Entry) /\ L!Canonical(mid) /\ L!UniqueIds(mid)
      BY <1>8 DEF Written
    <2> QED BY <2>1, <1>5, <1>7, EntryWritten
  <1>10. /\ L!Signed(e) = 0 - amount /\ L!Signed(f) = amount /\ amount \in Nat
    BY <1>4, <1>5, SignedIsInt
  <1>11. PICK r : r = [kind |-> "transfer", id |-> id, amount |-> amount,
                       source |-> source, destination |-> destination]
    OBVIOUS
  <1>12. r \in Transfer /\ EntryOf(r) = <<id, "DEBIT">>
    BY <1>11, WriterInputs DEF Transfer, EntryOf, Amount
  <1>13. \A a \in AccountIds :
           L!AccountBalance(entries', a) = L!AccountBalance(entries, a) + Effect(r, a)
    <2> SUFFICES ASSUME NEW a \in AccountIds
                 PROVE  L!AccountBalance(entries', a)
                          = L!AccountBalance(entries, a) + Effect(r, a)
      OBVIOUS
    <2>1. Effect(r, a) = IF source = a THEN 0 - amount
                         ELSE IF destination = a THEN amount ELSE 0
      BY <1>11, <1>12, EffectIsInt
    <2>2. /\ Change(e, a) = IF source = a THEN 0 - amount ELSE 0
          /\ Change(f, a) = IF destination = a THEN amount ELSE 0
      BY <1>4, <1>5, <1>10 DEF Change
    <2>3. /\ L!AccountBalance(entries, a) \in Int
          /\ L!AccountBalance(mid, a) = L!AccountBalance(entries, a) + Change(e, a)
          /\ L!AccountBalance(entries', a) = L!AccountBalance(mid, a) + Change(f, a)
      BY <1>8, <1>9 DEF Written, BalancesMove
    <2> QED BY <1>1, <1>10, <2>1, <2>2, <2>3
  <1>14. /\ L!Replay(entries) \in Int /\ L!Replay(entries') = L!Replay(entries)
         /\ BankTotal(entries) \in Int /\ BankTotal(entries') = BankTotal(entries)
    <2>1. /\ L!Replay(entries) \in Int /\ BankTotal(entries) \in Int
          /\ L!Replay(mid) = L!Replay(entries) + (0 - amount)
          /\ L!Replay(entries') = L!Replay(mid) + amount
          /\ BankTotal(mid) = BankTotal(entries) + (0 - amount)
          /\ BankTotal(entries') = BankTotal(mid) + amount
      BY <1>8, <1>9, <1>10 DEF Written, BalancesMove
    <2> QED BY <2>1, <1>10
  <1>15. LedgerInv'
    <2>1. L!LedgerType' /\ L!WellFormed'
      BY <1>9 DEF Written, L!LedgerType, L!WellFormed
    <2>2. (L!Replay(entries) = BankTotal(entries))'
      BY <1>14 DEF Inv, LedgerInv
    <2> QED BY <2>1, <2>2 DEF LedgerInv
  <1>16. Posts(r)
    <2>1. \A i \in DOMAIN entries : i \in DOMAIN entries' /\ entries'[i] = entries[i]
      BY <1>8, <1>9 DEF Written
    <2>2. /\ EntryOf(r) \notin L!Ids(entries) /\ EntryOf(r) \in L!Ids(entries')
          /\ \A x \in L!Ids(entries) : x \in L!Ids(entries')
      BY <1>4, <1>8, <1>9, <1>12 DEF Written
    <2> QED BY <2>1, <2>2, <1>1, <1>11, <1>12, <1>13, <1>15 DEF Posts
  <1>17. Inv' /\ Payments' = Payments
    BY <1>16, PostsKeepsInv
  <1>18. FundsMove
    <2>1. L!Replay(entries') >= L!Replay(entries)
      BY <1>14
    <2> QED BY <2>1, <1>17 DEF FundsMove
  <1> QED BY <1>7, <1>17, <1>18 DEF CallKeeps

\* The records after a new key: what the sums over the records become.
NewKey(key, record) ==
  /\ key \notin DOMAIN records /\ record \in IdempotencyRecord
  /\ record.duplicate_delivery_count = 0
  /\ records' = Remembered(key, record)

LEMMA NewKeyCounts ==
  ASSUME WriterType, NEW key, NEW record, NewKey(key, record)
  PROVE  /\ DOMAIN records' = DOMAIN records \cup {key} /\ records'[key] = record
         /\ \A k \in DOMAIN records : records'[k] = records[k]
         /\ records' \in [DOMAIN records' -> IdempotencyRecord]
         /\ IsFiniteSet(DOMAIN records')
         /\ Cardinality(DOMAIN records') = Cardinality(DOMAIN records) + 1
         /\ Payments' = Payments + record.amount /\ Repeats' = Repeats
  <1>1. /\ DOMAIN records' = DOMAIN records \cup {key} /\ records'[key] = record
        /\ \A k \in DOMAIN records : records'[k] = records[k]
    BY DEF NewKey, Remembered
  <1>2. \A k \in DOMAIN records : records[k] \in IdempotencyRecord
    BY DEF WriterType
  <1>3. records' \in [DOMAIN records' -> IdempotencyRecord]
    <2>1. \A k \in DOMAIN records' : records'[k] \in IdempotencyRecord
      BY <1>1, <1>2 DEF NewKey
    <2>2. records' = [k \in DOMAIN records' |-> records'[k]]
      BY <1>1 DEF NewKey, Remembered
    <2> QED BY <2>1, <2>2
  <1>4. /\ IsFiniteSet(DOMAIN records')
        /\ Cardinality(DOMAIN records') = Cardinality(DOMAIN records) + 1
    BY <1>1, FS_AddElement DEF WriterType, NewKey
  <1>5. Payments' = Payments + record.amount
    <2> DEFINE f == [k \in DOMAIN records |-> records[k].amount]
               g == [k \in DOMAIN records' |-> records'[k].amount]
    <2>1. \A k \in DOMAIN records' : records'[k].amount \in Int
      BY <1>3 DEF IdempotencyRecord
    <2>2. \A k \in DOMAIN records : records[k].amount \in Int
      BY <1>2 DEF IdempotencyRecord
    <2>3. /\ f \in [DOMAIN records -> Int] /\ g \in [DOMAIN records \cup {key} -> Int]
          /\ \A k \in DOMAIN records : g[k] = f[k]
          /\ g[key] = record.amount
      BY <1>1, <2>1, <2>2
    <2>4. Payments = SumFunction(f) /\ Payments' = SumFunction(g)
      BY DEF Payments
    <2> HIDE DEF f, g
    <2>5. Grows(f, g, key)
      BY <2>3 DEF Grows, WriterType, NewKey
    <2> QED BY <2>3, <2>4, <2>5, SumGrows
  <1>6. Repeats' = Repeats
    <2> DEFINE f == [k \in DOMAIN records |-> records[k].duplicate_delivery_count]
               g == [k \in DOMAIN records' |-> records'[k].duplicate_delivery_count]
    <2>1. \A k \in DOMAIN records' : records'[k].duplicate_delivery_count \in Int
      BY <1>3 DEF IdempotencyRecord
    <2>2. \A k \in DOMAIN records : records[k].duplicate_delivery_count \in Int
      BY <1>2 DEF IdempotencyRecord
    <2>3. /\ f \in [DOMAIN records -> Int] /\ g \in [DOMAIN records \cup {key} -> Int]
          /\ \A k \in DOMAIN records : g[k] = f[k]
          /\ g[key] = 0
      BY <1>1, <2>1, <2>2 DEF NewKey
    <2>4. Repeats = SumFunction(f) /\ Repeats' = SumFunction(g)
      BY DEF Repeats
    <2> HIDE DEF f, g
    <2>5. Grows(f, g, key)
      BY <2>3 DEF Grows, WriterType, NewKey
    <2> QED BY <2>3, <2>4, <2>5, SumGrows
  <1> QED BY <1>1, <1>3, <1>4, <1>5, <1>6

\* A first processing writes the debit that its key stands for.  That its request
\* stands for no other key follows from the debit's identifier, which was free.
LEMMA FirstKeeps ==
  ASSUME Inv, NEW id \in RequestIds, NEW amount \in Amount, NEW arrived \in Nat,
         NEW key, process_first(id, amount, arrived, key)
  PROVE  CallKeeps
  <1> DEFINE time == arrived + 1
  <1>1. PICK e : /\ e = EntryAfter(1, <<id, "DEBIT">>, PaymentAccount, amount, L!DEBIT, time)
                 /\ L!Accepts(entries, e) /\ entries' = Append(entries, e)
                 /\ key \notin DOMAIN records
                 /\ records' = Remembered(key, Record(id, e))
                 /\ created' = created + 1 /\ acknowledged' = acknowledged + 1
                 /\ posted' = posted
    BY DEF process_first, LedgerTakes
  <1>2. entries \in Seq(L!Entry) /\ L!Canonical(entries) /\ L!UniqueIds(entries) /\ L!LedgerType
    BY DEF Inv, LedgerInv, L!LedgerType, L!WellFormed
  <1>3. time \in Nat
    OBVIOUS
  <1> HIDE DEF time
  <1>4. /\ e \in L!Entry /\ e.entry_id = <<id, "DEBIT">> /\ e.account_id = PaymentAccount
        /\ e.amount = amount /\ e.entry_type = L!DEBIT /\ e.posted_at = time
    <2>1. Writing(e, 1, <<id, "DEBIT">>, PaymentAccount, amount, L!DEBIT, time)
      BY <1>1, <1>3, WriterInputs DEF Writing
    <2> QED BY <2>1, <1>2, WritingAnEntry
  <1>5. Written(entries, entries', e)
    BY <1>1, <1>2, <1>4, EntryWritten
  <1>6. L!Signed(e) = 0 - amount /\ amount \in Nat /\ amount > 0
    BY <1>4, SignedIsInt
  <1>7. PICK record : record = Record(id, e)
    OBVIOUS
  <1>8. /\ record \in IdempotencyRecord /\ record.duplicate_delivery_count = 0
        /\ record.request = id /\ record.amount = amount /\ DebitFor(record, e)
    BY <1>3, <1>4, <1>6, <1>7 DEF Record, IdempotencyRecord, DebitFor
  <1>9. /\ DOMAIN records' = DOMAIN records \cup {key} /\ records'[key] = record
        /\ \A k \in DOMAIN records : records'[k] = records[k]
        /\ records' \in [DOMAIN records' -> IdempotencyRecord]
        /\ IsFiniteSet(DOMAIN records')
        /\ Cardinality(DOMAIN records') = Cardinality(DOMAIN records) + 1
        /\ Payments' = Payments + record.amount /\ Repeats' = Repeats
    <2>1. NewKey(key, record)
      BY <1>1, <1>7, <1>8 DEF NewKey
    <2> QED BY <2>1, NewKeyCounts DEF Inv
  <1>10. LedgerInv'
    BY <1>5, WrittenKeepsLedger DEF Inv
  <1>11. WriterType'
    <2>1. created' \in Nat /\ acknowledged' \in Nat
      BY <1>1 DEF Inv, WriterType
    <2> QED BY <2>1, <1>1, <1>9 DEF Inv, WriterType
  <1>12. PostedIsWritten'
    BY <1>1, <1>5 DEF Inv, PostedIsWritten, Written
  <1>13. KeysHaveDebits'
    <2> SUFFICES ASSUME NEW k \in DOMAIN records'
                 PROVE  \E i \in DOMAIN entries' : DebitFor(records'[k], entries'[i])
      BY DEF KeysHaveDebits
    <2>1. CASE k = key
      BY <2>1, <1>5, <1>8, <1>9 DEF Written
    <2>2. CASE k \in DOMAIN records
      <3>1. PICK i \in DOMAIN entries : DebitFor(records[k], entries[i])
        BY <2>2 DEF Inv, KeysHaveDebits
      <3> QED BY <2>2, <3>1, <1>5, <1>9 DEF Written
    <2> QED BY <2>1, <2>2, <1>9
  <1>14. KeysApart'
    <2>1. \A k \in DOMAIN records : records[k].request # id
      <3> SUFFICES ASSUME NEW k \in DOMAIN records, records[k].request = id PROVE FALSE
        OBVIOUS
      <3>1. PICK i \in DOMAIN entries : entries[i].entry_id = <<id, "DEBIT">>
        BY DEF Inv, KeysHaveDebits, DebitFor
      <3> QED BY <3>1, <1>4, <1>5 DEF Written, L!Ids
    <2> QED BY <2>1, <1>8, <1>9 DEF Inv, KeysApart
  <1>15. CallsCounted'
    <2>1. Repeats \in Int /\ created \in Nat /\ acknowledged \in Nat
      BY SumsAreInts DEF Inv, WriterType
    <2> QED BY <2>1, <1>1, <1>9 DEF Inv, CallsCounted
  <1>16. AccountsExplained'
    <2> SUFFICES ASSUME NEW a \in AccountIds
                 PROVE  L!AccountBalance(entries', a) =
                          PostedEffect(a)' - (IF a = PaymentAccount THEN Payments' ELSE 0)
      BY DEF AccountsExplained
    <2>1. L!AccountBalance(entries, a) =
            PostedEffect(a) - (IF a = PaymentAccount THEN Payments ELSE 0)
      BY DEF Inv, AccountsExplained
    <2>2. L!AccountBalance(entries', a) = L!AccountBalance(entries, a) + Change(e, a)
      BY <1>5 DEF Written, BalancesMove
    <2>3. PostedEffect(a)' = PostedEffect(a)
      BY <1>1 DEF PostedEffect, Effect
    <2>4. PostedEffect(a) \in Int /\ Payments \in Int
      BY SumsAreInts DEF Inv
    <2>5. Change(e, a) = IF a = PaymentAccount THEN 0 - amount ELSE 0
      BY <1>4, <1>6 DEF Change
    <2> QED BY <1>6, <1>8, <1>9, <2>1, <2>2, <2>3, <2>4, <2>5
  <1>17. Inv'
    BY <1>10, <1>11, <1>12, <1>13, <1>14, <1>15, <1>16 DEF Inv
  <1>18. FundsMove
    <2>1. /\ L!Replay(entries) \in Int
          /\ L!Replay(entries') = L!Replay(entries) + (0 - amount)
      BY <1>5, <1>6 DEF Written, BalancesMove
    <2>2. L!Replay(entries') = L!Replay(entries) - amount
      BY <2>1, <1>6
    <2> QED BY <2>2, <1>8, <1>9 DEF FundsMove
  <1> QED BY <1>5, <1>17, <1>18 DEF CallKeeps, Written

\* An acknowledged duplicate counts and changes nothing else.
LEMMA DuplicateKeeps ==
  ASSUME Inv, NEW id, NEW amount, NEW key, process_duplicate(id, amount, key)
  PROVE  Inv' /\ entries' = entries /\ Payments' = Payments
  <1>1. /\ key \in DOMAIN records /\ entries' = entries /\ posted' = posted
        /\ created' = created /\ acknowledged' = acknowledged + 1
        /\ records' = [records EXCEPT ![key].duplicate_delivery_count = @ + 1]
    BY DEF process_duplicate
  <1>2. WriterType
    BY DEF Inv
  <1>3. PICK old : old = records[key]
    OBVIOUS
  <1>4. old \in IdempotencyRecord
    BY <1>1, <1>2, <1>3 DEF WriterType
  <1>5. PICK new : new = [old EXCEPT !.duplicate_delivery_count = @ + 1]
    OBVIOUS
  <1>6. /\ new \in IdempotencyRecord /\ new.request = old.request
        /\ new.amount = old.amount /\ new.first_processed_at = old.first_processed_at
        /\ new.duplicate_delivery_count = old.duplicate_delivery_count + 1
        /\ old.duplicate_delivery_count \in Nat /\ old.amount \in Nat
    BY <1>4, <1>5 DEF IdempotencyRecord
  <1>7. records' = [records EXCEPT ![key] = new]
    BY <1>1, <1>3, <1>5
  <1>8. /\ DOMAIN records' = DOMAIN records /\ records'[key] = new
        /\ \A k \in DOMAIN records \ {key} : records'[k] = records[k]
    BY <1>1, <1>7
  <1>9. \A k \in DOMAIN records : records[k] \in IdempotencyRecord
    BY <1>2 DEF WriterType
  <1>10. records' \in [DOMAIN records' -> IdempotencyRecord]
    <2>1. records \in [DOMAIN records -> IdempotencyRecord]
      BY <1>2 DEF WriterType
    <2> QED BY <2>1, <1>6, <1>7
  <1>11. \A k \in DOMAIN records :
           /\ records'[k].request = records[k].request
           /\ records'[k].amount = records[k].amount
           /\ records'[k].first_processed_at = records[k].first_processed_at
    BY <1>3, <1>6, <1>8
  <1>12. Payments' = Payments
    <2>1. [k \in DOMAIN records' |-> records'[k].amount]
            = [k \in DOMAIN records |-> records[k].amount]
      BY <1>8, <1>11
    <2> QED BY <2>1 DEF Payments
  <1>13. Repeats \in Int /\ Repeats' = Repeats + 1
    <2> DEFINE f == [k \in DOMAIN records |-> records[k].duplicate_delivery_count]
               g == [k \in DOMAIN records' |-> records'[k].duplicate_delivery_count]
    <2>1. \A k \in DOMAIN records' : records'[k].duplicate_delivery_count \in Int
      BY <1>10 DEF IdempotencyRecord
    <2>2. \A k \in DOMAIN records : records[k].duplicate_delivery_count \in Int
      BY <1>9 DEF IdempotencyRecord
    <2>3. /\ f \in [DOMAIN records -> Int] /\ g \in [DOMAIN records -> Int]
          /\ \A k \in DOMAIN records \ {key} : g[k] = f[k]
          /\ g[key] = f[key] + 1
      BY <1>1, <1>3, <1>6, <1>8, <2>1, <2>2
    <2>4. Repeats = SumFunction(f) /\ Repeats' = SumFunction(g)
      BY DEF Repeats
    <2> HIDE DEF f, g
    <2>5. ChangesAt(f, g, key)
      BY <1>1, <1>2, <2>3 DEF ChangesAt, WriterType
    <2>6. /\ SumFunction(f) \in Int /\ f[key] \in Int /\ g[key] \in Int
          /\ SumFunction(g) = SumFunction(f) + (g[key] - f[key])
      BY <2>5, SumChanges
    <2> QED BY <2>3, <2>4, <2>6
  <1>14. LedgerInv'
    <2>1. LedgerInv
      BY DEF Inv
    <2> QED BY <2>1, <1>1 DEF LedgerInv, L!LedgerType, L!WellFormed
  <1>15. WriterType'
    <2>1. acknowledged' \in Nat
      BY <1>1, <1>2 DEF WriterType
    <2> QED BY <2>1, <1>1, <1>2, <1>8, <1>10 DEF WriterType
  <1>16. PostedIsWritten'
    BY <1>1 DEF Inv, PostedIsWritten
  <1>17. KeysHaveDebits'
    <2> SUFFICES ASSUME NEW k \in DOMAIN records'
                 PROVE  \E i \in DOMAIN entries' : DebitFor(records'[k], entries'[i])
      BY DEF KeysHaveDebits
    <2>1. PICK i \in DOMAIN entries : DebitFor(records[k], entries[i])
      BY <1>8 DEF Inv, KeysHaveDebits
    <2>2. DebitFor(records'[k], entries[i])
      BY <2>1, <1>8, <1>11 DEF DebitFor
    <2> QED BY <2>2, <1>1
  <1>18. KeysApart'
    BY <1>8, <1>11 DEF Inv, KeysApart
  <1>19. CallsCounted'
    <2>1. created \in Nat /\ acknowledged \in Nat
      BY <1>2 DEF WriterType
    <2> QED BY <2>1, <1>1, <1>8, <1>13 DEF Inv, CallsCounted
  <1>20. AccountsExplained'
    BY <1>1, <1>12 DEF Inv, AccountsExplained, PostedEffect, Effect
  <1> QED BY <1>1, <1>12, <1>14, <1>15, <1>16, <1>17, <1>18, <1>19, <1>20 DEF Inv

\* The replay of a well-formed ledger is an integer.
LEMMA ReplayIsInt ==
  ASSUME Inv
  PROVE  L!Replay(entries) \in Int
  <1>1. PICK n \in Nat : n = Len(entries)
    BY LenProperties DEF Inv, LedgerInv, L!LedgerType
  <1>2. DOMAIN entries = 1..n /\ \A i \in 1..n : entries[i] \in L!Entry
    BY <1>1, ElementOfSeq, LenProperties DEF Inv, LedgerInv, L!LedgerType
  <1>3. IsFiniteSet(1..n) /\ \A i \in 1..n : L!Signed(entries[i]) \in Int
    BY <1>2, SignedIsInt, FS_Interval
  <1>4. [i \in 1..n |-> L!Signed(entries[i])] \in [1..n -> Int]
    BY <1>3
  <1>5. L!Replay(entries) = SumFunction([i \in 1..n |-> L!Signed(entries[i])])
    BY <1>2, BalancesArePlaced DEF Placed
  <1> QED BY <1>3, <1>4, <1>5, SumType

\* A step that leaves ledger and payments moves no funds.
LEMMA FundsStay ==
  ASSUME Inv, entries' = entries, Payments' = Payments
  PROVE  FundsMove
  BY ReplayIsInt DEF FundsMove
-----------------------------------------------------------------------------
(***************************************************************************)
(* The theorems.                                                           *)
(***************************************************************************)
\* Before the first call there is nothing to add up.
LEMMA NothingYet ==
  ASSUME Init
  PROVE  /\ Payments = 0 /\ Repeats = 0 /\ \A a : PostedEffect(a) = 0
         /\ \A a : L!AccountBalance(entries, a) = 0
         /\ L!Replay(entries) = 0 /\ BankTotal(entries) = 0
  <1>1. /\ entries = <<>> /\ posted = {} /\ records = <<>> /\ created = 0
        /\ acknowledged = 0
    BY DEF Init
  <1>2. DOMAIN entries = {} /\ DOMAIN records = {} /\ <<>> \in Seq(L!Entry)
    BY <1>1
  <1>3. IsFiniteSet({}) /\ Cardinality({}) = 0
    BY FS_EmptySet
  <1>4. \A f : f \in [{} -> Int] => SumFunction(f) = 0
    BY <1>3, SumType
  <1>5. Payments = 0 /\ Repeats = 0
    <2>1. /\ [k \in DOMAIN records |-> records[k].amount] \in [{} -> Int]
          /\ [k \in DOMAIN records |-> records[k].duplicate_delivery_count] \in [{} -> Int]
      BY <1>2
    <2> QED BY <2>1, <1>4 DEF Payments, Repeats
  <1>6. \A a : PostedEffect(a) = 0
    <2>1. \A a : [r \in posted |-> Effect(r, a)] \in [{} -> Int]
      BY <1>1
    <2> QED BY <2>1, <1>4 DEF PostedEffect
  <1>7. \A a : L!AccountBalance(entries, a) = 0
    <2> SUFFICES ASSUME NEW a PROVE L!AccountBalance(entries, a) = 0
      OBVIOUS
    <2> DEFINE S == {i \in DOMAIN entries : entries[i].account_id = a}
    <2>1. S = {}
      BY <1>2
    <2> HIDE DEF S
    <2>2. [i \in S |-> L!Signed(entries[i])] \in [{} -> Int]
      BY <2>1
    <2>3. L!AccountBalance(entries, a) = Placed(entries, S)
      BY BalancesArePlaced DEF S
    <2> QED BY <2>2, <2>3, <1>4 DEF Placed
  <1>8. L!Replay(entries) = 0
    <2>1. [i \in DOMAIN entries |-> L!Signed(entries[i])] \in [{} -> Int]
      BY <1>2
    <2> QED BY <2>1, <1>4, BalancesArePlaced DEF Placed
  <1>9. BankTotal(entries) = 0
    <2> DEFINE f == [a \in AccountIds |-> L!AccountBalance(entries, a)]
               ends == BankTotal(entries)
    <2>1. f \in [AccountIds -> Int] /\ \A a \in AccountIds : f[a] = 0
      BY <1>7
    <2>2. BankTotal(entries) = SumFunction(f)
      BY DEF BankTotal
    <2> HIDE DEF f
    <2> QED BY <2>1, <2>2, WriterInputs, SumOfZeros
  <1> QED BY <1>5, <1>6, <1>7, <1>8, <1>9

LEMMA InvStarts == Init => Inv
  <1> SUFFICES ASSUME Init PROVE Inv
    OBVIOUS
  <1>1. /\ entries = <<>> /\ posted = {} /\ records = <<>> /\ created = 0
        /\ acknowledged = 0
    BY DEF Init
  <1>2. DOMAIN entries = {} /\ DOMAIN records = {} /\ <<>> \in Seq(L!Entry)
    BY <1>1
  <1>3. IsFiniteSet({}) /\ Cardinality({}) = 0
    BY FS_EmptySet
  <1>4. LedgerInv
    <2>1. L!LedgerType
      BY <1>1, <1>2 DEF L!LedgerType
    <2>2. L!WellFormed
      BY <1>2 DEF L!WellFormed, L!Canonical, L!UniqueIds
    <2> QED BY <2>1, <2>2, NothingYet DEF LedgerInv
  <1>5. WriterType
    <2>1. records \in [DOMAIN records -> IdempotencyRecord]
      <3>1. records = [k \in DOMAIN records |-> records[k]] /\ DOMAIN records = {}
        BY <1>1
      <3> QED BY <3>1
    <2> QED BY <2>1, <1>1, <1>2, <1>3 DEF WriterType
  <1>6. PostedIsWritten /\ KeysHaveDebits /\ KeysApart
    BY <1>1, <1>2 DEF PostedIsWritten, KeysHaveDebits, KeysApart
  <1>7. CallsCounted
    BY <1>1, <1>2, <1>3, NothingYet DEF CallsCounted
  <1>8. AccountsExplained
    BY NothingYet DEF AccountsExplained
  <1> QED BY <1>4, <1>5, <1>6, <1>7, <1>8 DEF Inv

\* A step keeps the invariant, extends the ledger as its contract says or leaves it,
\* and moves funds only as FundsMove says.
LEMMA InvContinues ==
  ASSUME Inv, [Next]_vars
  PROVE  /\ Inv' /\ FundsMove
         /\ entries' = entries \/ L!Extends(entries, entries')
  <1>1. CASE UNCHANGED vars
    <2>1. /\ entries' = entries /\ posted' = posted /\ records' = records
          /\ created' = created /\ acknowledged' = acknowledged
      BY <1>1 DEF vars
    <2>2. Inv'
      BY <2>1 DEF Inv, LedgerInv, L!LedgerType, L!WellFormed, WriterType, PostedIsWritten,
         KeysHaveDebits, KeysApart, CallsCounted, Repeats, AccountsExplained,
         PostedEffect, Effect, Payments
    <2>3. Payments' = Payments
      BY <2>1 DEF Payments
    <2> QED BY <2>1, <2>2, <2>3, FundsStay
  <1>2. ASSUME NEW id \in RequestIds, NEW amount \in Amount, NEW account \in AccountIds,
               post_deposit(id, account, amount)
        PROVE  CallKeeps
    BY <1>2, DepositKeeps
  <1>3. ASSUME NEW id \in RequestIds, NEW amount \in Amount, NEW account \in AccountIds,
               NEW pending \in PendingLists,
               process_withdrawal(id, account, amount, pending)
        PROVE  CallKeeps
    BY <1>3, WithdrawalKeeps
  <1>4. ASSUME NEW id \in RequestIds, NEW amount \in Amount, NEW source \in AccountIds,
               NEW destination \in AccountIds,
               process_transfer(id, source, destination, amount)
        PROVE  CallKeeps
    BY <1>4, TransferKeeps
  <1>5. ASSUME NEW id \in RequestIds, NEW amount \in Amount, NEW key \in Keys,
               NEW arrived \in 0..MaxArrival, process_first(id, amount, arrived, key)
        PROVE  CallKeeps
    <2>1. arrived \in Nat
      BY WriterInputs
    <2> QED BY <2>1, <1>5, FirstKeeps
  <1>6. ASSUME NEW id \in RequestIds, NEW amount \in Amount, NEW key \in Keys,
               process_duplicate(id, amount, key)
        PROVE  Inv' /\ FundsMove /\ entries' = entries
    <2>1. Inv' /\ entries' = entries /\ Payments' = Payments
      BY <1>6, DuplicateKeeps
    <2> QED BY <2>1, FundsStay
  <1>7. CASE Next
    <2>1. CallKeeps \/ (Inv' /\ FundsMove /\ entries' = entries)
      BY <1>7, <1>2, <1>3, <1>4, <1>5, <1>6 DEF Next
    <2> QED BY <2>1 DEF CallKeeps
  <1> QED BY <1>1, <1>7

THEOREM Invariant == Spec => []Inv
  <1>1. Inv /\ [Next]_vars => Inv'
    BY InvContinues
  <1> QED BY InvStarts, <1>1, PTL DEF Spec

\* Every account's replayed balance is what posted results and remembered payments
\* explain, and the replay that withdrawals look at is the sum of the accounts.
THEOREM MoneyIsExplained == Spec => []BalancesExplained
  <1>1. Inv => BalancesExplained
    <2> SUFFICES ASSUME Inv PROVE BalancesExplained
      OBVIOUS
    <2>1. \A a \in AccountIds :
            L!AccountBalance(entries, a) =
              SumFunction([r \in posted |-> Effect(r, a)])
                - (IF a = PaymentAccount THEN Payments ELSE 0)
      BY DEF Inv, AccountsExplained, PostedEffect
    <2>2. L!ReplayDefined(entries)
      BY DEF Inv, LedgerInv, L!WellFormed, L!Canonical, L!ReplayDefined
    <2>3. L!Replay(entries) =
            SumFunction([a \in AccountIds |-> L!AccountBalance(entries, a)])
      BY DEF Inv, LedgerInv, BankTotal
    <2> QED BY <2>1, <2>2, <2>3 DEF BalancesExplained
  <1> QED BY <1>1, Invariant, PTL

\* Every remembered key has its debit and shares it with no other key, and every
\* acknowledgement is a first processing or a counted duplicate.
THEOREM OneDebitPerKey == Spec => []KeyMeansOneDebit
  <1>1. Inv => KeyMeansOneDebit
    <2> SUFFICES ASSUME Inv PROVE KeyMeansOneDebit
      OBVIOUS
    <2>1. \A k \in DOMAIN records :
            \E i \in DOMAIN entries :
              /\ entries[i].entry_id = <<records[k].request, "DEBIT">>
              /\ entries[i].account_id = PaymentAccount
              /\ entries[i].entry_type = L!DEBIT
              /\ entries[i].amount = records[k].amount
              /\ entries[i].posted_at = records[k].first_processed_at
      BY DEF Inv, KeysHaveDebits, DebitFor
    <2>2. IsInjective([k \in DOMAIN records |-> records[k].request])
      BY DEF Inv, KeysApart, IsInjective
    <2>3. /\ created = Cardinality(DOMAIN records)
          /\ acknowledged = created
               + SumFunction([k \in DOMAIN records |-> records[k].duplicate_delivery_count])
      BY DEF Inv, CallsCounted, Repeats
    <2> QED BY <2>1, <2>2, <2>3 DEF KeyMeansOneDebit
  <1> QED BY <1>1, Invariant, PTL

\* Whatever is called in whatever order, the writers keep the ledger's contract.
THEOREM KeepsLedgerContract == Spec => LedgerContract
  <1>1. Inv => L!LedgerType /\ L!WellFormed
    BY DEF Inv, LedgerInv
  <1>2. Inv /\ [Next]_vars => [L!LedgerType' /\ L!Extends(entries, entries')]_entries
    <2> SUFFICES ASSUME Inv, [Next]_vars
                 PROVE  [L!LedgerType' /\ L!Extends(entries, entries')]_entries
      OBVIOUS
    <2>1. Inv' /\ (entries' = entries \/ L!Extends(entries, entries'))
      BY InvContinues
    <2> QED BY <2>1 DEF Inv, LedgerInv
  <1>3. Spec => []Inv
    BY Invariant
  <1>4. Init => L!LedgerType /\ L!WellFormed
    BY InvStarts, <1>1
  <1> QED BY <1>1, <1>2, <1>3, <1>4, PTL DEF Spec, LedgerContract, L!LedgerContract
-----------------------------------------------------------------------------
(***************************************************************************)
(* What withdrawals spend.  There is a most that pending credits promise   *)
(* when they are bounded, as they are in every finite set of lists.        *)
(***************************************************************************)
Promised(pending) == PendingOf(pending, PENDING_CREDIT) - PendingOf(pending, PENDING_DEBIT)

PendingBounded ==
  \E most \in Nat : \A p \in PendingLists : ProjectionDefined(p) => Promised(p) <= most

LEMMA PendingIsInt ==
  ASSUME NEW pending \in PendingLists
  PROVE  /\ \A type : PendingOf(pending, type) \in Int
         /\ Promised(pending) \in Int
  <1>1. pending \in Seq(PendingTransaction)
    BY WriterInputs
  <1>2. PICK n \in Nat : n = Len(pending)
    BY <1>1, LenProperties
  <1>3. DOMAIN pending = 1..n /\ \A i \in 1..n : pending[i] \in PendingTransaction
    BY <1>1, <1>2, ElementOfSeq, LenProperties
  <1>4. ASSUME NEW type PROVE PendingOf(pending, type) \in Int
    <2> DEFINE S == {j \in DOMAIN pending : pending[j].transaction_type = type}
               f == [i \in S |-> pending[i].amount]
    <2>1. S \in SUBSET (1..n) /\ IsFiniteSet(1..n)
      BY <1>3, FS_Interval
    <2>2. IsFiniteSet(S)
      BY <2>1, FS_Subset
    <2>3. f \in [S -> Int]
      BY <1>3 DEF PendingTransaction
    <2>4. PendingOf(pending, type) = SumFunction(f)
      BY DEF PendingOf
    <2> HIDE DEF S, f
    <2> QED BY <2>2, <2>3, <2>4, SumType
  <1> QED BY <1>4 DEF Promised

LEMMA MostPromised ==
  ASSUME PendingBounded
  PROVE  /\ PendingCredits \in Nat
         /\ \A p \in PendingLists : ProjectionDefined(p) => Promised(p) <= PendingCredits
  <1> DEFINE S == {0} \cup {PendingOf(p, PENDING_CREDIT) - PendingOf(p, PENDING_DEBIT) :
                              p \in {q \in PendingLists : ProjectionDefined(q)}}
  <1>1. PICK most \in Nat :
          \A p \in PendingLists : ProjectionDefined(p) => Promised(p) <= most
    BY DEF PendingBounded
  <1>2. S \in SUBSET Int /\ S # {} /\ 0 \in S
    BY PendingIsInt
  <1>3. \A x \in S : x <= most
    BY <1>1 DEF Promised
  <1>4. \A p \in PendingLists : ProjectionDefined(p) => Promised(p) \in S
    BY DEF Promised
  <1>5. PendingCredits = Max(S)
    BY DEF PendingCredits
  <1> HIDE DEF S
  <1>6. Max(S) \in S /\ \A x \in S : x <= Max(S)
    <2>1. most \in Int
      OBVIOUS
    <2> QED BY <2>1, <1>2, <1>3, MaxOfBounded
  <1>7. Max(S) \in Nat
    <2>1. PICK m : m = Max(S)
      OBVIOUS
    <2>2. m \in Int /\ 0 <= m
      BY <1>2, <1>6, <2>1
    <2> QED BY <2>1, <2>2
  <1> QED BY <1>4, <1>5, <1>6, <1>7

FundsInv == FundsCovered /\ Payments >= 0

LEMMA FundsAreInts == Inv => L!Replay(entries) \in Int /\ Payments \in Int
  BY ReplayIsInt, SumsAreInts DEF Inv

\* The bank as a whole only goes below zero by payments and by the pending credits
\* that withdrawals were told of.
THEOREM SpentWasThere == ASSUME PendingBounded PROVE Spec => []FundsCovered
  <1>1. (Inv => L!Replay(entries) \in Int /\ Payments \in Int)'
    BY FundsAreInts, PTL
  <1>2. Inv /\ Init => FundsInv
    <2> SUFFICES ASSUME Inv, Init PROVE FundsInv
      OBVIOUS
    <2>1. L!Replay(entries) = 0 /\ Payments = 0
      BY NothingYet
    <2> QED BY <2>1, MostPromised DEF FundsInv, FundsCovered
  <1>3. Inv /\ FundsInv /\ [Next]_vars => FundsInv'
    <2> SUFFICES ASSUME Inv, FundsInv, [Next]_vars PROVE FundsInv'
      OBVIOUS
    <2>1. Inv' /\ FundsMove
      BY InvContinues
    <2> DEFINE now == L!Replay(entries)
               next == L!Replay(entries')
               most == PendingCredits
    <2>2. now \in Int /\ Payments \in Int
      BY FundsAreInts
    <2>3. next \in Int /\ Payments' \in Int
      BY <2>1, <1>1
    <2>4. most \in Nat /\ now + Payments + most >= 0 /\ Payments >= 0
      BY MostPromised DEF FundsInv, FundsCovered
    <2>5. next + Payments' + most >= 0 /\ Payments' >= 0
      <3>1. CASE Payments' = Payments /\ next >= now
        BY <3>1, <2>2, <2>3, <2>4
      <3>2. ASSUME Payments' = Payments,
                   NEW pending \in PendingLists, NEW amount \in Amount,
                   ProjectionDefined(pending), amount <= AvailableBalance(pending),
                   next = now - amount
            PROVE  next + Payments' + most >= 0 /\ Payments' >= 0
        <4>1. /\ PendingOf(pending, PENDING_CREDIT) \in Int
              /\ PendingOf(pending, PENDING_DEBIT) \in Int
              /\ PendingOf(pending, PENDING_CREDIT) - PendingOf(pending, PENDING_DEBIT) <= most
          BY <3>2, MostPromised, PendingIsInt DEF Promised
        <4>2. amount <= now - PendingOf(pending, PENDING_DEBIT)
                            + PendingOf(pending, PENDING_CREDIT)
          BY <3>2 DEF AvailableBalance
        <4>3. amount \in Nat
          BY <3>2, WriterInputs DEF Amount
        <4> HIDE DEF now, next, most
        <4> QED BY <3>2, <4>1, <4>2, <4>3, <2>2, <2>3, <2>4
      <3>3. ASSUME NEW amount \in Amount,
                   Payments' = Payments + amount, next = now - amount
            PROVE  next + Payments' + most >= 0 /\ Payments' >= 0
        <4>1. amount \in Nat
          BY <3>3, WriterInputs DEF Amount
        <4> HIDE DEF now, next, most
        <4> QED BY <3>3, <4>1, <2>2, <2>3, <2>4
      <3> QED BY <2>1, <3>1, <3>2, <3>3 DEF FundsMove
    <2>6. PendingCredits' = PendingCredits
      BY DEF PendingCredits, PendingOf, ProjectionDefined
    <2> QED BY <2>5, <2>6 DEF FundsInv, FundsCovered
  <1>4. Spec => []Inv
    BY Invariant
  <1>5. FundsInv => FundsCovered
    BY DEF FundsInv
  <1> QED BY <1>2, <1>3, <1>4, <1>5, PTL DEF Spec
=============================================================================
