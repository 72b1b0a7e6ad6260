---------------------------- MODULE Ledger_proofs ----------------------------
(***************************************************************************)
(* Proofs about the ledger, for every set of identifiers and accounts and  *)
(* every bound: a ledger that is only extended by accepted batches stays   *)
(* well formed (ContractSafety, which every writer of the ledger inherits),*)
(* the ledger on its own implements that contract, and append_batch        *)
(* accepts a pair exactly when two appends would.  Then three parts whose  *)
(* state is their own: the membership application, the scripts of repeated *)
(* deliveries, and the event scheduler.                                    *)
(***************************************************************************)
EXTENDS Duplicates, Onboarding, EventScheduler, DataLemmas

\* What a proof has to know about a batch that was accepted: the elements of
\* the longer ledger, position by position.
LEMMA ExtensionElements ==
  ASSUME NEW s \in Seq(Entry), NEW b \in Seq(Entry)
  PROVE  /\ s \o b \in Seq(Entry)
         /\ DOMAIN (s \o b) = 1..(Len(s) + Len(b))
         /\ DOMAIN s = 1..Len(s) /\ DOMAIN b = 1..Len(b)
         /\ Len(s) \in Nat /\ Len(b) \in Nat
         /\ \A i \in 1..Len(s) : (s \o b)[i] = s[i] /\ s[i] \in Entry
         /\ \A i \in 1..Len(b) : (s \o b)[Len(s) + i] = b[i] /\ b[i] \in Entry
  <1>1. \A i \in 1..Len(s) : s[i] \in Entry
    BY ElementOfSeq
  <1>2. \A i \in 1..Len(b) : b[i] \in Entry
    BY ElementOfSeq
  <1> QED BY <1>1, <1>2, ConcatProperties, LenProperties

\* An accepted batch leaves a well-formed ledger well formed: the sequence
\* numbers go on, the posting times go on not to decrease, and no identifier is
\* repeated against the ledger or inside the batch.
LEMMA AcceptedBatchKeepsForm ==
  ASSUME NEW s \in Seq(Entry), NEW b \in Seq(Entry),
         Canonical(s), UniqueIds(s), AcceptsBatch(s, b)
  PROVE  Canonical(s \o b) /\ UniqueIds(s \o b)
  <1> DEFINE t == s \o b
             n == Len(s)
  <1>e. /\ DOMAIN t = 1..(n + Len(b)) /\ DOMAIN s = 1..n /\ DOMAIN b = 1..Len(b)
        /\ n \in Nat /\ Len(b) \in Nat
        /\ \A i \in 1..n : t[i] = s[i]
        /\ \A i \in 1..Len(b) : t[n + i] = b[i]
    BY ExtensionElements
  <1>p. /\ \A i \in 1..n : s[i].posted_at \in Nat
        /\ \A i \in 1..Len(b) : b[i].posted_at \in Nat
    BY ExtensionElements DEF Entry
  <1>s. \A i \in 1..(n + Len(b)) :
          \/ i \in 1..n
          \/ i - n \in 1..Len(b) /\ n + (i - n) = i
    BY <1>e
  <1>n. \A i \in 1..Len(b) : b[i].sequence = n + i
    BY <1>e DEF AcceptsBatch
  <1> HIDE DEF t, n
  <1>1. \A i \in DOMAIN t : t[i].sequence = i
    <2> SUFFICES ASSUME NEW i \in 1..(n + Len(b)) PROVE t[i].sequence = i
      BY <1>e
    <2>1. CASE i \in 1..n
      BY <2>1, <1>e DEF Canonical
    <2>2. CASE i - n \in 1..Len(b) /\ n + (i - n) = i
      BY <2>2, <1>e, <1>n
    <2> QED BY <2>1, <2>2, <1>s
  <1>2. \A i \in DOMAIN t \ {1} : t[i - 1].posted_at <= t[i].posted_at
    <2> SUFFICES ASSUME NEW i \in 1..(n + Len(b)), i # 1
                 PROVE  t[i - 1].posted_at <= t[i].posted_at
      BY <1>e
    <2>1. CASE i \in 1..n
      <3>1. i - 1 \in 1..n
        BY <2>1, <1>e
      <3> QED BY <3>1, <2>1, <1>e DEF Canonical
    <2>2. CASE i - n \in 1..Len(b) /\ n + (i - n) = i
      <3>1. b[i - n].posted_at >= IF i - n = 1 THEN LastPosted(s)
                                  ELSE b[i - n - 1].posted_at
        BY <2>2, <1>e DEF AcceptsBatch
      <3>2. t[i] = b[i - n]
        BY <2>2, <1>e
      <3>3. CASE i - n = 1
        <4>1. i - 1 = n /\ n \in 1..n /\ s # <<>>
          BY <3>3, <2>2, <1>e
        <4>2. LastPosted(s) = t[i - 1].posted_at
          BY <4>1, <1>e DEF LastPosted, n
        <4>3. b[i - n].posted_at >= LastPosted(s)
          BY <3>1, <3>3
        <4>4. t[i - 1].posted_at \in Nat /\ b[i - n].posted_at \in Nat
          BY <4>1, <2>2, <1>e, <1>p
        <4> QED BY <4>2, <4>3, <4>4, <3>2
      <3>4. CASE i - n # 1
        <4>1. i - n - 1 \in 1..Len(b) /\ n + (i - n - 1) = i - 1
          BY <3>4, <2>2, <1>e
        <4>2. t[i - 1] = b[i - n - 1]
          BY <4>1, <1>e
        <4>3. b[i - n].posted_at >= b[i - n - 1].posted_at
          BY <3>1, <3>4
        <4>4. b[i - n - 1].posted_at \in Nat /\ b[i - n].posted_at \in Nat
          BY <4>1, <2>2, <1>p
        <4> QED BY <4>2, <4>3, <4>4, <3>2
      <3> QED BY <3>3, <3>4
    <2> QED BY <2>1, <2>2, <1>s
  <1>3. UniqueIds(t)
    <2>1. \A i \in 1..n, k \in 1..Len(b) : s[i].entry_id # b[k].entry_id
      <3>1. \A k \in 1..Len(b) : b[k].entry_id \notin Ids(s)
        BY ONLY <1>e, AcceptsBatch(s, b) DEF AcceptsBatch
      <3>2. \A i \in 1..n : s[i].entry_id \in Ids(s)
        BY ONLY <1>e DEF Ids
      <3> QED BY ONLY <3>1, <3>2
    <2>2. \A i, k \in 1..Len(b) : i < k => b[i].entry_id # b[k].entry_id
      <3> SUFFICES ASSUME NEW i \in 1..Len(b), NEW k \in 1..Len(b), i < k
                   PROVE  b[i].entry_id # b[k].entry_id
        OBVIOUS
      <3>1. i \in 1..(k - 1)
        BY <1>e
      <3> QED BY <3>1, <1>e DEF AcceptsBatch
    <2>3. \A i, k \in 1..Len(b) : b[i].entry_id = b[k].entry_id => i = k
      <3>1. \A i, k \in 1..Len(b) : i < k \/ k < i \/ i = k
        BY <1>e
      <3> QED BY <3>1, <2>2
    <2> SUFFICES ASSUME NEW i \in 1..(n + Len(b)), NEW k \in 1..(n + Len(b)),
                        t[i].entry_id = t[k].entry_id
                 PROVE  i = k
      BY <1>e DEF UniqueIds
    <2>4. CASE i \in 1..n /\ k \in 1..n
      BY <2>4, <1>e DEF UniqueIds
    <2>5. CASE i \in 1..n /\ k - n \in 1..Len(b) /\ n + (k - n) = k
      <3>1. t[i] = s[i] /\ t[k] = b[k - n]
        BY <2>5, <1>e
      <3> QED BY <3>1, <2>5, <2>1
    <2>6. CASE k \in 1..n /\ i - n \in 1..Len(b) /\ n + (i - n) = i
      <3>1. t[k] = s[k] /\ t[i] = b[i - n]
        BY <2>6, <1>e
      <3> QED BY <3>1, <2>6, <2>1
    <2>7. CASE /\ i - n \in 1..Len(b) /\ n + (i - n) = i
               /\ k - n \in 1..Len(b) /\ n + (k - n) = k
      <3>1. t[i] = b[i - n] /\ t[k] = b[k - n]
        BY <2>7, <1>e
      <3>2. i - n = k - n
        BY <3>1, <2>7, <2>3
      <3> QED BY <3>2, <1>e
    <2> QED BY <2>4, <2>5, <2>6, <2>7, <1>s
  <1> QED BY <1>1, <1>2, <1>3 DEF Canonical, t

\* A ledger that extends a typed one by an accepted batch extends it by a
\* sequence of entries.
LEMMA BatchIsTyped ==
  ASSUME NEW s \in Seq(Entry), NEW t \in Seq(Entry), Extends(s, t)
  PROVE  \E b \in Seq(Entry) : t = s \o b /\ AcceptsBatch(s, b)
  <1> DEFINE b == SubSeq(t, Len(s) + 1, Len(t))
  <1>1. t = s \o b /\ AcceptsBatch(s, b)
    BY DEF Extends
  <1>2. \A i \in (Len(s) + 1)..Len(t) : t[i] \in Entry
    BY ElementOfSeq, LenProperties
  <1>3. b \in Seq(Entry)
    BY <1>2, SubSeqProperties, LenProperties
  <1> QED BY <1>1, <1>3

\* Whoever keeps the ledger's contract keeps the ledger well formed: contiguous
\* sequence numbers, posting times that never decrease, every identifier once
\* (what Ledger.append and append_batch guarantee to replay and to the writers).
THEOREM ContractSafety == LedgerContract => [](LedgerType /\ WellFormed)
  <1>1. (LedgerType /\ WellFormed) /\ [LedgerType' /\ Extends(entries, entries')]_entries
          => (LedgerType /\ WellFormed)'
    <2> SUFFICES ASSUME LedgerType, WellFormed,
                        [LedgerType' /\ Extends(entries, entries')]_entries
                 PROVE  (LedgerType /\ WellFormed)'
      OBVIOUS
    <2>1. CASE LedgerType' /\ Extends(entries, entries')
      <3>1. PICK b \in Seq(Entry) :
              entries' = entries \o b /\ AcceptsBatch(entries, b)
        BY <2>1, BatchIsTyped DEF LedgerType
      <3> QED BY <3>1, <2>1, AcceptedBatchKeepsForm DEF LedgerType, WellFormed
    <2>2. CASE UNCHANGED entries
      BY <2>2 DEF LedgerType, WellFormed
    <2> QED BY <2>1, <2>2
  <1> QED BY <1>1, PTL DEF LedgerContract

\* An entry of the bounded inputs is an entry.
LEMMA CandidatesAreEntries ==
  ASSUME NEW e \in Candidates
  PROVE  e \in Entry
  BY LedgerBounds DEF Candidates, Entry

\* append takes an entry exactly when append_batch takes the batch of it alone.
LEMMA AppendIsBatchOfOne ==
  ASSUME NEW s \in Seq(Entry), NEW e \in Entry, Accepts(s, e)
  PROVE  AcceptsBatch(s, <<e>>)
  <1>1. DOMAIN <<e>> = {1} /\ <<e>>[1] = e /\ <<e>> # <<>>
    OBVIOUS
  <1>2. \A i \in DOMAIN <<e>> : i = 1
    BY <1>1
  <1>3. \A j \in 1..(1 - 1) : <<e>>[j].entry_id # e.entry_id
    OBVIOUS
  <1> QED BY <1>1, <1>2, <1>3 DEF Accepts, AcceptsBatch

\* Appending a sequence is a step of the contract once the batch is accepted.
LEMMA AcceptedBatchExtends ==
  ASSUME NEW s \in Seq(Entry), NEW b \in Seq(Entry), AcceptsBatch(s, b)
  PROVE  s \o b \in Seq(Entry) /\ Extends(s, s \o b)
  <1>1. Len(s \o b) = Len(s) + Len(b) /\ s \o b \in Seq(Entry)
    BY ConcatProperties
  <1>2. SubSeq(s \o b, Len(s) + 1, Len(s) + Len(b)) = b
    <2> DEFINE c == SubSeq(s \o b, Len(s) + 1, Len(s) + Len(b))
    <2>1. Len(s) \in Nat /\ Len(b) \in Nat
      BY LenProperties
    <2>2. \A i \in (Len(s) + 1)..(Len(s) + Len(b)) : (s \o b)[i] \in Entry
      BY <1>1, ElementOfSeq, <2>1
    <2>3. /\ c \in Seq(Entry)
          /\ Len(c) = Len(b)
          /\ \A i \in 1..Len(c) : c[i] = (s \o b)[Len(s) + i]
      BY <2>1, <2>2, <1>1, SubSeqProperties
    <2>4. \A i \in 1..Len(b) : c[i] = b[i]
      BY <2>3, <2>1, ConcatProperties
    <2> HIDE DEF c
    <2>5. c = b
      BY <2>3, <2>4, SeqEqual
    <2> QED BY <2>5 DEF c
  <1> QED BY <1>1, <1>2 DEF Extends

\* The ledger on its own keeps the contract that its writers rely on: append and
\* append_batch only ever extend it by a batch that was validated as a whole.
THEOREM ImplementsContract == LedgerSpec => LedgerContract
  <1>1. LedgerInit => LedgerType /\ WellFormed
    BY DEF LedgerInit, LedgerType, WellFormed, Canonical, UniqueIds
  <1>2. LedgerType /\ [LedgerNext]_entries
          => LedgerType' /\ [LedgerType' /\ Extends(entries, entries')]_entries
    <2> SUFFICES ASSUME LedgerType, [LedgerNext]_entries
                 PROVE  /\ LedgerType'
                        /\ [LedgerType' /\ Extends(entries, entries')]_entries
      OBVIOUS
    <2>1. CASE append
      <3>1. PICK e \in Candidates : /\ Accepts(entries, e)
                                    /\ entries' = Append(entries, e)
        BY <2>1 DEF append
      <3>2. e \in Entry /\ <<e>> \in Seq(Entry)
        BY CandidatesAreEntries
      <3>3. AcceptsBatch(entries, <<e>>)
        BY <3>1, <3>2, AppendIsBatchOfOne DEF LedgerType
      <3>4. entries' = entries \o <<e>>
        BY <3>1, <3>2, AppendIsConcat DEF LedgerType
      <3> QED BY <3>2, <3>3, <3>4, AcceptedBatchExtends DEF LedgerType
    <2>2. CASE append_batch
      <3>1. PICK e \in Candidates, f \in Candidates :
              /\ AcceptsBatch(entries, <<e, f>>)
              /\ entries' = entries \o <<e, f>>
        BY <2>2 DEF append_batch
      <3>2. <<e, f>> \in Seq(Entry)
        BY CandidatesAreEntries
      <3> QED BY <3>1, <3>2, AcceptedBatchExtends DEF LedgerType
    <2>3. CASE UNCHANGED entries
      BY <2>3 DEF LedgerType
    <2> QED BY <2>1, <2>2, <2>3 DEF LedgerNext
  <1> QED BY <1>1, <1>2, PTL DEF LedgerSpec, LedgerContract

\* The ledger holds entries only.
THEOREM TypeCorrect == LedgerSpec => []LedgerType
  BY ImplementsContract, ContractSafety, PTL

\* Sequence numbers, posting times and identifiers of the ledger stay in order.
THEOREM StaysWellFormed == LedgerSpec => []WellFormed
  BY ImplementsContract, ContractSafety, PTL

\* What append_batch asks of a batch of two, spelled out entry by entry.
LEMMA BatchOfTwo ==
  ASSUME NEW s \in Seq(Entry), NEW e \in Entry, NEW f \in Entry
  PROVE  AcceptsBatch(s, <<e, f>>) <=>
           /\ e.sequence = Len(s) + 1 /\ f.sequence = Len(s) + 2
           /\ e.entry_id \notin Ids(s) /\ f.entry_id \notin Ids(s)
           /\ e.entry_id # f.entry_id
           /\ e.posted_at >= LastPosted(s) /\ f.posted_at >= e.posted_at
  <1> DEFINE b == <<e, f>>
  <1>1. /\ b # <<>> /\ b[1] = e /\ b[2] = f
        /\ 1 \in DOMAIN b /\ 2 \in DOMAIN b
        /\ \A i \in DOMAIN b : i = 1 \/ i = 2
    OBVIOUS
  <1>2. 1..(1 - 1) = {} /\ 1..(2 - 1) = {1} /\ 2 # 1 /\ 2 - 1 = 1
    OBVIOUS
  <1> HIDE DEF b
  <1>3. AcceptsBatch(s, b) <=>
          /\ /\ e.sequence = Len(s) + 1
             /\ e.entry_id \notin Ids(s)
             /\ e.posted_at >= LastPosted(s)
          /\ /\ f.sequence = Len(s) + 2
             /\ f.entry_id \notin Ids(s)
             /\ e.entry_id # f.entry_id
             /\ f.posted_at >= e.posted_at
    BY <1>1, <1>2 DEF AcceptsBatch
  <1> QED BY <1>3 DEF b

\* append_batch takes a pair exactly when two appends in a row would: validating
\* the batch as a whole is neither laxer nor stricter than appending.
THEOREM BatchIsTwoAppends == LedgerSpec => []BatchMeansOneByOne
  <1>1. LedgerType => BatchMeansOneByOne
    <2> SUFFICES ASSUME LedgerType, NEW e \in Candidates, NEW f \in Candidates
                 PROVE  AcceptsBatch(entries, <<e, f>>) <=>
                          Accepts(entries, e) /\ Accepts(Append(entries, e), f)
      BY DEF BatchMeansOneByOne
    <2> DEFINE longer == Append(entries, e)
    <2>1. e \in Entry /\ f \in Entry /\ entries \in Seq(Entry)
      BY CandidatesAreEntries DEF LedgerType
    <2>2. /\ Len(entries) \in Nat
          /\ Len(longer) = Len(entries) + 1 /\ longer # <<>>
          /\ DOMAIN longer = 1..(Len(entries) + 1)
          /\ DOMAIN entries = 1..Len(entries)
          /\ \A i \in 1..Len(entries) : longer[i] = entries[i]
          /\ longer[Len(entries) + 1] = e
      BY <2>1, AppendProperties, LenProperties
    <2> HIDE DEF longer
    <2>3. Ids(longer) = Ids(entries) \cup {e.entry_id}
      BY <2>2 DEF Ids
    <2>4. LastPosted(longer) = e.posted_at
      BY <2>2 DEF LastPosted
    <2>5. Accepts(longer, f) <=>
            /\ f.sequence = Len(entries) + 2
            /\ f.entry_id \notin Ids(entries) /\ f.entry_id # e.entry_id
            /\ f.posted_at >= e.posted_at
      BY <2>2, <2>3, <2>4 DEF Accepts
    <2> QED BY <2>1, <2>5, BatchOfTwo DEF Accepts, longer
  <1> QED BY <1>1, TypeCorrect, PTL
-----------------------------------------------------------------------------
(***************************************************************************)
(* A membership application: its history supports the decision it ends     *)
(* with, however many operations are called in whatever order.             *)
(***************************************************************************)
ApplicationStatus == {"Draft", "Submitted", "Under review", "Approved", "Rejected"}
Eligibility == {"Not evaluated", "Eligible", "Ineligible"}
IdentityStatus == {"Not started", "Passed", "Failed"}

RecordName == {"created", "submitted", "review started", "eligibility", "identity",
               "approved", "rejected"}
RecordText == ApplicationStatus \cup Eligibility \cup IdentityStatus
                \cup RejectionReason

LogRecord == [event : RecordName, detail : RecordText]

ApplicationType ==
  /\ application \in [status : ApplicationStatus, eligibility : Eligibility,
                      identity : IdentityStatus,
                      reason : RejectionReason \cup {"None"}]
  /\ eligibleRegion \in BOOLEAN
  /\ log \in Seq(LogRecord)

\* What the history says of a check is what the application remembers of it.
ChecksLogged ==
  /\ Details("eligibility") = IF application.eligibility = "Not evaluated"
                              THEN {} ELSE {application.eligibility}
  /\ Details("identity") = IF application.identity = "Not started"
                           THEN {} ELSE {application.identity}

\* A decision is the last record, of a reviewed application, and has its facts.
DecisionLogged ==
  /\ Times("approved") \cup Times("rejected") \subseteq {Len(log)}
  /\ Times("approved") # {} <=> application.status = "Approved"
  /\ Times("rejected") # {} <=> application.status = "Rejected"
  /\ application.status = "Under review" => Times("review started") # {}
  /\ application.status \in {"Approved", "Rejected"} =>
       \E j \in Times("review started") : j < Len(log)
  /\ application.status = "Approved" => /\ application.eligibility = "Eligible"
                                        /\ application.identity = "Passed"
  /\ "Ineligible" \in Details("rejected") =>
       application.eligibility = "Ineligible"
  /\ "Identity verification failed" \in Details("rejected") =>
       application.identity = "Failed"

ApplicationInv == ApplicationType /\ ChecksLogged /\ DecisionLogged

\* What is among the first n comes before what is added next.
LEMMA SomeBeforeNext ==
  ASSUME NEW n \in Nat, NEW S \in SUBSET (1..n), S # {}
  PROVE  \E j \in S : j < n + 1
  <1>1. PICK j \in S : TRUE
    OBVIOUS
  <1>2. j < n + 1
    OBVIOUS
  <1> QED BY <1>1, <1>2

\* One more record changes what is known under its own name only.
LEMMA OneMoreRecord ==
  ASSUME ApplicationType, NEW next, NEW name \in RecordName, NEW text \in RecordText,
         Changes(next, name, text)
  PROVE  /\ log' \in Seq(LogRecord) /\ Len(log') = Len(log) + 1
         /\ Len(log) \in Nat
         /\ \A x : Times(x) \subseteq 1..Len(log)
         /\ \A x : Times(x)' = IF x = name THEN Times(x) \cup {Len(log) + 1}
                               ELSE Times(x)
         /\ \A x : Details(x)' = IF x = name THEN Details(x) \cup {text}
                                 ELSE Details(x)
  <1> DEFINE new == [event |-> name, detail |-> text]
  <1>1. new \in LogRecord /\ log \in Seq(LogRecord) /\ log' = Append(log, new)
    BY DEF Changes, ApplicationType, LogRecord
  <1>2. /\ log' \in Seq(LogRecord) /\ Len(log') = Len(log) + 1
        /\ Len(log) \in Nat
        /\ DOMAIN log = 1..Len(log) /\ DOMAIN log' = 1..(Len(log) + 1)
        /\ \A i \in 1..Len(log) : log'[i] = log[i]
        /\ log'[Len(log) + 1].event = name /\ log'[Len(log) + 1].detail = text
    BY <1>1, AppendProperties, LenProperties
  <1> HIDE DEF new
  <1>3. \A x : Times(x) \subseteq 1..Len(log)
    BY <1>2 DEF Times
  <1>4. ASSUME NEW x
        PROVE  Times(x)' = IF x = name THEN Times(x) \cup {Len(log) + 1}
                           ELSE Times(x)
    BY <1>2 DEF Times
  <1>5. Len(log) + 1 \notin 1..Len(log)
    BY <1>2
  <1>6. ASSUME NEW x
        PROVE  Details(x)' = IF x = name THEN Details(x) \cup {text}
                             ELSE Details(x)
    <2>1. \A y : Details(y) = {log[i].detail : i \in Times(y)}
      BY DEF Details, Times
    <2>2. Details(x)' = {log'[i].detail : i \in Times(x)'}
      BY DEF Details, Times
    <2>3. \A i \in Times(x) : log'[i] = log[i]
      BY <1>2, <1>3
    <2> QED BY <1>2, <1>4, <2>1, <2>2, <2>3
  <1> QED BY <1>2, <1>3, <1>4, <1>6

LEMMA ApplicationStart == ApplicationInit => ApplicationInv
  <1> SUFFICES ASSUME ApplicationInit PROVE ApplicationInv
    OBVIOUS
  <1>1. /\ log \in Seq(LogRecord) /\ Len(log) = 1 /\ DOMAIN log = {1}
        /\ log[1].event = "created"
    BY DEF ApplicationInit, LogRecord, RecordName, RecordText, ApplicationStatus
  <1>2. \A x : x # "created" => Times(x) = {} /\ Details(x) = {}
    BY <1>1 DEF Times, Details
  <1>3. ApplicationType
    BY <1>1 DEF ApplicationInit, ApplicationType, Draft, ApplicationStatus,
                Eligibility, IdentityStatus
  <1>4. /\ application.status = "Draft"
        /\ application.eligibility = "Not evaluated"
        /\ application.identity = "Not started"
    BY DEF ApplicationInit, Draft
  <1>5. /\ Times("approved") = {} /\ Times("rejected") = {}
        /\ Details("rejected") = {}
        /\ Details("eligibility") = {} /\ Details("identity") = {}
    BY <1>2
  <1>6. ChecksLogged
    BY <1>4, <1>5 DEF ChecksLogged
  <1>7. DecisionLogged
    BY <1>4, <1>5 DEF DecisionLogged
  <1> QED BY <1>3, <1>6, <1>7 DEF ApplicationInv

\* Each operation keeps the history and the application in step.
LEMMA ApplicationStep == ApplicationInv /\ [ApplicationNext]_applicationVars
                           => ApplicationInv'
  <1> SUFFICES ASSUME ApplicationInv, [ApplicationNext]_applicationVars
               PROVE  ApplicationInv'
    OBVIOUS
  <1> USE DEF ApplicationInv, ApplicationStatus, Eligibility, IdentityStatus,
              RecordName, RecordText
  <1>1. CASE submit_application
    <2>1. Changes([application EXCEPT !.status = "Submitted"], "submitted",
                  "Submitted")
      BY <1>1 DEF submit_application
    <2>2. ApplicationType'
      BY <2>1, OneMoreRecord DEF ApplicationType, Changes
    <2>3. application.status = "Draft" /\ application'.status = "Submitted"
          /\ application'.eligibility = application.eligibility
          /\ application'.identity = application.identity
      BY <1>1, <2>1 DEF submit_application, In, Changes, ApplicationType
    <2>c. ChecksLogged'
      BY <2>1, <2>3, OneMoreRecord DEF ChecksLogged
    <2>d. DecisionLogged'
      BY <2>1, <2>3, OneMoreRecord DEF DecisionLogged
    <2> QED BY <2>2, <2>c, <2>d
  <1>2. CASE begin_review
    <2>1. Changes([application EXCEPT !.status = "Under review"],
                  "review started", "Under review")
      BY <1>2 DEF begin_review
    <2>2. ApplicationType'
      BY <2>1, OneMoreRecord DEF ApplicationType, Changes
    <2>3. application.status = "Submitted" /\ application'.status = "Under review"
          /\ application'.eligibility = application.eligibility
          /\ application'.identity = application.identity
      BY <1>2, <2>1 DEF begin_review, In, Changes, ApplicationType
    <2>c. ChecksLogged'
      BY <2>1, <2>3, OneMoreRecord DEF ChecksLogged
    <2>d. DecisionLogged'
      BY <2>1, <2>3, OneMoreRecord DEF DecisionLogged
    <2> QED BY <2>2, <2>c, <2>d
  <1>3. CASE evaluate_eligibility
    <2>1. PICK result \in {"Eligible", "Ineligible"} :
            Changes([application EXCEPT !.eligibility = result], "eligibility",
                    result)
      BY <1>3 DEF evaluate_eligibility
    <2>2. ApplicationType'
      BY <2>1, OneMoreRecord DEF ApplicationType, Changes
    <2>3. /\ application.status = "Under review"
          /\ application'.status = "Under review"
          /\ application.eligibility = "Not evaluated"
          /\ application'.eligibility = result
          /\ application'.identity = application.identity
      BY <1>3, <2>1 DEF evaluate_eligibility, In, Changes, ApplicationType
    <2>4. /\ Details("identity")' = Details("identity")
          /\ Details("eligibility")' = Details("eligibility") \cup {result}
      BY <2>1, OneMoreRecord
    <2>c. ChecksLogged'
      BY <2>3, <2>4 DEF ChecksLogged
    <2>d. DecisionLogged'
      BY <2>1, <2>3, OneMoreRecord DEF DecisionLogged
    <2> QED BY <2>2, <2>c, <2>d
  <1>4. ASSUME NEW result \in {"Passed", "Failed"},
               record_identity_verification(result)
        PROVE  ApplicationInv'
    <2>1. /\ Changes([application EXCEPT !.identity = result], "identity", result)
          /\ result \in RecordText /\ "identity" \in RecordName
      BY <1>4 DEF record_identity_verification
    <2>2. ApplicationType'
      BY <2>1, OneMoreRecord DEF ApplicationType, Changes
    <2>3. /\ application.status = "Under review"
          /\ application'.status = "Under review"
          /\ application.identity = "Not started"
          /\ application'.identity = result
          /\ application'.eligibility = application.eligibility
      BY <1>4, <2>1 DEF record_identity_verification, In, Changes, ApplicationType
    <2>4. /\ Details("identity")' = Details("identity") \cup {result}
          /\ Details("eligibility")' = Details("eligibility")
          /\ Details("rejected")' = Details("rejected")
          /\ Times("approved")' = Times("approved")
          /\ Times("rejected")' = Times("rejected")
          /\ Times("review started")' = Times("review started")
      BY <2>1, OneMoreRecord
    <2>5. /\ Times("approved") = {} /\ Times("rejected") = {}
          /\ Details("rejected") = {}
      <3>1. Times("approved") = {} /\ Times("rejected") = {}
        BY <2>3 DEF DecisionLogged
      <3> QED BY <3>1 DEF Details, Times
    <2>c. ChecksLogged'
      BY <2>3, <2>4 DEF ChecksLogged
    <2>d. DecisionLogged'
      BY <2>3, <2>4, <2>5 DEF DecisionLogged
    <2> QED BY <2>2, <2>c, <2>d
  <1>5. CASE approve
    <2>1. Changes([application EXCEPT !.status = "Approved", !.reason = "None"],
                  "approved", "Approved")
      BY <1>5 DEF approve
    <2>2. ApplicationType'
      BY <2>1, OneMoreRecord DEF ApplicationType, Changes
    <2>3. /\ application.status = "Under review"
          /\ application'.status = "Approved"
          /\ application.eligibility = "Eligible"
          /\ application.identity = "Passed"
          /\ application'.eligibility = application.eligibility
          /\ application'.identity = application.identity
      BY <1>5, <2>1 DEF approve, In, Changes, ApplicationType
    <2>4. /\ Times("approved")' = Times("approved") \cup {Len(log)'}
          /\ Times("rejected")' = Times("rejected")
          /\ Times("review started")' = Times("review started")
          /\ Details("rejected")' = Details("rejected")
          /\ Times("review started") \subseteq 1..Len(log)
          /\ Len(log)' = Len(log) + 1 /\ Len(log) \in Nat
      BY <2>1, OneMoreRecord
    <2>5. Times("approved") = {} /\ Times("rejected") = {}
      BY <2>3 DEF DecisionLogged
    <2>6. \E j \in Times("review started") : j < Len(log) + 1
      <3>1. Times("review started") # {}
        BY <2>3 DEF DecisionLogged
      <3> QED BY <2>4, <3>1, SomeBeforeNext
    <2>7. Times("approved")' = {Len(log)'} /\ Times("rejected")' = {}
      BY <2>4, <2>5
    <2>c. ChecksLogged'
      BY <2>1, <2>3, OneMoreRecord DEF ChecksLogged
    <2>d. DecisionLogged'
      BY <2>3, <2>4, <2>6, <2>7 DEF DecisionLogged
    <2> QED BY <2>2, <2>c, <2>d
  <1>6. ASSUME NEW reason \in RejectionReason, reject_application(reason)
        PROVE  ApplicationInv'
    <2>1. /\ Changes([application EXCEPT !.status = "Rejected", !.reason = reason],
                     "rejected", reason)
          /\ reason \in RecordText
      BY <1>6 DEF reject_application, RecordText
    <2>2. ApplicationType'
      BY <2>1, OneMoreRecord DEF ApplicationType, Changes
    <2>3. /\ application.status = "Under review"
          /\ application'.status = "Rejected"
          /\ reason = "Ineligible" => application.eligibility = "Ineligible"
          /\ reason = "Identity verification failed" =>
               application.identity = "Failed"
          /\ application'.eligibility = application.eligibility
          /\ application'.identity = application.identity
      BY <1>6, <2>1 DEF reject_application, In, Changes, ApplicationType
    <2>4. /\ Times("rejected")' = Times("rejected") \cup {Len(log)'}
          /\ Times("approved")' = Times("approved")
          /\ Times("review started")' = Times("review started")
          /\ Details("rejected")' = Details("rejected") \cup {reason}
          /\ Times("review started") \subseteq 1..Len(log)
          /\ Len(log)' = Len(log) + 1 /\ Len(log) \in Nat
      BY <2>1, OneMoreRecord
    <2>5. Times("approved") = {} /\ Times("rejected") = {}
      BY <2>3 DEF DecisionLogged
    <2>6. Details("rejected") = {}
      BY <2>5 DEF Details, Times
    <2>7. \E j \in Times("review started") : j < Len(log) + 1
      <3>1. Times("review started") # {}
        BY <2>3 DEF DecisionLogged
      <3> QED BY <2>4, <3>1, SomeBeforeNext
    <2>8. Times("rejected")' = {Len(log)'} /\ Times("approved")' = {}
      BY <2>4, <2>5
    <2>9. Details("rejected")' = {reason}
      BY <2>4, <2>6
    <2>c. ChecksLogged'
      BY <2>1, <2>3, OneMoreRecord DEF ChecksLogged
    <2>d. DecisionLogged'
      BY <2>3, <2>4, <2>7, <2>8, <2>9 DEF DecisionLogged
    <2> QED BY <2>2, <2>c, <2>d
  <1>7. CASE UNCHANGED applicationVars
    <2>1. /\ application' = application /\ eligibleRegion' = eligibleRegion
          /\ log' = log
      BY <1>7 DEF applicationVars
    <2>2. \A x : Times(x)' = Times(x) /\ Details(x)' = Details(x)
      BY <2>1 DEF Times, Details
    <2>3. ApplicationType' /\ ChecksLogged'
      BY <2>1, <2>2 DEF ApplicationType, ChecksLogged
    <2>4. DecisionLogged'
      BY <2>1, <2>2 DEF DecisionLogged
    <2> QED BY <2>3, <2>4
  <1> QED BY <1>1, <1>2, <1>3, <1>4, <1>5, <1>6, <1>7 DEF ApplicationNext

\* The history alone supports the decision, after any number of calls of any
\* operation: approve, reject and the two checks guard each other.
THEOREM Supported == ApplicationSpec => []DecisionSupported
  <1>1. ApplicationInv => DecisionSupported
    BY DEF ApplicationInv, ApplicationType, ChecksLogged, DecisionLogged,
           DecisionSupported, Details, Times
  <1> QED BY <1>1, ApplicationStart, ApplicationStep, PTL DEF ApplicationSpec
-----------------------------------------------------------------------------
(***************************************************************************)
(* Scripts of repeated deliveries: the naive and the protected loop, one   *)
(* delivery at a time.                                                     *)
(***************************************************************************)
ScriptOK == /\ script \in Seq(PaymentDelivery)
            /\ \A i \in DOMAIN script \ {1} :
                 script[i - 1].arrived_at <= script[i].arrived_at

DebitIds == {<<r, "DELIVERY", n>> : r \in RequestIds, n \in 1..MaxNumber}
              \cup {<<r, "DEBIT">> : r \in RequestIds}

ScriptEntry == [entry_id : {<<"OPEN">>} \cup DebitIds,
                account_id : {"HCCU-DEMO-001"}, amount : Nat \ {0},
                entry_type : {CREDIT, DEBIT}, sequence : Nat \ {0}, posted_at : Nat]

NaiveState == [ledger : Seq(ScriptEntry), raised : BOOLEAN]
Records == [key : RequestIds, original_request_id : RequestIds, amount : DeliveryAmounts]
ProtectedState == [ledger : Seq(ScriptEntry), records : SUBSET Records,
                   duplicates : Nat, raised : BOOLEAN]

NaiveId(item) == <<item.original_request_id, "DELIVERY", item.delivery_number>>
KeyedId(item) == <<item.original_request_id, "DEBIT">>

NaiveStep(s, item) ==
  IF s.raised THEN s ELSE Posted(s, DebitOf(s.ledger, item, NaiveId(item)))
ProtectedStep(s, item) == IF s.raised THEN s ELSE process(s, item)

NaiveStart == [ledger |-> <<OpenEntry>>, raised |-> FALSE]
ProtectedStart == [ledger |-> <<OpenEntry>>, records |-> {}, duplicates |-> 0,
                   raised |-> FALSE]

\* The recursions that the two loops evaluate.
NaiveFolds(h) ==
  h = [s \in SUBSET DOMAIN script |->
         IF s = {} THEN NaiveStart ELSE NaiveStep(h[s \ {Max(s)}], script[Max(s)])]
ProtectedFolds(h) ==
  h = [s \in SUBSET DOMAIN script |->
         IF s = {} THEN ProtectedStart
         ELSE ProtectedStep(h[s \ {Max(s)}], script[Max(s)])]

LEMMA LoopsAreRecursive ==
  /\ process_naively = (CHOOSE h : NaiveFolds(h))[DOMAIN script]
  /\ process_idempotently = (CHOOSE h : ProtectedFolds(h))[DOMAIN script]
  <1>1. process_naively = (CHOOSE h : NaiveFolds(h))[DOMAIN script]
    BY DEF process_naively, FoldLeft, MapThenFoldSet, NaiveFolds, NaiveStep, NaiveStart,
           NaiveId
  <1>2. process_idempotently = (CHOOSE h : ProtectedFolds(h))[DOMAIN script]
    BY DEF process_idempotently, FoldLeft, MapThenFoldSet, ProtectedFolds, ProtectedStep,
           ProtectedStart
  <1> QED BY <1>1, <1>2

LEMMA ItemTyped ==
  ASSUME NEW item \in PaymentDelivery
  PROVE  /\ item.original_request_id \in RequestIds
         /\ item.delivery_number \in 1..MaxNumber
         /\ item.arrived_at \in Nat
         /\ item.amount \in DeliveryAmounts /\ item.amount \in Nat \ {0}
         /\ NaiveId(item) \in DebitIds /\ KeyedId(item) \in DebitIds
  <1>1. /\ item.original_request_id \in RequestIds
        /\ item.delivery_number \in 1..MaxNumber
        /\ item.arrived_at \in Nat /\ item.amount \in DeliveryAmounts
    BY ScriptBounds DEF PaymentDelivery
  <1>2. item.amount \in Nat \ {0}
    BY <1>1, ScriptBounds
  <1> QED BY <1>1, <1>2 DEF NaiveId, KeyedId, DebitIds

LEMMA DebitIsTyped ==
  ASSUME NEW item \in PaymentDelivery, NEW ledger \in Seq(ScriptEntry), NEW id \in DebitIds
  PROVE  DebitOf(ledger, item, id) \in ScriptEntry
  <1>1. Len(ledger) + 1 \in Nat \ {0}
    BY LenProperties
  <1>2. /\ item.arrived_at + 1 \in Nat
        /\ item.amount \in Nat \ {0}
    BY ItemTyped
  <1> QED BY <1>1, <1>2 DEF DebitOf, ScriptEntry

LEMMA PostedTyped ==
  ASSUME NEW s, s.ledger \in Seq(ScriptEntry), NEW e \in ScriptEntry
  PROVE  /\ s \in NaiveState => Posted(s, e) \in NaiveState
         /\ s \in ProtectedState => Posted(s, e) \in ProtectedState
  <1>1. Append(s.ledger, e) \in Seq(ScriptEntry)
    BY AppendProperties
  <1>2. ASSUME s \in NaiveState PROVE Posted(s, e) \in NaiveState
    BY <1>1, <1>2 DEF NaiveState, Posted
  <1>3. ASSUME s \in ProtectedState PROVE Posted(s, e) \in ProtectedState
    BY <1>1, <1>3 DEF ProtectedState, Posted
  <1> QED BY <1>2, <1>3

\* What processing a delivery remembers.
ResultOf(item) == [key |-> item.original_request_id,
                   original_request_id |-> item.original_request_id,
                   amount |-> item.amount]
RecordOf(s, item) == {r \in s.records : r.key = item.original_request_id}

LEMMA StepsTyped ==
  ASSUME NEW item \in PaymentDelivery
  PROVE  /\ \A s \in NaiveState : NaiveStep(s, item) \in NaiveState
         /\ \A s \in ProtectedState : ProtectedStep(s, item) \in ProtectedState
  <1>1. ASSUME NEW s \in NaiveState PROVE NaiveStep(s, item) \in NaiveState
    <2>1. s.ledger \in Seq(ScriptEntry)
      BY DEF NaiveState
    <2>2. DebitOf(s.ledger, item, NaiveId(item)) \in ScriptEntry
      BY <2>1, ItemTyped, DebitIsTyped
    <2> QED BY <2>1, <2>2, PostedTyped DEF NaiveStep
  <1>2. ASSUME NEW s \in ProtectedState PROVE ProtectedStep(s, item) \in ProtectedState
    <2>1. s.ledger \in Seq(ScriptEntry) /\ item.original_request_id \in RequestIds
      BY ItemTyped DEF ProtectedState
    <2>2. DebitOf(s.ledger, item, KeyedId(item)) \in ScriptEntry
      BY <2>1, ItemTyped, DebitIsTyped
    <2>3. PICK after : /\ after = Posted(s, DebitOf(s.ledger, item, KeyedId(item)))
                       /\ after \in ProtectedState
      BY <2>1, <2>2, PostedTyped
    <2>4. ResultOf(item) \in Records
      BY ItemTyped DEF ResultOf, Records
    <2>5. PICK result : result = ResultOf(item)
      OBVIOUS
    <2>6. /\ [s EXCEPT !.duplicates = @ + 1] \in ProtectedState
          /\ [s EXCEPT !.raised = TRUE] \in ProtectedState
          /\ [after EXCEPT !.records = @ \cup {result}] \in ProtectedState
      <3>1. [s EXCEPT !.duplicates = @ + 1] \in ProtectedState
        BY DEF ProtectedState
      <3>2. [s EXCEPT !.raised = TRUE] \in ProtectedState
        BY DEF ProtectedState
      <3>3. PICK more : more = after.records \cup {result}
        OBVIOUS
      <3>4. more \in SUBSET Records
        BY <2>3, <2>4, <2>5, <3>3 DEF ProtectedState
      <3>5. [after EXCEPT !.records = more] \in ProtectedState
        BY <2>3, <3>4 DEF ProtectedState
      <3> QED BY <3>1, <3>2, <3>3, <3>5
    <2> QED BY <2>3, <2>5, <2>6
            DEF ProtectedStep, process, KeyedId, idempotency_key_for, ResultOf
  <1> QED BY <1>1, <1>2

LEMMA StartsTyped ==
  /\ OpenEntry \in ScriptEntry /\ <<OpenEntry>> \in Seq(ScriptEntry)
  /\ NaiveStart \in NaiveState /\ ProtectedStart \in ProtectedState
  <1>1. OpenEntry \in ScriptEntry
    BY DEF OpenEntry, ScriptEntry
  <1>2. <<OpenEntry>> \in Seq(ScriptEntry)
    BY <1>1
  <1> QED BY <1>1, <1>2 DEF NaiveStart, NaiveState, ProtectedStart, ProtectedState

\* The states of a loop after each delivery.
NaiveRun(N) ==
  /\ N[0] = NaiveStart /\ N[Len(script)] = process_naively
  /\ \A k \in 1..Len(script) : N[k] = NaiveStep(N[k - 1], script[k])
ProtectedRun(P) ==
  /\ P[0] = ProtectedStart /\ P[Len(script)] = process_idempotently
  /\ \A k \in 1..Len(script) : P[k] = ProtectedStep(P[k - 1], script[k])

LEMMA SomeNaiveRun ==
  ASSUME ScriptOK
  PROVE  \E N : NaiveRun(N)
  <1>0. /\ Len(script) \in Nat /\ DOMAIN script = 1..Len(script)
        /\ \A k \in 1..Len(script) : script[k] \in PaymentDelivery
    BY LenProperties, ElementOfSeq DEF ScriptOK
  <1>1. PICK n, V, base : n = Len(script) /\ V = NaiveState /\ base = NaiveStart
    OBVIOUS
  <1> DEFINE step == [k \in 1..n |-> [s \in V |-> NaiveStep(s, script[k])]]
  <1>2. /\ step \in [1..n -> [V -> V]]
        /\ \A k \in 1..n, s \in V : step[k][s] = NaiveStep(s, script[k])
    BY <1>0, <1>1, StepsTyped
  <1> HIDE DEF step
  <1>3. PICK h \in [SUBSET (1..n) -> V] : LeftFold(n, base, step, h)
    BY <1>0, <1>1, <1>2, StartsTyped, SomeLeftFold
  <1>4. ASSUME NEW s \in SUBSET (1..n), s # {} PROVE Max(s) \in s
    <2>1. s \in SUBSET Int /\ n \in Int /\ \A x \in s : x <= n
      BY <1>0, <1>1
    <2> QED BY <1>4, <2>1, MaxOfBounded
  <1>5. ASSUME NEW s \in SUBSET (1..n), s # {}
        PROVE  step[Max(s)][h[s \ {Max(s)}]] = NaiveStep(h[s \ {Max(s)}], script[Max(s)])
    <2>1. Max(s) \in 1..n /\ h[s \ {Max(s)}] \in V
      BY <1>3, <1>4, <1>5
    <2> QED BY <1>2, <2>1
  <1>6. NaiveFolds(h)
    <2>1. [s \in SUBSET (1..n) |-> IF s = {} THEN base ELSE step[Max(s)][h[s \ {Max(s)}]]]
            = [s \in SUBSET (1..n) |-> IF s = {} THEN base
                                       ELSE NaiveStep(h[s \ {Max(s)}], script[Max(s)])]
      BY <1>5
    <2> QED BY <1>0, <1>1, <1>3, <2>1 DEF LeftFold, NaiveFolds
  <1>7. PICK g : NaiveFolds(g) /\ g[DOMAIN script] = process_naively
    BY <1>6, LoopsAreRecursive
  <1> DEFINE N == [k \in 0..n |-> g[1..k]]
  <1>8. \A s \in SUBSET (1..n) :
          g[s] = IF s = {} THEN NaiveStart ELSE NaiveStep(g[s \ {Max(s)}], script[Max(s)])
    BY <1>0, <1>1, <1>7 DEF NaiveFolds
  <1>9. N[0] = NaiveStart
    <2>1. 1..0 = {} /\ 0 \in 0..n
      BY <1>0, <1>1
    <2>2. N[0] = g[1..0]
      BY <2>1
    <2>3. g[{}] = NaiveStart
      BY <1>8
    <2> HIDE DEF N
    <2> QED BY <2>1, <2>2, <2>3
  <1>10. ASSUME NEW k \in 1..n PROVE N[k] = NaiveStep(N[k - 1], script[k])
    <2>1. /\ 1..k \in SUBSET (1..n) /\ 1..k # {} /\ Max(1..k) = k
          /\ (1..k) \ {k} = 1..(k - 1)
      BY <1>0, <1>1, PrefixEnd
    <2>2. g[1..k] = NaiveStep(g[1..(k - 1)], script[k])
      BY <1>8, <2>1
    <2>3. N[k] = g[1..k] /\ N[k - 1] = g[1..(k - 1)]
      BY <1>0, <1>1
    <2> QED BY <2>2, <2>3
  <1>11. N[Len(script)] = process_naively
    BY <1>0, <1>1, <1>7
  <1> HIDE DEF N
  <1>12. NaiveRun(N)
    BY <1>1, <1>9, <1>10, <1>11 DEF NaiveRun
  <1> QED BY <1>12

LEMMA SomeProtectedRun ==
  ASSUME ScriptOK
  PROVE  \E P : ProtectedRun(P)
  <1>0. /\ Len(script) \in Nat /\ DOMAIN script = 1..Len(script)
        /\ \A k \in 1..Len(script) : script[k] \in PaymentDelivery
    BY LenProperties, ElementOfSeq DEF ScriptOK
  <1>1. PICK n, V, base : n = Len(script) /\ V = ProtectedState /\ base = ProtectedStart
    OBVIOUS
  <1> DEFINE step == [k \in 1..n |-> [s \in V |-> ProtectedStep(s, script[k])]]
  <1>2. /\ step \in [1..n -> [V -> V]]
        /\ \A k \in 1..n, s \in V : step[k][s] = ProtectedStep(s, script[k])
    BY <1>0, <1>1, StepsTyped
  <1> HIDE DEF step
  <1>3. PICK h \in [SUBSET (1..n) -> V] : LeftFold(n, base, step, h)
    BY <1>0, <1>1, <1>2, StartsTyped, SomeLeftFold
  <1>4. ASSUME NEW s \in SUBSET (1..n), s # {} PROVE Max(s) \in s
    <2>1. s \in SUBSET Int /\ n \in Int /\ \A x \in s : x <= n
      BY <1>0, <1>1
    <2> QED BY <1>4, <2>1, MaxOfBounded
  <1>5. ASSUME NEW s \in SUBSET (1..n), s # {}
        PROVE  step[Max(s)][h[s \ {Max(s)}]] = ProtectedStep(h[s \ {Max(s)}], script[Max(s)])
    <2>1. Max(s) \in 1..n /\ h[s \ {Max(s)}] \in V
      BY <1>3, <1>4, <1>5
    <2> QED BY <1>2, <2>1
  <1>6. ProtectedFolds(h)
    <2>1. [s \in SUBSET (1..n) |-> IF s = {} THEN base ELSE step[Max(s)][h[s \ {Max(s)}]]]
            = [s \in SUBSET (1..n) |-> IF s = {} THEN base
                                       ELSE ProtectedStep(h[s \ {Max(s)}], script[Max(s)])]
      BY <1>5
    <2> QED BY <1>0, <1>1, <1>3, <2>1 DEF LeftFold, ProtectedFolds
  <1>7. PICK g : ProtectedFolds(g) /\ g[DOMAIN script] = process_idempotently
    BY <1>6, LoopsAreRecursive
  <1> DEFINE P == [k \in 0..n |-> g[1..k]]
  <1>8. \A s \in SUBSET (1..n) :
          g[s] = IF s = {} THEN ProtectedStart ELSE ProtectedStep(g[s \ {Max(s)}], script[Max(s)])
    BY <1>0, <1>1, <1>7 DEF ProtectedFolds
  <1>9. P[0] = ProtectedStart
    <2>1. 1..0 = {} /\ 0 \in 0..n
      BY <1>0, <1>1
    <2>2. P[0] = g[1..0]
      BY <2>1
    <2>3. g[{}] = ProtectedStart
      BY <1>8
    <2> HIDE DEF P
    <2> QED BY <2>1, <2>2, <2>3
  <1>10. ASSUME NEW k \in 1..n PROVE P[k] = ProtectedStep(P[k - 1], script[k])
    <2>1. /\ 1..k \in SUBSET (1..n) /\ 1..k # {} /\ Max(1..k) = k
          /\ (1..k) \ {k} = 1..(k - 1)
      BY <1>0, <1>1, PrefixEnd
    <2>2. g[1..k] = ProtectedStep(g[1..(k - 1)], script[k])
      BY <1>8, <2>1
    <2>3. P[k] = g[1..k] /\ P[k - 1] = g[1..(k - 1)]
      BY <1>0, <1>1
    <2> QED BY <2>2, <2>3
  <1>11. P[Len(script)] = process_idempotently
    BY <1>0, <1>1, <1>7
  <1> HIDE DEF P
  <1>12. ProtectedRun(P)
    BY <1>1, <1>9, <1>10, <1>11 DEF ProtectedRun
  <1> QED BY <1>12
-----------------------------------------------------------------------------
\* The identifiers after the opening entry.
LaterIds(ledger) == {ledger[i].entry_id : i \in DOMAIN ledger \ {1}}

LEMMA OneMoreEntry ==
  ASSUME NEW l \in Seq(ScriptEntry), NEW e \in ScriptEntry, NEW t, t = Append(l, e)
  PROVE  /\ t \in Seq(ScriptEntry) /\ Ids(t) = Ids(l) \cup {e.entry_id}
         /\ LastPosted(t) = e.posted_at
         /\ Replay(l) \in Int /\ Signed(e) \in Int /\ Replay(t) = Replay(l) + Signed(e)
         /\ l # <<>> => LaterIds(t) = LaterIds(l) \cup {e.entry_id}
         /\ t # <<>>
  <1>1. /\ t \in Seq(ScriptEntry) /\ Len(l) \in Nat /\ Len(t) = Len(l) + 1
        /\ DOMAIN l = 1..Len(l) /\ DOMAIN t = 1..(Len(l) + 1)
        /\ \A i \in 1..Len(l) : t[i] = l[i] /\ l[i] \in ScriptEntry
        /\ t[Len(l) + 1] = e
    BY AppendOne
  <1>2. Ids(t) = Ids(l) \cup {e.entry_id}
    <2>1. 1..(Len(l) + 1) = 1..Len(l) \cup {Len(l) + 1}
      BY <1>1
    <2> QED BY <1>1, <2>1 DEF Ids
  <1>3. t # <<>>
    BY <1>1
  <1>4. LastPosted(t) = e.posted_at
    BY <1>1, <1>3 DEF LastPosted
  <1>5. ASSUME l # <<>> PROVE LaterIds(t) = LaterIds(l) \cup {e.entry_id}
    <2>1. Len(l) >= 1
      BY <1>1, <1>5, EmptySeq
    <2>2. (1..(Len(l) + 1)) \ {1} = ((1..Len(l)) \ {1}) \cup {Len(l) + 1}
      BY <1>1, <2>1
    <2>3. \A i \in (1..Len(l)) \ {1} : t[i] = l[i]
      BY <1>1
    <2> QED BY <1>1, <2>2, <2>3 DEF LaterIds
  <1>6. \A x \in ScriptEntry : Signed(x) \in Int
    BY DEF ScriptEntry, Signed
  <1> DEFINE f == [i \in DOMAIN l |-> Signed(l[i])]
             g == [i \in DOMAIN t |-> Signed(t[i])]
  <1>7. Grows(f, g, Len(l) + 1)
    <2>1. IsFiniteSet(1..Len(l)) /\ Len(l) + 1 \notin 1..Len(l)
      BY <1>1, FS_Interval
    <2>2. f \in [1..Len(l) -> Int]
      BY <1>1, <1>6
    <2>3. 1..(Len(l) + 1) = 1..Len(l) \cup {Len(l) + 1}
      BY <1>1
    <2>4. \A i \in 1..(Len(l) + 1) : Signed(t[i]) \in Int
      BY <1>1, <1>6, <2>3
    <2>5. g \in [1..Len(l) \cup {Len(l) + 1} -> Int]
      BY <1>1, <2>3, <2>4
    <2>6. \A i \in 1..Len(l) : g[i] = f[i]
      BY <1>1
    <2> HIDE DEF f, g
    <2> QED BY <2>1, <2>2, <2>5, <2>6 DEF Grows
  <1>8. SumFunction(f) \in Int /\ SumFunction(g) = SumFunction(f) + g[Len(l) + 1]
    <2> HIDE DEF f, g
    <2> QED BY ONLY <1>7, SumGrows
  <1>9. g[Len(l) + 1] = Signed(e)
    BY <1>1
  <1> QED BY <1>1, <1>2, <1>3, <1>4, <1>5, <1>6, <1>8, <1>9 DEF Replay

LEMMA OpeningLedgerOfScripts ==
  /\ Ids(<<OpenEntry>>) = {<<"OPEN">>} /\ LastPosted(<<OpenEntry>>) = 0
  /\ Replay(<<OpenEntry>>) = 1 /\ LaterIds(<<OpenEntry>>) = {} /\ <<OpenEntry>> # <<>>
  <1>1. PICK l : l = <<OpenEntry>>
    OBVIOUS
  <1>2. DOMAIN l = {1} /\ l[1] = OpenEntry /\ Len(l) = 1 /\ l # <<>>
    BY <1>1
  <1>3. Ids(l) = {<<"OPEN">>} /\ LastPosted(l) = 0 /\ LaterIds(l) = {}
    BY <1>2 DEF Ids, LastPosted, LaterIds, OpenEntry
  <1>4. [i \in DOMAIN l |-> Signed(l[i])] \in [{1} -> Int] /\ Signed(l[1]) = 1
    BY <1>2 DEF Signed, OpenEntry
  <1>5. SumFunction([i \in DOMAIN l |-> Signed(l[i])]) = 1
    BY <1>2, <1>4, SumOne
  <1> QED BY <1>1, <1>2, <1>3, <1>5 DEF Replay

\* The k-th delivery's request, what it is worth, and when its debit is posted.
Req(k) == script[k].original_request_id
Worth(k) == script[k].amount
Latest(k) == IF k = 0 THEN 0 ELSE script[k].arrived_at + 1

LEMMA DeliveryTyped ==
  ASSUME ScriptOK, NEW k \in 1..Len(script)
  PROVE  /\ script[k] \in PaymentDelivery /\ k \in DOMAIN script
         /\ Req(k) \in RequestIds /\ Worth(k) \in Nat \ {0}
         /\ Latest(k) \in Nat /\ Latest(k - 1) \in Nat
         /\ Latest(k - 1) <= Latest(k) /\ Latest(k) = script[k].arrived_at + 1
  <1>1. /\ Len(script) \in Nat /\ DOMAIN script = 1..Len(script)
        /\ \A i \in 1..Len(script) : script[i] \in PaymentDelivery
    BY LenProperties, ElementOfSeq DEF ScriptOK
  <1>2. Req(k) \in RequestIds /\ Worth(k) \in Nat \ {0} /\ script[k].arrived_at \in Nat
    BY <1>1, ItemTyped DEF Req, Worth
  <1>3. CASE k = 1
    BY <1>1, <1>2, <1>3 DEF Latest
  <1>4. CASE k # 1
    <2>1. k - 1 \in 1..Len(script) /\ k - 1 # 0 /\ k # 0 /\ k \in DOMAIN script \ {1}
      BY <1>1, <1>4
    <2>2. script[k - 1].arrived_at \in Nat
      BY <1>1, <2>1, ItemTyped
    <2>3. script[k - 1].arrived_at <= script[k].arrived_at
      BY <2>1 DEF ScriptOK
    <2> QED BY <1>1, <1>2, <2>1, <2>2, <2>3 DEF Latest
  <1> QED BY <1>3, <1>4

\* What the deliveries of S are worth.
WorthOf(S) == SumFunction([i \in S |-> Worth(i)])

LEMMA WorthGrows ==
  ASSUME ScriptOK, NEW S \in SUBSET (1..Len(script)), NEW k \in 1..Len(script), k \notin S
  PROVE  /\ WorthOf(S) \in Int
         /\ WorthOf(S \cup {k}) = WorthOf(S) + Worth(k)
  <1> DEFINE f == [i \in S |-> Worth(i)]
             g == [i \in S \cup {k} |-> Worth(i)]
  <1>1. Len(script) \in Nat /\ \A i \in 1..Len(script) : Worth(i) \in Int
    BY DeliveryTyped, LenProperties DEF ScriptOK
  <1>2. IsFiniteSet(S)
    <2>1. IsFiniteSet(1..Len(script))
      BY <1>1, FS_Interval
    <2> QED BY <2>1, FS_Subset
  <1>3. /\ f \in [S -> Int] /\ g \in [S \cup {k} -> Int] /\ g[k] = Worth(k)
        /\ \A i \in S : g[i] = f[i]
    BY <1>1
  <1> HIDE DEF f, g
  <1>4. Grows(f, g, k)
    BY <1>2, <1>3 DEF Grows
  <1>5. SumFunction(f) \in Int /\ SumFunction(g) = SumFunction(f) + g[k]
    BY <1>4, SumGrows
  <1> QED BY <1>3, <1>5 DEF WorthOf, f, g

LEMMA NothingWorth == WorthOf({}) = 0
  <1>1. [i \in {} |-> Worth(i)] \in [{} -> Int] /\ IsFiniteSet({})
    BY FS_EmptySet
  <1> QED BY <1>1, SumType DEF WorthOf

\* A delivery number is repeated for a request among the first k deliveries.
SameDelivery(i, j) == NaiveId(script[i]) = NaiveId(script[j])
RepeatedBy(k) == \E i, j \in 1..k : i # j /\ SameDelivery(i, j)

NaiveSound(k, s) ==
  /\ s \in NaiveState
  /\ s.raised <=> RepeatedBy(k)
  /\ ~s.raised => /\ Ids(s.ledger) = {<<"OPEN">>} \cup {NaiveId(script[i]) : i \in 1..k}
                  /\ LastPosted(s.ledger) <= Latest(k)
                  /\ LastPosted(s.ledger) \in Nat
                  /\ Replay(s.ledger) = 1 - WorthOf(1..k)

LEMMA NaiveStarts == NaiveSound(0, NaiveStart)
  <1>1. 1..0 = {}
    OBVIOUS
  <1>2. ~RepeatedBy(0)
    BY <1>1 DEF RepeatedBy
  <1>3. {NaiveId(script[i]) : i \in 1..0} = {}
    BY <1>1
  <1>4. WorthOf(1..0) = 0
    BY <1>1, NothingWorth
  <1>5. NaiveStart.ledger = <<OpenEntry>> /\ NaiveStart.raised = FALSE
    BY DEF NaiveStart
  <1> QED BY <1>2, <1>3, <1>4, <1>5, StartsTyped, OpeningLedgerOfScripts DEF NaiveSound, Latest

\* s is about to append e, the debit of the k-th delivery, to l.
Appends(k, s, l, id, e) ==
  /\ k \in 1..Len(script) /\ l = s.ledger /\ l \in Seq(ScriptEntry)
  /\ LastPosted(l) \in Nat /\ LastPosted(l) <= Latest(k - 1)
  /\ id \in DebitIds /\ e = DebitOf(l, script[k], id)

\* That append is refused for its identifier only.
LEMMA Refusal ==
  ASSUME ScriptOK, NEW k, NEW s, NEW l, NEW id, NEW e, Appends(k, s, l, id, e)
  PROVE  /\ Posted(s, e) = IF id \in Ids(l) THEN [s EXCEPT !.raised = TRUE]
                           ELSE [s EXCEPT !.ledger = Append(l, e)]
         /\ e \in ScriptEntry /\ e.entry_id = id /\ e.posted_at = Latest(k)
         /\ Signed(e) = 0 - Worth(k)
  <1>0. /\ k \in 1..Len(script) /\ l = s.ledger /\ l \in Seq(ScriptEntry)
        /\ LastPosted(l) \in Nat /\ LastPosted(l) <= Latest(k - 1)
        /\ id \in DebitIds /\ e = DebitOf(l, script[k], id)
    BY DEF Appends
  <1>1. /\ script[k] \in PaymentDelivery /\ Latest(k) \in Nat /\ Latest(k - 1) \in Nat
        /\ Latest(k - 1) <= Latest(k)
    BY <1>0, DeliveryTyped
  <1>2. /\ e.entry_id = id /\ e.posted_at = Latest(k)
        /\ e.sequence = Len(l) + 1 /\ Signed(e) = 0 - Worth(k)
    <2>1. Latest(k) = script[k].arrived_at + 1
      BY <1>0, DeliveryTyped
    <2> QED BY <1>0, <2>1 DEF DebitOf, Signed, Worth, Req, DEBIT, CREDIT
  <1>3. e \in ScriptEntry
    BY <1>0, <1>1, DebitIsTyped
  <1>4. Accepts(l, e) <=> id \notin Ids(l)
    BY <1>0, <1>1, <1>2 DEF Accepts
  <1> QED BY <1>0, <1>2, <1>3, <1>4 DEF Posted

LEMMA NaiveStepSound ==
  ASSUME ScriptOK, NEW k \in 1..Len(script), NEW s, NaiveSound(k - 1, s),
         NEW t, t = NaiveStep(s, script[k])
  PROVE  NaiveSound(k, t)
  <1>0. /\ Len(script) \in Nat /\ k \in Nat /\ 1..k = (1..(k - 1)) \cup {k}
        /\ k \notin 1..(k - 1) /\ 1..(k - 1) \in SUBSET (1..Len(script))
    BY LenProperties DEF ScriptOK
  <1>1. /\ script[k] \in PaymentDelivery /\ Worth(k) \in Nat /\ Latest(k) \in Nat
        /\ Latest(k - 1) \in Nat
    BY DeliveryTyped
  <1>2. s \in NaiveState /\ (s.raised <=> RepeatedBy(k - 1))
    BY DEF NaiveSound
  <1>3. t \in NaiveState
    BY <1>1, <1>2, StepsTyped
  <1>4. CASE s.raised
    <2>1. t = s
      BY <1>4 DEF NaiveStep
    <2>2. RepeatedBy(k)
      BY <1>0, <1>2, <1>4 DEF RepeatedBy
    <2> QED BY <1>3, <1>4, <2>1, <2>2 DEF NaiveSound
  <1>5. CASE ~s.raised
    <2>1. PICK l, id, e : l = s.ledger /\ id = NaiveId(script[k]) /\ e = DebitOf(l, script[k], id)
      OBVIOUS
    <2>2. /\ l \in Seq(ScriptEntry) /\ id \in DebitIds
          /\ Ids(l) = {<<"OPEN">>} \cup {NaiveId(script[i]) : i \in 1..(k - 1)}
          /\ LastPosted(l) <= Latest(k - 1) /\ LastPosted(l) \in Nat
          /\ Replay(l) = 1 - WorthOf(1..(k - 1))
      BY <1>1, <1>2, <1>5, <2>1, ItemTyped DEF NaiveSound, NaiveState
    <2>3. /\ t = IF id \in Ids(l) THEN [s EXCEPT !.raised = TRUE]
                 ELSE [s EXCEPT !.ledger = Append(l, e)]
          /\ e \in ScriptEntry /\ e.entry_id = id /\ e.posted_at = Latest(k)
          /\ Signed(e) = 0 - Worth(k)
      <3>1. t = Posted(s, e)
        BY <1>5, <2>1 DEF NaiveStep
      <3>2. Appends(k, s, l, id, e)
        BY <2>1, <2>2 DEF Appends
      <3> QED BY <3>1, <3>2, Refusal
    <2>4. id # <<"OPEN">>
      BY <2>1 DEF NaiveId
    <2>5. id \in Ids(l) <=> \E i \in 1..(k - 1) : SameDelivery(i, k)
      BY <2>1, <2>2, <2>4 DEF SameDelivery
    <2>6. ~RepeatedBy(k - 1)
      BY <1>2, <1>5
    <2>7. RepeatedBy(k) <=> id \in Ids(l)
      <3>1. ASSUME id \in Ids(l) PROVE RepeatedBy(k)
        <4>1. PICK i \in 1..(k - 1) : SameDelivery(i, k)
          BY <2>5, <3>1
        <4> QED BY <1>0, <4>1 DEF RepeatedBy
      <3>2. ASSUME RepeatedBy(k) PROVE id \in Ids(l)
        <4>1. PICK i, j \in 1..k : i # j /\ SameDelivery(i, j)
          BY <3>2 DEF RepeatedBy
        <4>2. ~(i \in 1..(k - 1) /\ j \in 1..(k - 1))
          BY <2>6, <4>1 DEF RepeatedBy
        <4>3. (i = k /\ j \in 1..(k - 1)) \/ (j = k /\ i \in 1..(k - 1))
          BY <1>0, <4>1, <4>2
        <4>4. \E m \in 1..(k - 1) : SameDelivery(m, k)
          BY <4>1, <4>3 DEF SameDelivery
        <4> QED BY <2>5, <4>4
      <3> QED BY <3>1, <3>2
    <2>8. CASE id \in Ids(l)
      <3>1. t.raised
        BY <1>2, <2>3, <2>8 DEF NaiveState
      <3> QED BY <1>3, <2>7, <2>8, <3>1 DEF NaiveSound
    <2>9. CASE id \notin Ids(l)
      <3>1. PICK m : m = Append(l, e)
        OBVIOUS
      <3>2. t.ledger = m /\ ~t.raised
        BY <1>2, <1>5, <2>3, <2>9, <3>1 DEF NaiveState
      <3>3. /\ Ids(m) = Ids(l) \cup {id} /\ LastPosted(m) = Latest(k)
            /\ Replay(l) \in Int /\ Replay(m) = Replay(l) + (0 - Worth(k))
        BY <2>2, <2>3, <3>1, OneMoreEntry
      <3>4. Ids(m) = {<<"OPEN">>} \cup {NaiveId(script[i]) : i \in 1..k}
        BY <1>0, <2>1, <2>2, <3>3
      <3>5. Replay(m) = 1 - WorthOf(1..k)
        <4>1. WorthOf(1..(k - 1)) \in Int /\ WorthOf((1..(k - 1)) \cup {k}) = WorthOf(1..(k - 1)) + Worth(k)
          BY <1>0, WorthGrows
        <4>2. WorthOf(1..k) = WorthOf(1..(k - 1)) + Worth(k)
          BY <1>0, <4>1
        <4> QED BY ONLY <1>1, <2>2, <3>3, <4>1, <4>2
      <3>6. LastPosted(m) <= Latest(k) /\ LastPosted(m) \in Nat
        BY <1>1, <3>3
      <3> QED BY <1>3, <2>7, <2>9, <3>2, <3>4, <3>5, <3>6 DEF NaiveSound
    <2> QED BY <2>8, <2>9
  <1> QED BY <1>4, <1>5
-----------------------------------------------------------------------------
\* Of the first k deliveries: those that are taken, and their requests.
TakenBy(k) == {i \in 1..k : i \in Taken}
TakenRequests(k) == {Req(i) : i \in TakenBy(k)}
ConflictBy(k) == \E j \in Conflicts : j <= k

\* Up to the first conflict all deliveries are taken, and none after it is.
LEMMA TakenGrows ==
  ASSUME ScriptOK, NEW k \in 1..Len(script)
  PROVE  /\ ConflictBy(k) <=> ConflictBy(k - 1) \/ k \in Conflicts
         /\ ConflictBy(k) => TakenBy(k) = TakenBy(k - 1)
         /\ ~ConflictBy(k) => TakenBy(k) = TakenBy(k - 1) \cup {k}
         /\ ~ConflictBy(k - 1) => TakenBy(k - 1) = 1..(k - 1)
         /\ TakenBy(k - 1) \in SUBSET (1..(k - 1)) /\ IsFiniteSet(TakenBy(k - 1))
  <1>0. /\ Len(script) \in Nat /\ k \in Nat /\ 1..k = (1..(k - 1)) \cup {k}
        /\ DOMAIN script = 1..Len(script)
    BY LenProperties DEF ScriptOK
  <1>1. Conflicts \in SUBSET Nat
    BY <1>0 DEF Conflicts
  <1>2. ConflictBy(k) <=> ConflictBy(k - 1) \/ k \in Conflicts
    BY <1>0, <1>1 DEF ConflictBy
  <1>3. k \in Taken <=> ~ConflictBy(k)
    <2>1. \A j \in Conflicts : k < j <=> ~(j <= k)
      BY <1>0, <1>1
    <2> QED BY <1>0, <2>1 DEF Taken, ConflictBy
  <1>4. TakenBy(k) = IF ConflictBy(k) THEN TakenBy(k - 1) ELSE TakenBy(k - 1) \cup {k}
    BY <1>0, <1>3 DEF TakenBy
  <1>5. ASSUME ~ConflictBy(k - 1) PROVE TakenBy(k - 1) = 1..(k - 1)
    <2>1. \A i \in 1..(k - 1) : i \in DOMAIN script /\ \A j \in Conflicts : i < j
      BY <1>0, <1>1, <1>5 DEF ConflictBy
    <2> QED BY <2>1 DEF TakenBy, Taken
  <1>6. TakenBy(k - 1) \in SUBSET (1..(k - 1)) /\ IsFiniteSet(TakenBy(k - 1))
    <2>1. IsFiniteSet(1..(k - 1))
      BY <1>0, FS_Interval
    <2>2. TakenBy(k - 1) \in SUBSET (1..(k - 1))
      BY DEF TakenBy
    <2> QED BY <2>1, <2>2, FS_Subset
  <1> QED BY <1>2, <1>4, <1>5, <1>6

ProtectedSound(k, s) ==
  /\ s \in ProtectedState /\ s.ledger # <<>>
  /\ s.raised <=> ConflictBy(k)
  /\ s.records = {ResultOf(script[i]) : i \in TakenBy(k)}
  /\ IsFiniteSet(TakenRequests(k))
  /\ s.duplicates = Cardinality(TakenBy(k)) - Cardinality(TakenRequests(k))
  /\ LaterIds(s.ledger) = {<<r, "DEBIT">> : r \in TakenRequests(k)}
  /\ Ids(s.ledger) = {<<"OPEN">>} \cup {<<r, "DEBIT">> : r \in TakenRequests(k)}
  /\ LastPosted(s.ledger) \in Nat
  /\ ~s.raised => LastPosted(s.ledger) <= Latest(k)
  /\ Replay(s.ledger) = 1 - WorthOf(TakenBy(k) \ Repeats)

LEMMA ProtectedStarts == ASSUME ScriptOK PROVE ProtectedSound(0, ProtectedStart)
  <1>1. TakenBy(0) = {} /\ TakenBy(0) \ Repeats = {} /\ TakenRequests(0) = {}
    BY DEF TakenBy, TakenRequests
  <1>2. WorthOf(TakenBy(0) \ Repeats) = 0
    BY <1>1, NothingWorth
  <1>3. /\ ProtectedStart.ledger = <<OpenEntry>> /\ ProtectedStart.raised = FALSE
        /\ ProtectedStart.records = {} /\ ProtectedStart.duplicates = 0
    BY DEF ProtectedStart
  <1>4. ~ConflictBy(0)
    <2>1. DOMAIN script = 1..Len(script) /\ Len(script) \in Nat
      BY LenProperties DEF ScriptOK
    <2>2. \A j \in Conflicts : ~(j <= 0)
      BY <2>1 DEF Conflicts
    <2> QED BY <2>2 DEF ConflictBy
  <1>5. IsFiniteSet({}) /\ Cardinality({}) = 0
    BY FS_EmptySet
  <1>6. {ResultOf(script[i]) : i \in TakenBy(0)} = {}
    BY <1>1
  <1> QED BY <1>1, <1>2, <1>3, <1>4, <1>5, <1>6, StartsTyped, OpeningLedgerOfScripts
          DEF ProtectedSound, Latest

LEMMA ProtectedStepSound ==
  ASSUME ScriptOK, NEW k \in 1..Len(script), NEW s, ProtectedSound(k - 1, s),
         NEW t, t = ProtectedStep(s, script[k])
  PROVE  ProtectedSound(k, t)
  <1>0. /\ Len(script) \in Nat /\ k \in Nat /\ k \notin 1..(k - 1)
        /\ 1..(k - 1) \in SUBSET (1..Len(script)) /\ DOMAIN script = 1..Len(script)
    BY LenProperties DEF ScriptOK
  <1>1. /\ script[k] \in PaymentDelivery /\ Worth(k) \in Nat /\ Latest(k) \in Nat
        /\ Latest(k - 1) \in Nat /\ Latest(k - 1) <= Latest(k) /\ Req(k) \in RequestIds
    BY DeliveryTyped
  <1>2. /\ s \in ProtectedState /\ s.ledger # <<>>
        /\ s.raised <=> ConflictBy(k - 1)
        /\ s.records = {ResultOf(script[i]) : i \in TakenBy(k - 1)}
        /\ IsFiniteSet(TakenRequests(k - 1))
        /\ s.duplicates = Cardinality(TakenBy(k - 1)) - Cardinality(TakenRequests(k - 1))
        /\ LaterIds(s.ledger) = {<<r, "DEBIT">> : r \in TakenRequests(k - 1)}
        /\ Ids(s.ledger) = {<<"OPEN">>} \cup {<<r, "DEBIT">> : r \in TakenRequests(k - 1)}
        /\ LastPosted(s.ledger) \in Nat
        /\ ~s.raised => LastPosted(s.ledger) <= Latest(k - 1)
        /\ Replay(s.ledger) = 1 - WorthOf(TakenBy(k - 1) \ Repeats)
    BY DEF ProtectedSound
  <1>3. t \in ProtectedState
    BY <1>1, <1>2, StepsTyped
  <1>4. PICK l, id, e, r, result :
          /\ l = s.ledger /\ r = Req(k) /\ id = KeyedId(script[k])
          /\ e = DebitOf(l, script[k], id) /\ result = ResultOf(script[k])
    OBVIOUS
  <1>5. l \in Seq(ScriptEntry) /\ id \in DebitIds /\ id = <<r, "DEBIT">>
    BY <1>1, <1>2, <1>4, ItemTyped DEF ProtectedState, KeyedId, Req
  <1>6. CASE s.raised
    <2>1. t = s
      BY <1>6 DEF ProtectedStep
    <2>2. ConflictBy(k) /\ TakenBy(k) = TakenBy(k - 1)
      BY <1>2, <1>6, TakenGrows
    <2>3. TakenRequests(k) = TakenRequests(k - 1)
      BY <2>2 DEF TakenRequests
    <2> QED BY ONLY <1>2, <1>3, <1>6, <2>1, <2>2, <2>3 DEF ProtectedSound
  <1>7. CASE ~s.raised
    <2>0. /\ ~ConflictBy(k - 1) /\ TakenBy(k - 1) = 1..(k - 1)
          /\ ConflictBy(k) <=> k \in Conflicts
      BY <1>2, <1>7, TakenGrows
    <2>1. PICK record : record = RecordOf(s, script[k])
      OBVIOUS
    <2>2. t = LET after == Posted(s, e)
              IN  IF record = {result} THEN [s EXCEPT !.duplicates = @ + 1]
                  ELSE IF record # {} THEN [s EXCEPT !.raised = TRUE]
                  ELSE IF after.raised THEN after
                  ELSE [after EXCEPT !.records = @ \cup {result}]
      BY <1>4, <1>7, <2>1
         DEF ProtectedStep, process, idempotency_key_for, KeyedId, ResultOf, RecordOf
    <2>3. /\ result.key = r /\ result.amount = Worth(k)
          /\ result.original_request_id = r
          /\ record = {ResultOf(script[i]) : i \in {j \in 1..(k - 1) : Req(j) = r}}
      <3>1. \A i : ResultOf(script[i]).key = Req(i)
        BY DEF ResultOf, Req
      <3> QED BY <1>2, <1>4, <2>0, <2>1, <3>1 DEF ResultOf, RecordOf, Req, Worth
    <2>4. k \in Conflicts <=> \E j \in 1..(k - 1) : Req(j) = r /\ Worth(j) # Worth(k)
      BY <1>0, <1>4 DEF Conflicts, Req, Worth
    <2>5. k \in Repeats <=> r \in TakenRequests(k - 1)
      BY <1>0, <1>4, <2>0 DEF Repeats, Req, TakenRequests
    <2>6. CASE k \in Conflicts
      <3>1. PICK j \in 1..(k - 1) : Req(j) = r /\ Worth(j) # Worth(k)
        BY <2>4, <2>6
      <3>2. ResultOf(script[j]) \in record /\ ResultOf(script[j]) # result
        BY <2>3, <3>1 DEF ResultOf, Worth
      <3>3. t = [s EXCEPT !.raised = TRUE]
        BY <2>2, <3>2
      <3>4. /\ t.ledger = s.ledger /\ t.records = s.records
            /\ t.duplicates = s.duplicates /\ t.raised
        BY <1>2, <3>3 DEF ProtectedState
      <3>5. ConflictBy(k) /\ TakenBy(k) = TakenBy(k - 1)
        BY <2>0, <2>6, TakenGrows
      <3>6. TakenRequests(k) = TakenRequests(k - 1)
        BY <3>5 DEF TakenRequests
      <3> QED BY ONLY <1>2, <1>3, <3>4, <3>5, <3>6 DEF ProtectedSound
    <2>7. CASE k \notin Conflicts
      <3>1. /\ ~ConflictBy(k) /\ TakenBy(k) = TakenBy(k - 1) \cup {k}
            /\ k \notin TakenBy(k - 1)
        BY <1>0, <2>0, <2>7, TakenGrows
      <3>2. TakenRequests(k) = TakenRequests(k - 1) \cup {r}
        BY <1>4, <3>1 DEF TakenRequests
      <3>3. Cardinality(TakenBy(k)) = Cardinality(TakenBy(k - 1)) + 1
        <4>1. IsFiniteSet(TakenBy(k - 1))
          BY TakenGrows
        <4> QED BY <3>1, <4>1, FS_AddElement
      <3>4. /\ Cardinality(TakenBy(k - 1)) \in Nat
            /\ Cardinality(TakenRequests(k - 1)) \in Nat
        BY <1>2, TakenGrows, FS_CardinalityType
      <3>5. {ResultOf(script[i]) : i \in TakenBy(k)} = s.records \cup {result}
        BY <1>2, <1>4, <3>1
      <3>6. CASE r \in TakenRequests(k - 1)
        <4>1. record = {result}
          <5>1. \A i \in 1..(k - 1) : Req(i) = r => ResultOf(script[i]) = result
            BY <1>4, <2>4, <2>7 DEF ResultOf, Req, Worth
          <5>2. \E i \in 1..(k - 1) : Req(i) = r
            BY <2>0, <3>6 DEF TakenRequests
          <5> QED BY <2>3, <5>1, <5>2
        <4>2. t = [s EXCEPT !.duplicates = @ + 1]
          BY <2>2, <4>1
        <4>3. /\ t.ledger = s.ledger /\ t.records = s.records /\ ~t.raised
              /\ t.duplicates = s.duplicates + 1
          BY <1>2, <1>7, <4>2 DEF ProtectedState
        <4>4. TakenRequests(k) = TakenRequests(k - 1)
          BY <3>2, <3>6
        <4>5. t.records = {ResultOf(script[i]) : i \in TakenBy(k)}
          <5>1. result \in s.records
            BY <2>1, <4>1 DEF RecordOf
          <5> QED BY <3>5, <4>3, <5>1
        <4>6. t.duplicates = Cardinality(TakenBy(k)) - Cardinality(TakenRequests(k))
          BY <1>2, <3>3, <3>4, <4>3, <4>4
        <4>7. TakenBy(k) \ Repeats = TakenBy(k - 1) \ Repeats
          BY <2>5, <3>1, <3>6
        <4>8. LastPosted(t.ledger) <= Latest(k)
          BY <1>1, <1>2, <1>7, <4>3
        <4> QED BY ONLY <1>2, <1>3, <3>1, <4>3, <4>4, <4>5, <4>6, <4>7, <4>8
                DEF ProtectedSound
      <3>7. CASE r \notin TakenRequests(k - 1)
        <4>1. record = {}
          BY <2>0, <2>3, <3>7 DEF TakenRequests
        <4>2. id \notin Ids(l)
          <5>1. id # <<"OPEN">>
            BY <1>5
          <5>2. \A q \in TakenRequests(k - 1) : id # <<q, "DEBIT">>
            BY <1>5, <3>7
          <5> QED BY <1>2, <1>4, <5>1, <5>2
        <4>3. /\ Posted(s, e) = [s EXCEPT !.ledger = Append(l, e)]
              /\ e \in ScriptEntry /\ e.entry_id = id /\ e.posted_at = Latest(k)
              /\ Signed(e) = 0 - Worth(k)
          <5>1. Appends(k, s, l, id, e)
            BY <1>2, <1>4, <1>5, <1>7 DEF Appends
          <5> QED BY <4>2, <5>1, Refusal
        <4>4. PICK m : m = Append(l, e)
          OBVIOUS
        <4>5. PICK after : after = [s EXCEPT !.ledger = m]
          OBVIOUS
        <4>6. /\ after.ledger = m /\ after.records = s.records /\ ~after.raised
              /\ after.duplicates = s.duplicates
          BY <1>2, <1>7, <4>5 DEF ProtectedState
        <4>7. t = [after EXCEPT !.records = @ \cup {result}]
          <5>1. record # {result}
            BY <4>1
          <5> QED BY <2>2, <4>1, <4>3, <4>4, <4>5, <4>6, <5>1
        <4>8. /\ t.ledger = m /\ t.records = s.records \cup {result}
              /\ t.duplicates = s.duplicates /\ ~t.raised
          BY <1>2, <4>5, <4>6, <4>7 DEF ProtectedState
        <4>9. /\ Ids(m) = Ids(l) \cup {id} /\ LastPosted(m) = Latest(k) /\ m # <<>>
              /\ Replay(l) \in Int /\ Replay(m) = Replay(l) + (0 - Worth(k))
              /\ LaterIds(m) = LaterIds(l) \cup {id}
          <5>1. l # <<>> /\ e \in ScriptEntry /\ l \in Seq(ScriptEntry)
            BY <1>2, <1>4, <1>5, <4>3
          <5>2. /\ Ids(m) = Ids(l) \cup {e.entry_id} /\ LastPosted(m) = e.posted_at
                /\ m # <<>> /\ Replay(l) \in Int /\ Replay(m) = Replay(l) + Signed(e)
                /\ LaterIds(m) = LaterIds(l) \cup {e.entry_id}
            BY ONLY <4>4, <5>1, OneMoreEntry
          <5> QED BY <4>3, <5>2
        <4>10. /\ IsFiniteSet(TakenRequests(k))
               /\ Cardinality(TakenRequests(k)) = Cardinality(TakenRequests(k - 1)) + 1
          <5>1. PICK R : R = TakenRequests(k - 1)
            OBVIOUS
          <5>2. IsFiniteSet(R) /\ r \notin R
            BY <1>2, <3>7, <5>1
          <5>3. IsFiniteSet(R \cup {r}) /\ Cardinality(R \cup {r}) = Cardinality(R) + 1
            BY ONLY <5>2, FS_AddElement
          <5> QED BY <3>2, <5>1, <5>3
        <4>11. t.duplicates = Cardinality(TakenBy(k)) - Cardinality(TakenRequests(k))
          BY <1>2, <3>3, <3>4, <4>8, <4>10
        <4>12. /\ LaterIds(m) = {<<q, "DEBIT">> : q \in TakenRequests(k)}
               /\ Ids(m) = {<<"OPEN">>} \cup {<<q, "DEBIT">> : q \in TakenRequests(k)}
          BY <1>2, <1>4, <1>5, <3>2, <4>9
        <4>13. Replay(m) = 1 - WorthOf(TakenBy(k) \ Repeats)
          <5>1. /\ TakenBy(k) \ Repeats = (TakenBy(k - 1) \ Repeats) \cup {k}
                /\ TakenBy(k - 1) \ Repeats \in SUBSET (1..Len(script))
                /\ k \notin TakenBy(k - 1) \ Repeats
            BY <1>0, <2>0, <2>5, <3>1, <3>7
          <5>2. /\ WorthOf(TakenBy(k - 1) \ Repeats) \in Int
                /\ WorthOf((TakenBy(k - 1) \ Repeats) \cup {k})
                     = WorthOf(TakenBy(k - 1) \ Repeats) + Worth(k)
            BY <5>1, WorthGrows
          <5>3. WorthOf(TakenBy(k) \ Repeats) = WorthOf(TakenBy(k - 1) \ Repeats) + Worth(k)
            BY ONLY <5>1, <5>2
          <5>4. Replay(l) = 1 - WorthOf(TakenBy(k - 1) \ Repeats)
            BY <1>2, <1>4
          <5> QED BY ONLY <1>1, <4>9, <5>2, <5>3, <5>4
        <4>14. LastPosted(m) <= Latest(k) /\ LastPosted(m) \in Nat
          BY <1>1, <4>9
        <4> QED BY ONLY <1>3, <3>1, <3>5, <4>8, <4>9, <4>10, <4>11, <4>12, <4>13, <4>14
                DEF ProtectedSound
      <3> QED BY <3>6, <3>7
    <2> QED BY <2>6, <2>7
  <1> QED BY <1>6, <1>7
-----------------------------------------------------------------------------
LEMMA NaiveEnds ==
  ASSUME ScriptOK
  PROVE  NaiveSound(Len(script), process_naively)
  <1>0. Len(script) \in Nat
    BY LenProperties DEF ScriptOK
  <1>1. PICK N : NaiveRun(N)
    BY SomeNaiveRun
  <1> DEFINE Bad == {k \in 0..Len(script) : ~NaiveSound(k, N[k])}
  <1>2. ASSUME Bad # {} PROVE FALSE
    <2>1. PICK k \in Bad : \A m \in Bad : k <= m
      <3>1. Bad \in SUBSET Nat
        BY <1>0
      <3> HIDE DEF Bad
      <3> QED BY <1>2, <3>1, LeastNatural
    <2>2. k # 0
      BY <1>1, <2>1, NaiveStarts DEF NaiveRun
    <2>3. k \in 1..Len(script) /\ k - 1 \in 0..Len(script) /\ ~(k <= k - 1)
      BY <1>0, <2>1, <2>2
    <2>4. NaiveSound(k - 1, N[k - 1])
      BY <2>1, <2>3
    <2>5. N[k] = NaiveStep(N[k - 1], script[k])
      BY <1>1, <2>3 DEF NaiveRun
    <2>6. NaiveSound(k, N[k])
      BY <2>3, <2>4, <2>5, NaiveStepSound
    <2> QED BY <2>1, <2>6
  <1>3. NaiveSound(Len(script), N[Len(script)])
    BY <1>0, <1>2
  <1> QED BY <1>1, <1>3 DEF NaiveRun

LEMMA ProtectedEnds ==
  ASSUME ScriptOK
  PROVE  ProtectedSound(Len(script), process_idempotently)
  <1>0. Len(script) \in Nat
    BY LenProperties DEF ScriptOK
  <1>1. PICK P : ProtectedRun(P)
    BY SomeProtectedRun
  <1> DEFINE Bad == {k \in 0..Len(script) : ~ProtectedSound(k, P[k])}
  <1>2. ASSUME Bad # {} PROVE FALSE
    <2>1. PICK k \in Bad : \A m \in Bad : k <= m
      <3>1. Bad \in SUBSET Nat
        BY <1>0
      <3> HIDE DEF Bad
      <3> QED BY <1>2, <3>1, LeastNatural
    <2>2. k # 0
      BY <1>1, <2>1, ProtectedStarts DEF ProtectedRun
    <2>3. k \in 1..Len(script) /\ k - 1 \in 0..Len(script) /\ ~(k <= k - 1)
      BY <1>0, <2>1, <2>2
    <2>4. ProtectedSound(k - 1, P[k - 1])
      BY <2>1, <2>3
    <2>5. P[k] = ProtectedStep(P[k - 1], script[k])
      BY <1>1, <2>3 DEF ProtectedRun
    <2>6. ProtectedSound(k, P[k])
      BY <2>3, <2>4, <2>5, ProtectedStepSound
    <2> QED BY <2>1, <2>6
  <1>3. ProtectedSound(Len(script), P[Len(script)])
    BY <1>0, <1>2
  <1> QED BY <1>1, <1>3 DEF ProtectedRun

\* A script that grows by one delivery at a time.
ScriptSpec == script = <<>> /\ [][deliver]_script

LEMMA ScriptGrows == ScriptOK /\ [deliver]_script => ScriptOK'
  <1> SUFFICES ASSUME ScriptOK, [deliver]_script PROVE ScriptOK'
    OBVIOUS
  <1>1. CASE UNCHANGED script
    BY <1>1 DEF ScriptOK
  <1>2. CASE deliver
    <2>1. PICK item \in PaymentDelivery :
            /\ script # <<>> => Last(script).arrived_at <= item.arrived_at
            /\ script' = Append(script, item)
      BY <1>2 DEF deliver
    <2>2. /\ script \in Seq(PaymentDelivery)
          /\ \A i \in DOMAIN script \ {1} :
               script[i - 1].arrived_at <= script[i].arrived_at
      BY DEF ScriptOK
    <2>3. PICK t : t = script'
      OBVIOUS
    <2>4. /\ t \in Seq(PaymentDelivery) /\ Len(script) \in Nat
          /\ DOMAIN script = 1..Len(script) /\ DOMAIN t = 1..(Len(script) + 1)
          /\ \A i \in 1..Len(script) : t[i] = script[i]
          /\ t[Len(script) + 1] = item
      BY <2>1, <2>2, <2>3, AppendOne
    <2>5. ASSUME NEW i \in DOMAIN t \ {1} PROVE t[i - 1].arrived_at <= t[i].arrived_at
      <3>1. CASE i = Len(script) + 1
        <4>1. script # <<>> /\ i - 1 = Len(script) /\ i - 1 \in 1..Len(script)
          BY <2>2, <2>4, <2>5, <3>1, EmptySeq
        <4>2. script[Len(script)].arrived_at <= item.arrived_at
          BY <2>1, <4>1 DEF Last
        <4> QED BY <2>4, <3>1, <4>1, <4>2
      <3>2. CASE i # Len(script) + 1
        <4>1. i \in 1..Len(script) /\ i - 1 \in 1..Len(script) /\ i \in DOMAIN script \ {1}
          BY <2>4, <2>5, <3>2
        <4> QED BY <2>2, <2>4, <4>1
      <3> QED BY <3>1, <3>2
    <2> QED BY <2>3, <2>4, <2>5 DEF ScriptOK
  <1> QED BY <1>1, <1>2

\* For every script that DeliverySequence accepts: the protected loop debits each
\* request once and raises exactly at the first repetition that asks for another
\* amount, the naive one exactly when a delivery number is repeated, and where
\* neither does the two accounts differ by the repeated deliveries
\* (process_naively against process_idempotently).
THEOREM DuplicatePrevention == ScriptSpec => []DuplicatesAreTheDifference
  <1>1. script = <<>> => ScriptOK
    <2> SUFFICES ASSUME script = <<>> PROVE ScriptOK
      OBVIOUS
    <2>1. script \in Seq(PaymentDelivery) /\ DOMAIN script = {}
      BY EmptySeq
    <2> QED BY <2>1 DEF ScriptOK
  <1>2. ASSUME ScriptOK PROVE DuplicatesAreTheDifference
    <2>1. PICK naive, protected, n : /\ naive = process_naively
                                     /\ protected = process_idempotently
                                     /\ n = Len(script)
      OBVIOUS
    <2>2. NaiveSound(n, naive) /\ ProtectedSound(n, protected)
      BY <1>2, <2>1, NaiveEnds, ProtectedEnds
    <2>3. /\ n \in Nat /\ DOMAIN script = 1..n
          /\ \A i \in 1..n : Worth(i) \in Int
      BY <1>2, <2>1, LenProperties, DeliveryTyped DEF ScriptOK
    <2>4. PICK requests : requests = {script[i].original_request_id : i \in Taken}
      OBVIOUS
    <2>5. TakenBy(n) = Taken /\ TakenRequests(n) = requests
      <3>1. TakenBy(n) = Taken
        BY <2>3 DEF TakenBy, Taken
      <3> QED BY <2>4, <3>1 DEF TakenRequests, Req
    <2>6. ConflictBy(n) <=> Conflicts # {}
      BY <2>3 DEF ConflictBy, Conflicts
    <2>7. /\ protected.raised <=> Conflicts # {}
          /\ {protected.ledger[i].entry_id : i \in DOMAIN protected.ledger \ {1}}
               = requests \X {"DEBIT"}
          /\ protected.duplicates = Cardinality(Taken) - Cardinality(requests)
          /\ Replay(protected.ledger) = 1 - WorthOf(Taken \ Repeats)
      <3>1. LaterIds(protected.ledger) = {<<r, "DEBIT">> : r \in requests}
        BY <2>2, <2>5 DEF ProtectedSound
      <3> QED BY <2>2, <2>5, <2>6, <3>1 DEF ProtectedSound, LaterIds
    <2>8. naive.raised <=>
            \E i, j \in DOMAIN script :
              /\ i # j
              /\ script[i].original_request_id = script[j].original_request_id
              /\ script[i].delivery_number = script[j].delivery_number
      BY <2>2, <2>3 DEF NaiveSound, RepeatedBy, SameDelivery, NaiveId
    <2>9. ASSUME ~protected.raised
          PROVE  Taken = 1..n /\ protected.duplicates = duplicate_deliveries
      <3>1. Taken = 1..n
        BY <2>3, <2>7, <2>9 DEF Taken
      <3>2. Cardinality(1..n) = n
        BY <2>3, FS_Interval
      <3>3. requests = Requests
        BY <2>3, <2>4, <3>1 DEF Requests
      <3> QED BY <2>1, <2>7, <3>1, <3>2, <3>3 DEF duplicate_deliveries
    <2>10. ASSUME ~protected.raised, ~naive.raised
           PROVE  Replay(protected.ledger) - Replay(naive.ledger)
                    = SumFunction([i \in Repeats |-> script[i].amount])
      <3>1. Replay(naive.ledger) = 1 - WorthOf(1..n)
        BY <2>2, <2>10 DEF NaiveSound
      <3>2. /\ WorthOf((1..n) \ Repeats) \in Int /\ WorthOf(Repeats) \in Int
            /\ WorthOf(1..n) = WorthOf((1..n) \ Repeats) + WorthOf(Repeats)
        <4> DEFINE A == (1..n) \ Repeats
                   B == Repeats
                   f == [i \in 1..n |-> Worth(i)]
                   a == [i \in A |-> Worth(i)]
                   b == [i \in B |-> Worth(i)]
        <4>1. Repeats \subseteq 1..n /\ A \cup B = 1..n /\ A \cap B = {}
          BY <2>3 DEF Repeats
        <4>2. IsFiniteSet(1..n)
          BY <2>3, FS_Interval
        <4>3. IsFiniteSet(A) /\ IsFiniteSet(B)
          BY <4>1, <4>2, FS_Subset
        <4>4. /\ a \in [A -> Int] /\ b \in [B -> Int] /\ f \in [A \cup B -> Int]
              /\ \A x \in A : f[x] = a[x]
              /\ \A x \in B : f[x] = b[x]
          BY <2>3, <4>1
        <4> HIDE DEF A, B, f, a, b
        <4>5. Splits(f, a, b)
          BY <4>1, <4>3, <4>4 DEF Splits
        <4>6. /\ SumFunction(a) \in Int /\ SumFunction(b) \in Int
              /\ SumFunction(f) = SumFunction(a) + SumFunction(b)
          BY <4>5, SumSplits
        <4> QED BY <4>6 DEF WorthOf, A, B, f, a, b
      <3>3. WorthOf(Repeats) = SumFunction([i \in Repeats |-> script[i].amount])
        BY DEF WorthOf, Worth
      <3>4. Replay(protected.ledger) = 1 - WorthOf((1..n) \ Repeats)
        BY <2>7, <2>9, <2>10
      <3> QED BY <3>1, <3>2, <3>3, <3>4
    <2> QED BY <2>1, <2>4, <2>7, <2>8, <2>9, <2>10 DEF DuplicatesAreTheDifference
  <1> QED BY <1>1, <1>2, ScriptGrows, PTL DEF ScriptSpec
-----------------------------------------------------------------------------
(***************************************************************************)
(* The event scheduler.  Everything is proved of Contract, in which        *)
(* callbacks and callers are not bounded, and Spec is proved to implement  *)
(* Contract.                                                               *)
(***************************************************************************)
PushSeq == Seq([time : Nat, callback : Callbacks])

\* One step of the clock and the heap, with the events that it schedules made
\* explicit: Next bounds them, ContractNext reads them off the heap.
SchedStep ==
  \/ \E e \in queue : DropOverdue(e)
  \/ \E e \in queue, pushes \in PushSeq, returns \in BOOLEAN :
       /\ \A i \in DOMAIN pushes : pushes[i].time >= e.time
       /\ RunEvent(e, pushes, returns)
  \/ \E time \in Nat, callback \in Callbacks : ScheduleAt(time, callback)
  \/ \E time \in Nat : AdvanceTo(time)

\* Insertion orders are handed out once: every known one is below the counter
\* and no two queued events share one.
OrdersFresh ==
  /\ \A e \in queue : e.order < nextOrder
  /\ \A e, f \in queue : e.order = f.order => e = f
  /\ \A i \in DOMAIN history : history[i].order < nextOrder
  /\ \A l \in lost : l.event.order < nextOrder

\* Completed events are not later than the clock and come before all queued ones.
PastBeforeFuture ==
  \A i \in DOMAIN history :
    /\ history[i].time <= clock
    /\ \A e \in queue : Before(history[i], e)

SchedInv == /\ TypeOK
            /\ OrdersFresh
            /\ PastBeforeFuture
            /\ HistoryChronological
            /\ EveryEventAccountedFor
            /\ OverdueOnlyByJump
            /\ jumped <= clock
-----------------------------------------------------------------------------
(***************************************************************************)
(* The events that a step schedules.                                       *)
(***************************************************************************)
\* What the schedule_at calls of a callback put on the heap.
LEMMA PushedEvents ==
  ASSUME nextOrder \in Nat, NEW pushes \in PushSeq
  PROVE  /\ Pushed(pushes) \subseteq Event
         /\ {e.order : e \in Pushed(pushes)} = nextOrder..(nextOrder + Len(pushes) - 1)
         /\ \A f \in Pushed(pushes) :
              \E i \in DOMAIN pushes : /\ f.time = pushes[i].time
                                       /\ f.order = nextOrder + i - 1
                                       /\ f.callback = pushes[i].callback
         /\ \A f, g \in Pushed(pushes) : f.order = g.order => f = g
  <1> DEFINE ev(i) == [time |-> pushes[i].time, order |-> nextOrder + i - 1,
                       callback |-> pushes[i].callback]
  <1>1. /\ DOMAIN pushes = 1..Len(pushes) /\ Len(pushes) \in Nat
        /\ \A i \in DOMAIN pushes : pushes[i] \in [time : Nat, callback : Callbacks]
    BY LenProperties DEF PushSeq
  <1>2. \A i \in DOMAIN pushes : ev(i) \in Event
    BY <1>1 DEF Event
  <1>3. Pushed(pushes) = {ev(i) : i \in DOMAIN pushes}
    BY DEF Pushed
  <1>4. Pushed(pushes) \subseteq Event
    BY <1>2, <1>3
  <1>5. \A o \in nextOrder..(nextOrder + Len(pushes) - 1) :
          o - nextOrder + 1 \in DOMAIN pushes /\ ev(o - nextOrder + 1).order = o
    BY <1>1
  <1>6. {e.order : e \in Pushed(pushes)} = nextOrder..(nextOrder + Len(pushes) - 1)
    <2>1. ASSUME NEW e \in Pushed(pushes)
          PROVE  e.order \in nextOrder..(nextOrder + Len(pushes) - 1)
      BY <1>1, <1>3
    <2>2. ASSUME NEW o \in nextOrder..(nextOrder + Len(pushes) - 1)
          PROVE  o \in {e.order : e \in Pushed(pushes)}
      <3>1. ev(o - nextOrder + 1) \in Pushed(pushes)
        BY <1>3, <1>5
      <3> QED BY <1>5, <3>1
    <2> QED BY <2>1, <2>2
  <1>7. \A f \in Pushed(pushes) : \E i \in DOMAIN pushes : f = ev(i)
    BY <1>3
  <1>8. \A f, g \in Pushed(pushes) : f.order = g.order => f = g
    BY <1>1, <1>7
  <1> QED BY <1>4, <1>6, <1>7, <1>8

\* The components of typed events and executions are numbers.
LEMMA TypedParts ==
  ASSUME TypeOK
  PROVE  /\ clock \in Nat /\ nextOrder \in Nat /\ jumped \in Nat
         /\ \A e \in queue : e.time \in Nat /\ e.order \in Nat
         /\ \A l \in lost : l.event.time \in Nat /\ l.event.order \in Nat
         /\ \A i \in DOMAIN history : history[i].time \in Nat /\ history[i].order \in Nat
         /\ DOMAIN history = 1..Len(history) /\ Len(history) \in Nat
  <1>1. DOMAIN history = 1..Len(history) /\ Len(history) \in Nat
    BY LenProperties DEF TypeOK
  <1>2. \A i \in DOMAIN history : history[i] \in Execution
    BY <1>1, ElementOfSeq DEF TypeOK
  <1> QED BY <1>1, <1>2 DEF TypeOK, Event, Execution
-----------------------------------------------------------------------------
(***************************************************************************)
(* The inductive invariant.                                                *)
(***************************************************************************)
\* The empty scheduler at any time satisfies the inductive invariant.
LEMMA SchedStart ==
  ASSUME clock \in Nat, queue = {}, nextOrder = 0, history = <<>>, lost = {},
         jumped = 0
  PROVE  SchedInv
  <1>1. TypeOK
    BY EmptySeq DEF TypeOK
  <1>2. DOMAIN history = {}
    BY DEF Execution
  <1>3. OrdersFresh /\ PastBeforeFuture /\ HistoryChronological
    BY <1>2 DEF OrdersFresh, PastBeforeFuture, HistoryChronological
  <1>4. EveryEventAccountedFor
    BY <1>2 DEF EveryEventAccountedFor, QueuedOrders, CompletedOrders, LostOrders
  <1> QED BY <1>1, <1>3, <1>4 DEF SchedInv, OverdueOnlyByJump

\* Dropping an overdue event moves one order from the heap to the lost ones, and
\* the event was overdue only because code outside moved the clock.
LEMMA DropOverdueIInv ==
  ASSUME SchedInv, NEW e \in queue, DropOverdue(e)
  PROVE  SchedInv'
  <1> DEFINE gone == [event |-> e, cause |-> "overdue"]
  <1> USE DEF SchedInv
  <1>1. /\ queue' = queue \ {e} /\ lost' = lost \cup {gone} /\ e.time < clock
        /\ UNCHANGED <<clock, nextOrder, history, jumped>>
    BY DEF DropOverdue
  <1>2. TypeOK'
    BY <1>1 DEF TypeOK, Cause
  <1>3. OrdersFresh'
    BY <1>1 DEF OrdersFresh
  <1>4. PastBeforeFuture' /\ HistoryChronological'
    BY <1>1 DEF PastBeforeFuture, HistoryChronological, Before
  <1>5. /\ QueuedOrders' = QueuedOrders \ {e.order}
        /\ LostOrders' = LostOrders \cup {e.order}
        /\ CompletedOrders' = CompletedOrders
        /\ e.order \in QueuedOrders
    <2>1. QueuedOrders' = QueuedOrders \ {e.order}
      BY <1>1 DEF OrdersFresh, QueuedOrders
    <2>2. LostOrders' = LostOrders \cup {e.order}
      <3>1. gone.event.order = e.order
        OBVIOUS
      <3> QED BY <1>1, <3>1 DEF LostOrders
    <2> QED BY <1>1, <2>1, <2>2 DEF QueuedOrders, CompletedOrders
  <1>6. EveryEventAccountedFor'
    BY <1>1, <1>5 DEF EveryEventAccountedFor
  <1>7. OverdueOnlyByJump' /\ (jumped <= clock)'
    BY <1>1 DEF OverdueOnlyByJump
  <1> QED BY <1>2, <1>3, <1>4, <1>6, <1>7

\* schedule_at takes a fresh order and a time that is not past, so the new event
\* comes after everything that has completed.
LEMMA ScheduleAtIInv ==
  ASSUME SchedInv, NEW time \in Nat, NEW callback \in Callbacks,
         ScheduleAt(time, callback)
  PROVE  SchedInv'
  <1> DEFINE new == [time |-> time, order |-> nextOrder, callback |-> callback]
  <1> USE DEF SchedInv
  <1>1. /\ queue' = queue \cup {new} /\ nextOrder' = nextOrder + 1 /\ time >= clock
        /\ UNCHANGED <<clock, history, lost, jumped>>
    BY DEF ScheduleAt
  <1>2. new \in Event /\ nextOrder \in Nat /\ queue \subseteq Event
    BY DEF TypeOK, Event
  <1>3. TypeOK'
    BY <1>1, <1>2 DEF TypeOK
  <1>4. OrdersFresh'
    BY <1>1, TypedParts DEF OrdersFresh
  <1>5. PastBeforeFuture' /\ HistoryChronological'
    BY <1>1, TypedParts DEF PastBeforeFuture, HistoryChronological, Before,
                            OrdersFresh
  <1>6. /\ QueuedOrders' = QueuedOrders \cup {nextOrder}
        /\ LostOrders' = LostOrders
        /\ CompletedOrders' = CompletedOrders
    <2>1. new.order = nextOrder
      OBVIOUS
    <2>2. QueuedOrders' = QueuedOrders \cup {nextOrder}
      BY <1>1, <2>1 DEF QueuedOrders
    <2> QED BY <1>1, <2>2 DEF LostOrders, CompletedOrders
  <1>7. 0..(nextOrder' - 1) = 0..(nextOrder - 1) \cup {nextOrder}
    BY <1>1, <1>2
  <1>8. EveryEventAccountedFor'
    BY <1>2, <1>6, <1>7 DEF EveryEventAccountedFor
  <1>9. OverdueOnlyByJump' /\ (jumped <= clock)'
    BY <1>1 DEF OverdueOnlyByJump, TypeOK
  <1> QED BY <1>3, <1>4, <1>5, <1>8, <1>9

\* Moving the clock by hand disturbs no order and records how far it was moved.
LEMMA AdvanceToIInv ==
  ASSUME SchedInv, NEW time \in Nat, AdvanceTo(time)
  PROVE  SchedInv'
  <1> USE DEF SchedInv
  <1>1. /\ clock' = time /\ jumped' = time /\ time >= clock
        /\ UNCHANGED <<queue, nextOrder, history, lost>>
    BY DEF AdvanceTo
  <1>2. TypeOK'
    BY <1>1 DEF TypeOK
  <1>3. OrdersFresh' /\ HistoryChronological'
    BY <1>1 DEF OrdersFresh, HistoryChronological, Before
  <1>4. PastBeforeFuture'
    BY <1>1, TypedParts DEF PastBeforeFuture, Before
  <1>5. EveryEventAccountedFor'
    BY <1>1 DEF EveryEventAccountedFor, QueuedOrders, CompletedOrders, LostOrders
  <1>6. OverdueOnlyByJump'
    BY <1>1 DEF OverdueOnlyByJump, TypeOK, Event
  <1> QED BY <1>1, <1>2, <1>3, <1>4, <1>5, <1>6 DEF TypeOK

\* The conjuncts of SchedInv that do not depend on whether the callback returns.
LEMMA RunEventHeap ==
  ASSUME SchedInv, NEW e \in queue, NEW pushes \in PushSeq, NEW returns \in BOOLEAN,
         \A i \in DOMAIN pushes : pushes[i].time >= e.time,
         RunEvent(e, pushes, returns)
  PROVE  /\ clock' = e.time /\ e.time \in Nat /\ clock <= e.time
         /\ queue' \subseteq Event
         /\ nextOrder' = nextOrder + Len(pushes) /\ nextOrder' \in Nat
         /\ \A f \in queue' : /\ f.order < nextOrder'
                              /\ Before(e, f)
                              /\ \/ f \in queue
                                 \/ f.order \in nextOrder..(nextOrder' - 1)
         /\ \A f, g \in queue' : f.order = g.order => f = g
         /\ QueuedOrders' = (QueuedOrders \ {e.order})
                              \cup (nextOrder..(nextOrder' - 1))
  <1> USE DEF SchedInv
  <1>1. /\ clock' = e.time /\ clock <= e.time
        /\ queue' = (queue \ {e}) \cup Pushed(pushes)
        /\ nextOrder' = nextOrder + Len(pushes)
        /\ \A f \in queue \ {e} : Before(e, f)
    BY DEF RunEvent, IsNext
  <1>2. Len(pushes) \in Nat /\ DOMAIN pushes = 1..Len(pushes)
    BY LenProperties DEF PushSeq
  <1>3. /\ nextOrder \in Nat /\ nextOrder' \in Nat
        /\ e.time \in Nat /\ e.order \in Nat
        /\ e.order < nextOrder
        /\ \A f \in queue : f.order \in Nat /\ f.order < nextOrder
    BY <1>1, <1>2, TypedParts DEF OrdersFresh
  <1>4. /\ Pushed(pushes) \subseteq Event
        /\ {f.order : f \in Pushed(pushes)} = nextOrder..(nextOrder' - 1)
        /\ \A f, g \in Pushed(pushes) : f.order = g.order => f = g
    BY <1>1, <1>3, PushedEvents
  <1>5. \A f \in Pushed(pushes) : /\ f.order \in nextOrder..(nextOrder' - 1)
                                  /\ f.time >= e.time
    <2> TAKE f \in Pushed(pushes)
    <2>1. PICK i \in DOMAIN pushes : /\ f.time = pushes[i].time
                                     /\ f.order = nextOrder + i - 1
      BY <1>3, PushedEvents
    <2> QED BY <1>1, <1>2, <1>3, <2>1
  <1>6. \A f \in Pushed(pushes) : f.time \in Nat /\ Before(e, f)
    BY <1>3, <1>4, <1>5 DEF Before, Event
  <1>7. queue' \subseteq Event
    BY <1>1, <1>4 DEF TypeOK
  <1>8. \A f \in queue' : /\ f.order < nextOrder'
                          /\ Before(e, f)
                          /\ f \in queue \/ f.order \in nextOrder..(nextOrder' - 1)
    BY <1>1, <1>2, <1>3, <1>5, <1>6
  <1>9. \A f, g \in queue' : f.order = g.order => f = g
    BY <1>1, <1>3, <1>4, <1>5 DEF OrdersFresh
  <1>10. QueuedOrders' = (QueuedOrders \ {e.order}) \cup (nextOrder..(nextOrder' - 1))
    <2>1. {f.order : f \in queue \ {e}} = QueuedOrders \ {e.order}
      BY DEF OrdersFresh, QueuedOrders
    <2> QED BY <1>1, <1>4, <2>1 DEF QueuedOrders
  <1> QED BY <1>1, <1>3, <1>7, <1>8, <1>9, <1>10

\* Running the least event keeps the invariant, whether its callback returns or
\* raises: what has completed stays before what is still queued.
LEMMA RunEventIInv ==
  ASSUME SchedInv, NEW e \in queue, NEW pushes \in PushSeq, NEW returns \in BOOLEAN,
         \A i \in DOMAIN pushes : pushes[i].time >= e.time,
         RunEvent(e, pushes, returns)
  PROVE  SchedInv'
  <1> DEFINE done == [time |-> e.time, order |-> e.order]
             gone == [event |-> e, cause |-> "raised"]
  <1> USE DEF SchedInv
  <1>1. /\ clock' = e.time /\ clock <= e.time
        /\ queue' \subseteq Event
        /\ nextOrder' \in Nat /\ nextOrder <= nextOrder'
        /\ \A f \in queue' : f.order < nextOrder' /\ Before(e, f)
        /\ \A f \in queue' : f \in queue \/ f.order \in nextOrder..(nextOrder' - 1)
        /\ \A f, g \in queue' : f.order = g.order => f = g
        /\ QueuedOrders' = (QueuedOrders \ {e.order})
                             \cup (nextOrder..(nextOrder' - 1))
    <2>1. Len(pushes) \in Nat
      BY LenProperties DEF PushSeq
    <2> QED BY <2>1, RunEventHeap, TypedParts
  <1>2. /\ jumped' = jumped
        /\ \/ history' = Append(history, done) /\ lost' = lost
           \/ history' = history /\ lost' = lost \cup {gone}
    BY DEF RunEvent
  <1>3. /\ clock \in Nat /\ nextOrder \in Nat /\ jumped \in Nat
        /\ e.time \in Nat /\ e.order \in Nat /\ e.order < nextOrder
        /\ e \in Event /\ done \in Execution
        /\ DOMAIN history = 1..Len(history) /\ Len(history) \in Nat
        /\ history \in Seq(Execution)
        /\ \A i \in DOMAIN history : history[i].time \in Nat /\ history[i].order \in Nat
        /\ \A f \in queue' : f.time \in Nat /\ f.order \in Nat
    BY <1>1, TypedParts DEF TypeOK, OrdersFresh, Execution, Event
  <1>4. CASE history' = Append(history, done) /\ lost' = lost
    <2>1. /\ history' \in Seq(Execution)
          /\ DOMAIN history' = 1..(Len(history) + 1)
          /\ \A i \in 1..Len(history) : history'[i] = history[i]
          /\ history'[Len(history) + 1] = done
      BY <1>3, <1>4, AppendProperties, LenProperties
    <2>2. TypeOK'
      BY <1>1, <1>2, <1>3, <1>4, <2>1 DEF TypeOK
    <2>3. OrdersFresh'
      BY <1>1, <1>3, <1>4, <2>1, TypedParts DEF OrdersFresh
    <2>4. PastBeforeFuture'
      <3>1. \A i \in 1..Len(history) : history[i].time <= e.time
        BY <1>1, <1>3 DEF PastBeforeFuture
      <3>2. ASSUME NEW i \in 1..Len(history), NEW f \in queue'
            PROVE  Before(history[i], f)
        <4>1. Before(history[i], e)
          BY <1>3 DEF PastBeforeFuture
        <4> QED BY <1>1, <1>3, <4>1 DEF Before
      <3> QED BY <1>1, <1>3, <2>1, <3>1, <3>2 DEF PastBeforeFuture, Before
    <2>5. HistoryChronological'
      <3> SUFFICES ASSUME NEW i \in DOMAIN history', NEW j \in DOMAIN history', i < j
                   PROVE  Before(history'[i], history'[j])
        BY DEF HistoryChronological, Before
      <3>1. CASE j \in DOMAIN history
        <4>1. i \in DOMAIN history
          BY <1>3, <2>1, <3>1
        <4> QED BY <1>3, <2>1, <3>1, <4>1 DEF HistoryChronological
      <3>2. CASE j = Len(history) + 1
        <4>1. i \in DOMAIN history
          BY <1>3, <2>1, <3>2
        <4>2. Before(history[i], e)
          BY <4>1 DEF PastBeforeFuture
        <4> QED BY <1>3, <2>1, <3>2, <4>1, <4>2 DEF Before
      <3> QED BY <1>3, <2>1, <3>1, <3>2
    <2>6. CompletedOrders' = CompletedOrders \cup {e.order} /\ LostOrders' = LostOrders
      BY <1>3, <1>4, <2>1 DEF CompletedOrders, LostOrders
    <2>7. EveryEventAccountedFor'
      <3>1. e.order \in QueuedOrders
        BY DEF QueuedOrders
      <3>2. 0..(nextOrder' - 1) = 0..(nextOrder - 1) \cup (nextOrder..(nextOrder' - 1))
        BY <1>1, <1>3
      <3> QED BY <1>1, <1>3, <2>6, <3>1, <3>2 DEF EveryEventAccountedFor
    <2>8. OverdueOnlyByJump' /\ (jumped <= clock)'
      BY SMTT(30), <1>1, <1>2, <1>3, <1>4 DEF OverdueOnlyByJump, Before
    <2> QED BY <2>2, <2>3, <2>4, <2>5, <2>7, <2>8
  <1>5. CASE history' = history /\ lost' = lost \cup {gone}
    <2>1. TypeOK'
      BY <1>1, <1>2, <1>3, <1>5 DEF TypeOK, Cause
    <2>2. OrdersFresh'
      BY <1>1, <1>3, <1>5, TypedParts DEF OrdersFresh
    <2>3. PastBeforeFuture'
      <3>1. \A i \in 1..Len(history) : history[i].time <= e.time
        BY <1>1, <1>3 DEF PastBeforeFuture
      <3>2. ASSUME NEW i \in 1..Len(history), NEW f \in queue'
            PROVE  Before(history[i], f)
        <4>1. Before(history[i], e)
          BY <1>3 DEF PastBeforeFuture
        <4> QED BY <1>1, <1>3, <4>1 DEF Before
      <3> QED BY <1>1, <1>3, <1>5, <3>1, <3>2 DEF PastBeforeFuture
    <2>4. HistoryChronological'
      BY <1>5 DEF HistoryChronological, Before
    <2>5. CompletedOrders' = CompletedOrders
      BY <1>5 DEF CompletedOrders
    <2>6. LostOrders' = LostOrders \cup {e.order}
      <3>1. gone.event.order = e.order
        OBVIOUS
      <3> QED BY <1>5, <3>1 DEF LostOrders
    <2>7. EveryEventAccountedFor'
      <3>1. e.order \in QueuedOrders
        BY DEF QueuedOrders
      <3>2. 0..(nextOrder' - 1) = 0..(nextOrder - 1) \cup (nextOrder..(nextOrder' - 1))
        BY <1>1, <1>3
      <3> QED BY <1>1, <1>3, <2>5, <2>6, <3>1, <3>2 DEF EveryEventAccountedFor
    <2>8. OverdueOnlyByJump' /\ (jumped <= clock)'
      BY <1>1, <1>2, <1>3, <1>5 DEF OverdueOnlyByJump, Before
    <2> QED BY <2>1, <2>2, <2>3, <2>4, <2>7, <2>8
  <1> QED BY <1>2, <1>4, <1>5

\* Every step of the scheduler keeps the inductive invariant.
LEMMA SchedStepInv == SchedInv /\ SchedStep => SchedInv'
  <1> SUFFICES ASSUME SchedInv, SchedStep PROVE SchedInv'
    OBVIOUS
  <1>1. CASE \E e \in queue : DropOverdue(e)
    BY <1>1, DropOverdueIInv
  <1>2. CASE \E e \in queue, pushes \in PushSeq, returns \in BOOLEAN :
               /\ \A i \in DOMAIN pushes : pushes[i].time >= e.time
               /\ RunEvent(e, pushes, returns)
    BY <1>2, RunEventIInv
  <1>3. CASE \E time \in Nat, callback \in Callbacks : ScheduleAt(time, callback)
    BY <1>3, ScheduleAtIInv
  <1>4. CASE \E time \in Nat : AdvanceTo(time)
    BY <1>4, AdvanceToIInv
  <1> QED BY <1>1, <1>2, <1>3, <1>4 DEF SchedStep

\* A step that leaves the scheduler alone keeps the inductive invariant.
LEMMA SchedStutterInv == SchedInv /\ UNCHANGED vars => SchedInv'
  <1> SUFFICES ASSUME SchedInv, UNCHANGED vars PROVE SchedInv'
    OBVIOUS
  <1>1. UNCHANGED <<clock, queue, nextOrder, history, lost, jumped>>
    BY DEF vars
  <1>2. TypeOK'
    BY <1>1 DEF SchedInv, TypeOK
  <1>3. OrdersFresh'
    BY <1>1 DEF SchedInv, OrdersFresh
  <1>4. PastBeforeFuture' /\ HistoryChronological'
    BY <1>1 DEF SchedInv, PastBeforeFuture, HistoryChronological, Before
  <1>5. EveryEventAccountedFor'
    BY <1>1 DEF SchedInv, EveryEventAccountedFor, QueuedOrders, CompletedOrders,
                LostOrders
  <1>6. OverdueOnlyByJump' /\ (jumped <= clock)'
    BY <1>1 DEF SchedInv, OverdueOnlyByJump
  <1> QED BY <1>2, <1>3, <1>4, <1>5, <1>6 DEF SchedInv
-----------------------------------------------------------------------------
(***************************************************************************)
(* The safety of everything that keeps the contract.                       *)
(***************************************************************************)
\* What the contract allows is a step whose scheduled events are made explicit.
LEMMA ContractIsStep == TypeOK /\ ContractNext => SchedStep
  <1> SUFFICES ASSUME TypeOK, ContractNext PROVE SchedStep
    OBVIOUS
  <1>1. CASE \E e \in queue : DropOverdue(e)
    BY <1>1 DEF SchedStep
  <1>2. CASE \E e \in queue :
               /\ NewPushes \in PushSeq
               /\ \A i \in DOMAIN NewPushes : NewPushes[i].time >= e.time
               /\ \E returns \in BOOLEAN : RunEvent(e, NewPushes, returns)
    BY <1>2 DEF SchedStep
  <1>3. CASE /\ NewPushes[1].time \in Nat /\ NewPushes[1].callback \in Callbacks
             /\ ScheduleAt(NewPushes[1].time, NewPushes[1].callback)
    BY <1>3 DEF SchedStep
  <1>4. CASE AdvanceTo(clock')
    BY <1>4 DEF SchedStep, AdvanceTo
  <1> QED BY <1>1, <1>2, <1>3, <1>4 DEF ContractNext, PushSeq

\* The inductive invariant holds of whatever keeps the contract.
THEOREM SchedContractInvariant == Contract => []SchedInv
  <1> DEFINE CInit == /\ clock \in Nat /\ queue = {} /\ nextOrder = 0
                      /\ history = <<>> /\ lost = {} /\ jumped = 0
  <1>1. CInit => SchedInv
    BY SchedStart
  <1>2. SchedInv /\ [ContractNext]_vars => SchedInv'
    BY ContractIsStep, SchedStepInv, SchedStutterInv DEF SchedInv
  <1>3. Contract => CInit /\ [][ContractNext]_vars
    BY DEF Contract
  <1> HIDE DEF CInit
  <1> QED BY <1>1, <1>2, <1>3, PTL

\* Every component that keeps the contract, however many events it schedules and
\* whatever its callbacks do, has its callbacks completed in the order of
\* <<time, order>>, loses no event and none but raising ones unless its clock is
\* moved by hand (scheduler.py, run_next and schedule_at).
THEOREM SchedulerContractSafety ==
  Contract => [](/\ HistoryChronological
                 /\ EveryEventAccountedFor
                 /\ OverdueOnlyByJump)
  <1>1. SchedInv => HistoryChronological /\ EveryEventAccountedFor /\ OverdueOnlyByJump
    BY DEF SchedInv
  <1> QED BY <1>1, SchedContractInvariant, PTL
-----------------------------------------------------------------------------
(***************************************************************************)
(* The scheduler keeps its own contract.                                   *)
(***************************************************************************)
\* What Next may push is a sequence of events that are not in the past.
LEMMA PushListsTyped ==
  ASSUME NEW t \in Nat, NEW pushes \in PushLists(t)
  PROVE  pushes \in PushSeq /\ \A i \in DOMAIN pushes : pushes[i].time >= t
  <1>1. PICK n \in 0..MaxPush :
               pushes \in [1..n -> [time : t..MaxTime, callback : Callbacks]]
    BY DEF PushLists
  <1>2. t..MaxTime \subseteq Nat /\ n \in Nat
    BY SchedulerBounds
  <1>3. pushes \in [1..n -> [time : Nat, callback : Callbacks]]
    BY <1>1, <1>2
  <1>4. pushes \in PushSeq
    <2> DEFINE P == [time : Nat, callback : Callbacks]
    <2>1. pushes \in UNION {[1..m -> P] : m \in Nat}
      BY <1>2, <1>3
    <2>2. Seq(P) = UNION {[1..m -> P] : m \in Nat}
      BY SeqDef
    <2> QED BY <2>1, <2>2 DEF PushSeq
  <1>5. \A i \in DOMAIN pushes : pushes[i].time >= t
    BY <1>1, SchedulerBounds
  <1> QED BY <1>4, <1>5

\* The contract reads back from the heap exactly what the callback scheduled.
LEMMA NewPushesAreThePushes ==
  ASSUME SchedInv, NEW e \in queue, NEW pushes \in PushSeq, NEW returns \in BOOLEAN,
         \A i \in DOMAIN pushes : pushes[i].time >= e.time,
         RunEvent(e, pushes, returns)
  PROVE  NewPushes = pushes
  <1> DEFINE ev(i) == [time |-> pushes[i].time, order |-> nextOrder + i - 1,
                       callback |-> pushes[i].callback]
             found(i) == CHOOSE f \in queue' : f.order = nextOrder + i - 1
  <1>1. /\ Len(pushes) \in Nat /\ DOMAIN pushes = 1..Len(pushes)
        /\ pushes \in [1..Len(pushes) -> [time : Nat, callback : Callbacks]]
    BY LenProperties DEF PushSeq
  <1>2. /\ nextOrder \in Nat /\ nextOrder' = nextOrder + Len(pushes)
        /\ \A f, g \in queue' : f.order = g.order => f = g
    BY RunEventHeap, TypedParts DEF SchedInv
  <1>3. nextOrder' - nextOrder = Len(pushes)
    BY <1>1, <1>2
  <1>4. \A i \in 1..Len(pushes) : ev(i) \in queue' /\ ev(i).order = nextOrder + i - 1
    BY <1>1 DEF RunEvent, Pushed
  <1>5. \A i \in 1..Len(pushes) : found(i) = ev(i)
    BY <1>2, <1>4
  <1>6. \A i \in 1..Len(pushes) :
          [time |-> found(i).time, callback |-> found(i).callback] = pushes[i]
    <2> TAKE i \in 1..Len(pushes)
    <2>1. pushes[i] \in [time : Nat, callback : Callbacks]
      BY <1>1
    <2>2. pushes[i] = [time |-> pushes[i].time, callback |-> pushes[i].callback]
      BY <2>1
    <2>3. ev(i).time = pushes[i].time /\ ev(i).callback = pushes[i].callback
      OBVIOUS
    <2> HIDE DEF ev, found
    <2>4. found(i) = ev(i)
      BY <1>5
    <2> QED BY <2>2, <2>3, <2>4
  <1>7. NewPushes = [i \in 1..Len(pushes) |->
                       [time |-> found(i).time, callback |-> found(i).callback]]
    BY <1>3 DEF NewPushes
  <1> QED BY <1>1, <1>6, <1>7

\* A schedule_at between two events is a step of the contract.
LEMMA ScheduleAtKeepsContract ==
  ASSUME SchedInv, NEW time \in Nat, NEW callback \in Callbacks,
         ScheduleAt(time, callback)
  PROVE  ContractNext
  <1> DEFINE new == [time |-> time, order |-> nextOrder, callback |-> callback]
             push == [time |-> time, callback |-> callback]
  <1>1. /\ queue' = queue \cup {new} /\ nextOrder' - nextOrder = 1
        /\ nextOrder \in Nat
        /\ \A f \in queue : f.order < nextOrder /\ f.order \in Nat
    BY TypedParts DEF ScheduleAt, SchedInv, OrdersFresh
  <1>2. (CHOOSE f \in queue' : f.order = nextOrder + 1 - 1) = new
    BY <1>1
  <1>3. NewPushes = [i \in 1..1 |-> push]
    <2>1. \A i \in 1..1 : (CHOOSE f \in queue' : f.order = nextOrder + i - 1) = new
      BY <1>2
    <2> QED BY <1>1, <2>1 DEF NewPushes
  <1>4. Len(NewPushes) = 1 /\ NewPushes[1] = push
    BY <1>3
  <1> QED BY <1>4 DEF ContractNext

\* Every bounded step of the scheduler on its own is a step of the contract.
LEMMA NextKeepsContract == SchedInv /\ Next => ContractNext
  <1> SUFFICES ASSUME SchedInv, Next PROVE ContractNext
    OBVIOUS
  <1>1. CASE \E e \in queue : DropOverdue(e)
    BY <1>1 DEF ContractNext
  <1>2. ASSUME NEW e \in queue, NEW pushes \in PushLists(e.time),
               NEW returns \in BOOLEAN, RunEvent(e, pushes, returns)
        PROVE  ContractNext
    <2>1. e.time \in Nat
      BY TypedParts DEF SchedInv
    <2>2. pushes \in PushSeq /\ \A i \in DOMAIN pushes : pushes[i].time >= e.time
      BY <2>1, PushListsTyped
    <2>3. NewPushes = pushes
      BY <1>2, <2>2, NewPushesAreThePushes
    <2> QED BY <1>2, <2>2, <2>3 DEF ContractNext, PushSeq
  <1>3. CASE Schedule
    BY <1>3, ScheduleAtKeepsContract, SchedulerBounds DEF Schedule, Time
  <1>4. CASE Jump
    BY <1>4 DEF Jump, ContractNext, AdvanceTo
  <1> QED BY <1>1, <1>2, <1>3, <1>4 DEF Next, RunNext

\* The scheduler driven by bounded callbacks and callers keeps the contract that
\* the components' steps are checked against.
THEOREM SchedulerImplementsContract == Spec => Contract
  <1>1. Init => SchedInv
    BY SchedStart, SchedulerBounds DEF Init, Time
  <1>2. SchedInv /\ [Next]_vars => SchedInv'
    BY NextKeepsContract, ContractIsStep, SchedStepInv, SchedStutterInv DEF SchedInv
  <1>3. SchedInv /\ [Next]_vars => [ContractNext]_vars
    BY NextKeepsContract
  <1>4. Init => /\ clock \in Nat /\ queue = {} /\ nextOrder = 0
                /\ history = <<>> /\ lost = {} /\ jumped = 0
    BY SchedulerBounds DEF Init, Time
  <1> QED BY <1>1, <1>2, <1>3, <1>4, PTL DEF Spec, Contract

\* The clock, the heap and the history always have their types.
THEOREM SchedulerTypeCorrect == Spec => []TypeOK
  <1>1. SchedInv => TypeOK
    BY DEF SchedInv
  <1> QED BY <1>1, SchedContractInvariant, SchedulerImplementsContract, PTL

\* Callbacks complete in the order of <<time, order>> in every behaviour.
THEOREM Chronological == Spec => []HistoryChronological
  <1> QED BY SchedulerContractSafety, SchedulerImplementsContract, PTL

\* No event is duplicated or forgotten, whatever raises or is overdue.
THEOREM Accounted == Spec => []EveryEventAccountedFor
  <1> QED BY SchedulerContractSafety, SchedulerImplementsContract, PTL

\* Only code outside the scheduler can make an event overdue.
THEOREM OverdueIsForeign == Spec => []OverdueOnlyByJump
  <1> QED BY SchedulerContractSafety, SchedulerImplementsContract, PTL

\* Nothing is lost without a cause, whatever the callbacks do.
THEOREM Explained == Spec => []EveryEventExplained
  <1>1. EveryEventAccountedFor /\ OverdueOnlyByJump => EveryEventExplained
    BY DEF EveryEventExplained
  <1> QED BY <1>1, Accounted, OverdueIsForeign, PTL
=============================================================================
