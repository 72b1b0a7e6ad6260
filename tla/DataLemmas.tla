----------------------------- MODULE DataLemmas -----------------------------
(***************************************************************************)
(* Facts about sequences, sets and sums that the proofs about several      *)
(* components rest on.                                                     *)
(***************************************************************************)
EXTENDS Integers, Sequences, FiniteSets, FiniteSetsExt, SequenceTheorems,
        FiniteSetTheorems, NaturalsInduction, WellFoundedInduction, TLAPS

\* A nonempty set of natural numbers has a least element: what stands for an
\* induction over the naturals below.
LEMMA LeastNatural ==
  ASSUME NEW S \in SUBSET Nat, S # {}
  PROVE  \E m \in S : \A k \in S : m <= k
  <1> DEFINE R == OpToRel(<, Nat)
  <1>1. IsWellFoundedOn(R, Nat)
    BY NatLessThanWellFounded
  <1>2. \A x, y \in Nat : x < y => <<x, y>> \in R
    BY DEF OpToRel
  <1> HIDE DEF R
  <1>3. PICK m \in S : \A y \in S : ~(<<y, m>> \in R)
    BY <1>1, WFMin
  <1>4. ASSUME NEW k \in S, ~(m <= k)
        PROVE  FALSE
    <2>1. k \in Nat /\ m \in Nat /\ k < m
      BY <1>4
    <2>2. <<k, m>> \in R
      BY <2>1, <1>2
    <2> QED BY <2>2, <1>3
  <1> QED BY <1>4

\* A finite set of at most one element has no two.
LEMMA AtMostOne ==
  ASSUME NEW S, IsFiniteSet(S), Cardinality(S) <= 1
  PROVE  \A x, y \in S : x = y
  <1> SUFFICES ASSUME NEW x \in S, NEW y \in S, x # y
               PROVE  FALSE
    OBVIOUS
  <1>1. IsFiniteSet({x}) /\ Cardinality({x}) = 1
    BY FS_Singleton
  <1>2. Cardinality({x} \cup {y}) = 2
    <2>1. y \notin {x}
      OBVIOUS
    <2> QED BY <1>1, <2>1, FS_AddElement
  <1>3. {x} \cup {y} \in SUBSET S
    OBVIOUS
  <1>4. Cardinality({x} \cup {y}) <= Cardinality(S) /\ Cardinality(S) \in Nat
    BY <1>3, FS_Subset, FS_CardinalityType
  <1> QED BY <1>2, <1>4

\* A set without two elements is finite and has at most one.
LEMMA NoTwo ==
  ASSUME NEW S, \A x, y \in S : x = y
  PROVE  IsFiniteSet(S) /\ Cardinality(S) <= 1
  <1>1. CASE S = {}
    BY <1>1, FS_EmptySet
  <1>2. CASE S # {}
    <2>1. PICK x \in S : TRUE
      BY <1>2
    <2>2. S = {x}
      BY <2>1
    <2>3. IsFiniteSet({x}) /\ Cardinality({x}) = 1
      BY FS_Singleton
    <2> QED BY <2>2, <2>3
  <1> QED BY <1>1, <1>2

\* One more element of a sequence, position by position.
LEMMA AppendOne ==
  ASSUME NEW E, NEW s \in Seq(E), NEW e \in E
  PROVE  LET t == Append(s, e)
         IN  /\ t \in Seq(E) /\ Len(s) \in Nat /\ Len(t) = Len(s) + 1
             /\ DOMAIN s = 1..Len(s) /\ DOMAIN t = 1..(Len(s) + 1)
             /\ \A i \in 1..Len(s) : t[i] = s[i] /\ s[i] \in E
             /\ t[Len(s) + 1] = e
             /\ t = s \o <<e>>
  BY AppendProperties, AppendIsConcat, LenProperties, ElementOfSeq

\* What was appended is the rest of the longer sequence.
LEMMA AppendedSuffix ==
  ASSUME NEW E, NEW s \in Seq(E), NEW e \in E
  PROVE  SubSeq(Append(s, e), Len(s) + 1, Len(s) + 1) = <<e>>
  <1> DEFINE t == Append(s, e)
             n == Len(s)
             u == SubSeq(t, n + 1, n + 1)
  <1>1. n \in Nat /\ t[n + 1] = e
    BY AppendOne
  <1>2. \A i \in (n + 1)..(n + 1) : t[i] \in E
    BY <1>1
  <1>3. u \in Seq(E) /\ Len(u) = 1 /\ u[1] = e
    BY <1>1, <1>2, SubSeqProperties
  <1>4. <<e>> \in Seq(E) /\ Len(<<e>>) = 1 /\ <<e>>[1] = e
    OBVIOUS
  <1>5. \A i \in 1..1 : u[i] = <<e>>[i]
    BY <1>3, <1>4
  <1> HIDE DEF u
  <1>6. u = <<e>>
    BY <1>3, <1>4, <1>5, SeqEqual
  <1> QED BY <1>6 DEF u
\* The smaller and the larger of two numbers.
LEMMA MinMaxOfTwo ==
  ASSUME NEW a \in Int, NEW b \in Int
  PROVE  /\ Min({a, b}) = IF a <= b THEN a ELSE b
         /\ Max({a, b}) = IF a <= b THEN b ELSE a
  <1>1. \E m \in {a, b} : \A y \in {a, b} : m <= y
    OBVIOUS
  <1>2. \E m \in {a, b} : \A y \in {a, b} : m >= y
    OBVIOUS
  <1> QED BY <1>1, <1>2 DEF Min, Max

\* A nonempty set of integers under a bound has a largest element.
LEMMA MaxOfBounded ==
  ASSUME NEW S \in SUBSET Int, S # {}, NEW b \in Int, \A x \in S : x <= b
  PROVE  Max(S) \in S /\ \A x \in S : x <= Max(S)
  <1> DEFINE Below == {b - x : x \in S}
  <1>1. Below \in SUBSET Nat /\ Below # {}
    <2>1. \A x \in S : x \in Int /\ x <= b
      OBVIOUS
    <2>2. \A x \in S : b - x \in Nat
      BY <2>1
    <2> QED BY <2>2
  <1>2. PICK m \in Below : \A k \in Below : m <= k
    <2> HIDE DEF Below
    <2> QED BY <1>1, LeastNatural
  <1>3. PICK x \in S : m = b - x
    BY <1>2
  <1>4. \A y \in S : x >= y
    <2> SUFFICES ASSUME NEW y \in S PROVE x >= y
      OBVIOUS
    <2>1. m <= b - y
      BY <1>2
    <2> QED BY <1>3, <2>1
  <1> QED BY <1>3, <1>4 DEF Max

\* What is left of a sequence without its first n elements.
LEMMA Suffix ==
  ASSUME NEW E, NEW s \in Seq(E), NEW n \in 0..Len(s)
  PROVE  LET t == SubSeq(s, n + 1, Len(s))
         IN  /\ t \in Seq(E) /\ Len(t) = Len(s) - n
             /\ DOMAIN t = 1..(Len(s) - n)
             /\ \A i \in 1..(Len(s) - n) : t[i] = s[i + n]
             /\ n = Len(s) <=> t = <<>>
  <1>0. PICK len \in Nat : len = Len(s)
    BY LenProperties
  <1> DEFINE t == SubSeq(s, n + 1, len)
  <1>1. n \in Nat /\ n <= len /\ \A i \in (n + 1)..len : s[i] \in E
    BY <1>0, ElementOfSeq
  <1>2. /\ t \in Seq(E)
        /\ Len(t) = IF n + 1 <= len THEN len - (n + 1) + 1 ELSE 0
        /\ \A i \in 1..(len - (n + 1) + 1) : t[i] = s[n + 1 + i - 1]
    BY <1>1, SubSeqProperties
  <1> HIDE DEF t
  <1>3. Len(t) = len - n
    BY <1>1, <1>2
  <1>4. ASSUME NEW i \in 1..(len - n) PROVE t[i] = s[i + n]
    <2>1. i \in 1..(len - (n + 1) + 1) /\ n + 1 + i - 1 = i + n
      BY <1>1
    <2> QED BY <2>1, <1>2
  <1>5. DOMAIN t = 1..(len - n)
    BY <1>2, <1>3, LenProperties
  <1>6. n = len <=> t = <<>>
    <2>1. n = len <=> Len(t) = 0
      BY <1>1, <1>3
    <2> QED BY <2>1, <1>2, EmptySeq
  <1> QED BY <1>0, <1>2, <1>3, <1>4, <1>5, <1>6 DEF t

\* A sequence with n more elements at its end.
LEMMA Extended ==
  ASSUME NEW E, NEW s \in Seq(E), NEW n \in Nat, NEW f \in [1..n -> E]
  PROVE  LET t == s \o f
         IN  /\ t \in Seq(E) /\ Len(t) = Len(s) + n
             /\ DOMAIN t = 1..(Len(s) + n)
             /\ \A i \in 1..Len(s) : t[i] = s[i]
             /\ \A i \in 1..n : t[Len(s) + i] = f[i]
  <1> DEFINE t == s \o f
  <1>0. Len(s) \in Nat /\ f \in Seq(E) /\ Len(f) = n
    BY LenProperties
  <1>1. /\ t \in Seq(E) /\ Len(t) = Len(s) + Len(f)
        /\ \A i \in 1..Len(s) + Len(f) : t[i] = IF i <= Len(s) THEN s[i] ELSE f[i - Len(s)]
    BY <1>0, ConcatProperties
  <1> HIDE DEF t
  <1>2. Len(t) = Len(s) + n /\ \A i \in 1..Len(s) : t[i] = s[i]
    BY <1>0, <1>1
  <1>3. ASSUME NEW i \in 1..n PROVE t[Len(s) + i] = f[i]
    <2>1. Len(s) + i \in 1..Len(s) + Len(f) /\ ~(Len(s) + i <= Len(s)) /\ Len(s) + i - Len(s) = i
      BY <1>0
    <2> QED BY <2>1, <1>1
  <1>4. DOMAIN t = 1..(Len(s) + n)
    BY <1>1, <1>2, LenProperties
  <1> QED BY <1>1, <1>2, <1>3, <1>4 DEF t
\* The parts of two sequences that follow one another.
LEMMA Joined ==
  ASSUME NEW E, NEW v \in Seq(E), NEW r \in Seq(E), NEW t, t = v \o r
  PROVE  /\ t \in Seq(E) /\ Len(v) \in Nat /\ Len(r) \in Nat
         /\ Len(t) = Len(v) + Len(r) /\ DOMAIN t = 1..(Len(v) + Len(r))
         /\ DOMAIN v = 1..Len(v) /\ DOMAIN r = 1..Len(r)
         /\ \A i \in 1..Len(v) : t[i] = v[i]
         /\ \A i \in 1..Len(r) : t[Len(v) + i] = r[i]
  <1>1. /\ Len(v) \in Nat /\ Len(r) \in Nat
        /\ DOMAIN v = 1..Len(v) /\ DOMAIN r = 1..Len(r)
    BY LenProperties
  <1>2. /\ t \in Seq(E) /\ Len(t) = Len(v) + Len(r)
        /\ \A i \in 1..Len(v) + Len(r) : t[i] = IF i <= Len(v) THEN v[i] ELSE r[i - Len(v)]
    BY <1>1, ConcatProperties
  <1>3. DOMAIN t = 1..(Len(v) + Len(r))
    BY <1>2, LenProperties
  <1>4. \A i \in 1..Len(v) : t[i] = v[i]
    BY <1>1, <1>2
  <1>5. ASSUME NEW i \in 1..Len(r) PROVE t[Len(v) + i] = r[i]
    <2>1. /\ Len(v) + i \in 1..Len(v) + Len(r) /\ ~(Len(v) + i <= Len(v))
          /\ Len(v) + i - Len(v) = i
      BY <1>1
    <2> QED BY <1>2, <2>1
  <1> QED BY <1>1, <1>2, <1>3, <1>4, <1>5
-----------------------------------------------------------------------------
(***************************************************************************)
(* Sums over finite sets.  SumFunction adds the values of a function by    *)
(* taking away one chosen element of its domain after the other; the order *)
(* does not matter for integers.                                           *)
(***************************************************************************)
Chosen(s) == CHOOSE x \in s : TRUE

\* h is the recursive function that the sum over the domain of f evaluates.
AddsUp(f, h) ==
  h = [s \in SUBSET DOMAIN f |->
         IF s = {} THEN 0 ELSE f[Chosen(s)] + h[s \ {Chosen(s)}]]

\* Any element of a set may be the first that is taken away.
InAnyOrder(f, h) ==
  \A s \in SUBSET DOMAIN f : \A x \in s : h[s] = f[x] + h[s \ {x}]

\* h gives the sum over every subset of the domain of f.
SumsOf(f, h) ==
  /\ h \in [SUBSET DOMAIN f -> Int]
  /\ AddsUp(f, h) /\ InAnyOrder(f, h)
  /\ SumFunction(f) = h[DOMAIN f] /\ h[{}] = 0

\* Taking the chosen element away leaves a smaller subset.
LEMMA OneLess ==
  ASSUME NEW S, IsFiniteSet(S), NEW s \in SUBSET S, NEW x \in s
  PROVE  /\ s \ {x} \in SUBSET S
         /\ IsFiniteSet(s) /\ Cardinality(s) \in Nat
         /\ Cardinality(s \ {x}) \in Nat
         /\ Cardinality(s \ {x}) = Cardinality(s) - 1
         /\ Cardinality(s) <= Cardinality(S)
  <1>1. IsFiniteSet(s) /\ Cardinality(s) <= Cardinality(S)
    BY FS_Subset
  <1>2. IsFiniteSet(s \ {x}) /\ Cardinality(s \ {x}) = Cardinality(s) - 1
    BY <1>1, FS_RemoveElement
  <1> QED BY <1>1, <1>2, FS_CardinalityType

\* h is the function that a fold over the subsets of S evaluates: it starts from
\* base and takes the elements that pick names, one after the other, step saying what
\* each does.
FoldsTo(S, pick, base, step, h) ==
  h = [s \in SUBSET S |-> IF s = {} THEN base
                          ELSE step[pick[s]][h[s \ {pick[s]}]]]

Picks(S, pick) == \A s \in SUBSET S : s # {} => pick[s] \in s

\* The recursion defines a function.
LEMMA SomeFold ==
  ASSUME NEW S, IsFiniteSet(S), NEW pick, Picks(S, pick),
         NEW V, NEW base \in V, NEW step \in [S -> [V -> V]]
  PROVE  \E h \in [SUBSET S -> V] : FoldsTo(S, pick, base, step, h)
  <1> DEFINE Small(n) == {s \in SUBSET S : Cardinality(s) <= n}
             Value(h, s) == IF s = {} THEN base
                                       ELSE step[pick[s]][h[s \ {pick[s]}]]
             Solved(h, n) == /\ h \in [Small(n) -> V]
                             /\ \A s \in Small(n) : h[s] = Value(h, s)
             Bad == {n \in Nat : ~ \E h : Solved(h, n)}
  <1>c. \A s \in SUBSET S : s # {} => pick[s] \in s
    BY DEF Picks
  <1>0. \E h : Solved(h, 0)
    <2>1. \A s \in Small(0) : s = {}
      <3> SUFFICES ASSUME NEW s \in SUBSET S, Cardinality(s) <= 0 PROVE s = {}
        OBVIOUS
      <3>1. IsFiniteSet(s) /\ Cardinality(s) \in Nat
        BY FS_Subset, FS_CardinalityType
      <3> QED BY <3>1, FS_EmptySet
    <2> DEFINE h == [s \in Small(0) |-> base]
    <2>2. Solved(h, 0)
      BY <2>1
    <2> QED BY <2>2
  <1>1. ASSUME NEW n \in Nat, NEW h, Solved(h, n)
        PROVE  \E g : Solved(g, n + 1)
    <2> DEFINE g == [s \in Small(n + 1) |-> Value(h, s)]
    <2>1. ASSUME NEW s \in Small(n + 1), s # {}
          PROVE  /\ s \ {pick[s]} \in Small(n) /\ s \ {pick[s]} \in Small(n + 1)
                 /\ step[pick[s]] \in [V -> V]
      <3>1. pick[s] \in s
        BY <2>1, <1>c
      <3>2. /\ s \ {pick[s]} \in SUBSET S
            /\ Cardinality(s) \in Nat /\ Cardinality(s \ {pick[s]}) \in Nat
            /\ Cardinality(s \ {pick[s]}) = Cardinality(s) - 1
        BY <3>1, OneLess
      <3> QED BY <3>1, <3>2
    <2>2. \A s \in Small(n + 1) : Value(h, s) \in V
      BY <2>1, <1>1
    <2>3. g \in [Small(n + 1) -> V]
      BY <2>2
    <2>4. \A s \in Small(n) : s \in Small(n + 1)
      <3> SUFFICES ASSUME NEW s \in SUBSET S, Cardinality(s) <= n
                   PROVE  Cardinality(s) <= n + 1
        OBVIOUS
      <3>1. Cardinality(s) \in Nat
        BY FS_Subset, FS_CardinalityType
      <3> QED BY <3>1
    <2>5. \A s \in Small(n) : g[s] = h[s]
      BY <2>4, <1>1
    <2>6. ASSUME NEW s \in Small(n + 1)
          PROVE  g[s] = Value(g, s)
      <3>1. CASE s = {}
        BY <3>1
      <3>2. CASE s # {}
        <4>1. s \ {pick[s]} \in Small(n)
          BY <3>2, <2>1
        <4>2. g[s \ {pick[s]}] = h[s \ {pick[s]}]
          BY <4>1, <2>5
        <4>3. g[s] = Value(h, s)
          BY <2>6
        <4> HIDE DEF g, Small
        <4> QED BY <4>2, <4>3, <3>2
      <3> QED BY <3>1, <3>2
    <2>7. Solved(g, n + 1)
      BY <2>3, <2>6
    <2> QED BY <2>7
  <1>2. Bad = {}
    <2> SUFFICES ASSUME Bad # {} PROVE FALSE
      OBVIOUS
    <2> HIDE DEF Solved
    <2>1. PICK m \in Bad : \A k \in Bad : m <= k
      BY LeastNatural
    <2>2. m \in Nat /\ m # 0 /\ ~ \E h : Solved(h, m)
      BY <2>1, <1>0
    <2>3. m - 1 \in Nat /\ m - 1 \notin Bad
      <3>1. m - 1 \in Nat /\ ~(m <= m - 1)
        BY <2>2
      <3> QED BY <3>1, <2>1
    <2>4. \E h : Solved(h, m - 1)
      BY <2>3
    <2>5. (m - 1) + 1 = m
      BY <2>2
    <2> QED BY <2>2, <2>3, <2>4, <2>5, <1>1
  <1>3. Cardinality(S) \in Nat /\ Small(Cardinality(S)) = SUBSET S
    BY FS_CardinalityType, FS_Subset
  <1>4. PICK h : Solved(h, Cardinality(S))
    BY <1>2, <1>3
  <1>5. h \in [SUBSET S -> V] /\ \A s \in SUBSET S : h[s] = Value(h, s)
    BY <1>3, <1>4
  <1>6. FoldsTo(S, pick, base, step, h)
    BY <1>5 DEF FoldsTo
  <1> QED BY <1>5, <1>6

\* The function that FoldLeft evaluates over the positions 1..n.
LeftFold(n, base, step, h) ==
  h = [s \in SUBSET (1..n) |-> IF s = {} THEN base
                               ELSE step[Max(s)][h[s \ {Max(s)}]]]

LEMMA SomeLeftFold ==
  ASSUME NEW n \in Nat, NEW V, NEW base \in V, NEW step \in [1..n -> [V -> V]]
  PROVE  \E h \in [SUBSET (1..n) -> V] : LeftFold(n, base, step, h)
  <1> DEFINE S == 1..n
             pick == [s \in SUBSET S |-> Max(s)]
  <1>1. ASSUME NEW s \in SUBSET S, s # {} PROVE Max(s) \in s
    <2>1. \A x \in s : x \in Nat /\ x <= n
      OBVIOUS
    <2>2. s \in SUBSET Int /\ n \in Int
      BY <2>1
    <2> QED BY <1>1, <2>1, <2>2, MaxOfBounded
  <1>2. Picks(S, pick) /\ \A s \in SUBSET S : pick[s] = Max(s)
    BY <1>1 DEF Picks
  <1>3. IsFiniteSet(S)
    BY FS_Interval
  <1> HIDE DEF pick
  <1>4. PICK h \in [SUBSET S -> V] : FoldsTo(S, pick, base, step, h)
    BY <1>2, <1>3, SomeFold
  <1>5. [s \in SUBSET S |-> IF s = {} THEN base ELSE step[pick[s]][h[s \ {pick[s]}]]]
          = [s \in SUBSET S |-> IF s = {} THEN base ELSE step[Max(s)][h[s \ {Max(s)}]]]
    BY <1>2
  <1> QED BY <1>4, <1>5 DEF FoldsTo, LeftFold

\* The first k positions end with the k-th.
LEMMA PrefixEnd ==
  ASSUME NEW n \in Nat, NEW k \in 1..n
  PROVE  /\ 1..k \in SUBSET (1..n) /\ 1..k # {} /\ Max(1..k) = k
         /\ (1..k) \ {k} = 1..(k - 1)
  <1>1. \E x \in 1..k : \A y \in 1..k : x >= y
    <2>1. k \in 1..k /\ \A y \in 1..k : k >= y
      OBVIOUS
    <2> QED BY <2>1
  <1>2. Max(1..k) \in 1..k /\ Max(1..k) >= k
    BY <1>1 DEF Max
  <1> QED BY <1>2

LEMMA SomeAddsUp ==
  ASSUME NEW S, IsFiniteSet(S), NEW f \in [S -> Int]
  PROVE  \E h \in [SUBSET S -> Int] : AddsUp(f, h)
  <1> DEFINE step == [x \in S |-> [v \in Int |-> f[x] + v]]
  <1>1. step \in [S -> [Int -> Int]]
    OBVIOUS
  <1>2. \A x \in S, v \in Int : step[x][v] = f[x] + v
    OBVIOUS
  <1> HIDE DEF step
  <1> DEFINE pick == [s \in SUBSET S |-> Chosen(s)]
  <1>p. Picks(S, pick) /\ \A s \in SUBSET S : pick[s] = Chosen(s)
    BY DEF Picks, Chosen
  <1> HIDE DEF pick
  <1>3. PICK h \in [SUBSET S -> Int] : FoldsTo(S, pick, 0, step, h)
    <2>1. PICK V, base : V = Int /\ base = 0
      OBVIOUS
    <2>2. /\ IsFiniteSet(S) /\ Picks(S, pick)
          /\ base \in V /\ step \in [S -> [V -> V]]
      BY <1>1, <1>p, <2>1
    <2>3. \E h \in [SUBSET S -> V] : FoldsTo(S, pick, base, step, h)
      BY ONLY <2>2, SomeFold
    <2> QED BY <2>1, <2>3
  <1>4. ASSUME NEW s \in SUBSET S
        PROVE  h[s] = IF s = {} THEN 0 ELSE f[Chosen(s)] + h[s \ {Chosen(s)}]
    <2>1. h[s] = IF s = {} THEN 0 ELSE step[Chosen(s)][h[s \ {Chosen(s)}]]
      BY <1>3, <1>p DEF FoldsTo
    <2>2. s # {} => Chosen(s) \in S /\ h[s \ {Chosen(s)}] \in Int
      BY DEF Chosen
    <2> QED BY <1>2, <2>1, <2>2
  <1>5. AddsUp(f, h)
    BY <1>4 DEF AddsUp
  <1> QED BY <1>5

\* Whatever satisfies the recursion is that function.
LEMMA OneAddsUp ==
  ASSUME NEW S, IsFiniteSet(S), NEW f \in [S -> Int],
         NEW g, AddsUp(f, g), NEW h, AddsUp(f, h)
  PROVE  g = h
  <1>0. DOMAIN f = S
    OBVIOUS
  <1>1. \A s \in SUBSET S :
          /\ g[s] = IF s = {} THEN 0 ELSE f[Chosen(s)] + g[s \ {Chosen(s)}]
          /\ h[s] = IF s = {} THEN 0 ELSE f[Chosen(s)] + h[s \ {Chosen(s)}]
    BY <1>0 DEF AddsUp
  <1> DEFINE Bad == {n \in Nat : \E s \in SUBSET S : Cardinality(s) = n /\ g[s] # h[s]}
  <1>2. Bad = {}
    <2> SUFFICES ASSUME Bad # {} PROVE FALSE
      OBVIOUS
    <2>1. PICK m \in Bad : \A k \in Bad : m <= k
      BY LeastNatural
    <2>2. PICK s \in SUBSET S : Cardinality(s) = m /\ g[s] # h[s]
      BY <2>1
    <2>3. s # {}
      BY <2>2, <1>1
    <2>4. Chosen(s) \in s
      BY <2>3 DEF Chosen
    <2>5. /\ s \ {Chosen(s)} \in SUBSET S
          /\ Cardinality(s \ {Chosen(s)}) \in Nat
          /\ Cardinality(s \ {Chosen(s)}) = m - 1
      BY <2>2, <2>4, OneLess
    <2>6. g[s \ {Chosen(s)}] = h[s \ {Chosen(s)}]
      <3>1. Cardinality(s \ {Chosen(s)}) \notin Bad
        <4>1. m \in Nat /\ ~(m <= m - 1)
          BY <2>1
        <4> QED BY <4>1, <2>1, <2>5
      <3> QED BY <3>1, <2>5
    <2>7. /\ g[s] = f[Chosen(s)] + g[s \ {Chosen(s)}]
          /\ h[s] = f[Chosen(s)] + h[s \ {Chosen(s)}]
      BY <1>1, <2>3
    <2> QED BY <2>2, <2>6, <2>7
  <1>3. \A s \in SUBSET S : g[s] = h[s]
    <2> SUFFICES ASSUME NEW s \in SUBSET S, g[s] # h[s] PROVE FALSE
      OBVIOUS
    <2>1. Cardinality(s) \in Nat
      BY FS_Subset, FS_CardinalityType
    <2> QED BY <2>1, <1>2
  <1>4. /\ g = [s \in SUBSET S |-> g[s]]
        /\ h = [s \in SUBSET S |-> h[s]]
    BY <1>0 DEF AddsUp
  <1> QED BY <1>3, <1>4

\* The order in which elements are taken away does not matter.
LEMMA AnyFirst ==
  ASSUME NEW S, IsFiniteSet(S), NEW f \in [S -> Int],
         NEW h \in [SUBSET S -> Int], AddsUp(f, h)
  PROVE  InAnyOrder(f, h)
  <1>0. DOMAIN f = S
    OBVIOUS
  <1>1. \A s \in SUBSET S :
          h[s] = IF s = {} THEN 0 ELSE f[Chosen(s)] + h[s \ {Chosen(s)}]
    BY <1>0 DEF AddsUp
  <1> DEFINE Holds(s) == \A x \in s : h[s] = f[x] + h[s \ {x}]
             Bad == {n \in Nat : \E s \in SUBSET S : Cardinality(s) = n /\ ~Holds(s)}
  <1>2. Bad = {}
    <2> SUFFICES ASSUME Bad # {} PROVE FALSE
      OBVIOUS
    <2>1. PICK m \in Bad : \A k \in Bad : m <= k
      BY LeastNatural
    <2>2. PICK s \in SUBSET S : Cardinality(s) = m /\ ~Holds(s)
      BY <2>1
    <2>3. PICK x \in s : h[s] # f[x] + h[s \ {x}]
      BY <2>2
    <2> DEFINE y == Chosen(s)
    <2>4. y \in s /\ h[s] = f[y] + h[s \ {y}]
      BY <2>3, <1>1 DEF Chosen
    <2> HIDE DEF y
    <2>5. x # y
      BY <2>3, <2>4
    <2>6. \A z \in s : Holds(s \ {z}) /\ s \ {z} \in SUBSET S
      <3> SUFFICES ASSUME NEW z \in s PROVE Holds(s \ {z}) /\ s \ {z} \in SUBSET S
        OBVIOUS
      <3> HIDE DEF Holds
      <3>1. /\ s \ {z} \in SUBSET S /\ Cardinality(s \ {z}) \in Nat
            /\ Cardinality(s \ {z}) = m - 1
        BY <2>2, OneLess
      <3>2. m \in Nat /\ ~(m <= m - 1)
        BY <2>1
      <3> QED BY <3>1, <3>2, <2>1
    <2>7. /\ h[s \ {y}] = f[x] + h[(s \ {y}) \ {x}]
          /\ h[s \ {x}] = f[y] + h[(s \ {x}) \ {y}]
      BY <2>3, <2>4, <2>5, <2>6
    <2>8. h[(s \ {y}) \ {x}] = h[(s \ {x}) \ {y}]
      <3>1. (s \ {y}) \ {x} = (s \ {x}) \ {y}
        OBVIOUS
      <3> QED BY <3>1
    <2>9. /\ f[x] \in Int /\ f[y] \in Int
          /\ h[(s \ {x}) \ {y}] \in Int
      BY <2>4
    <2> QED BY <2>3, <2>4, <2>7, <2>8, <2>9
  <1>3. \A s \in SUBSET S : Cardinality(s) \in Nat
    BY FS_Subset, FS_CardinalityType
  <1> QED BY <1>0, <1>2, <1>3 DEF InAnyOrder

\* What SumFunction evaluates.
LEMMA SumIsRecursive ==
  ASSUME NEW f
  PROVE  SumFunction(f) = (CHOOSE h : AddsUp(f, h))[DOMAIN f]
  BY DEF SumFunction, SumFunctionOnSet, FoldFunctionOnSet, MapThenFoldSet, AddsUp, Chosen

\* The sum over a set is that recursive function at the whole set.
LEMMA SumIs ==
  ASSUME NEW S, IsFiniteSet(S), NEW f \in [S -> Int]
  PROVE  \E h : SumsOf(f, h)
  <1>1. PICK h \in [SUBSET S -> Int] : AddsUp(f, h)
    BY SomeAddsUp
  <1>2. AddsUp(f, CHOOSE g : AddsUp(f, g))
    BY <1>1
  <1>3. h = CHOOSE g : AddsUp(f, g)
    BY <1>1, <1>2, OneAddsUp
  <1>4. SumFunction(f) = h[S]
    BY <1>3, SumIsRecursive
  <1>5. h[{}] = 0
    BY <1>1 DEF AddsUp
  <1>6. InAnyOrder(f, h)
    BY <1>1, AnyFirst
  <1>7. SumsOf(f, h)
    BY <1>1, <1>4, <1>5, <1>6 DEF SumsOf
  <1> QED BY <1>7

\* A sum of integers is an integer, and nothing adds up to 0.
LEMMA SumType ==
  ASSUME NEW S, IsFiniteSet(S), NEW f \in [S -> Int]
  PROVE  SumFunction(f) \in Int /\ (S = {} => SumFunction(f) = 0)
  <1>1. PICK h : SumsOf(f, h)
    BY SumIs
  <1> QED BY <1>1 DEF SumsOf

\* One element more adds its value.
LEMMA SumAdds ==
  ASSUME NEW S, IsFiniteSet(S), NEW x \in S, NEW f \in [S -> Int]
  PROVE  SumFunction(f) = f[x] + SumFunction([i \in S \ {x} |-> f[i]])
  <1> DEFINE T == S \ {x}
             g == [i \in T |-> f[i]]
  <1>1. IsFiniteSet(T) /\ g \in [T -> Int] /\ DOMAIN g = T
    BY FS_RemoveElement
  <1>p. PICK h : SumsOf(f, h)
    BY SumIs
  <1>2. /\ h \in [SUBSET S -> Int] /\ SumFunction(f) = h[S] /\ h[{}] = 0
        /\ AddsUp(f, h) /\ DOMAIN f = S
        /\ \A s \in SUBSET S : \A y \in s : h[s] = f[y] + h[s \ {y}]
    BY <1>p DEF SumsOf, InAnyOrder
  <1> DEFINE k == [s \in SUBSET T |-> h[s]]
  <1>3. AddsUp(g, k)
    <2>1. ASSUME NEW s \in SUBSET T
          PROVE  k[s] = IF s = {} THEN 0 ELSE g[Chosen(s)] + k[s \ {Chosen(s)}]
      <3>1. CASE s = {}
        BY <3>1, <1>2
      <3>2. CASE s # {}
        <4>1. Chosen(s) \in s
          BY <3>2 DEF Chosen
        <4>2. h[s] = f[Chosen(s)] + h[s \ {Chosen(s)}]
          <5>1. s \in SUBSET S
            OBVIOUS
          <5> QED BY <5>1, <4>1, <1>2
        <4>3. k[s] = h[s] /\ k[s \ {Chosen(s)}] = h[s \ {Chosen(s)}]
                          /\ g[Chosen(s)] = f[Chosen(s)]
          BY <4>1
        <4> QED BY <3>2, <4>2, <4>3
      <3> QED BY <3>1, <3>2
    <2> QED BY <2>1, <1>1 DEF AddsUp
  <1>4. k[T] = SumFunction(g)
    <2>1. PICK j : SumsOf(g, j)
      <3> HIDE DEF g, T
      <3> QED BY <1>1, SumIs
    <2>3. AddsUp(g, j) /\ SumFunction(g) = j[T]
      BY <2>1, <1>1 DEF SumsOf
    <2> HIDE DEF g, k, T
    <2>2. j = k
      BY <2>3, <1>1, <1>3, OneAddsUp
    <2> QED BY <2>3, <2>2
  <1>5. h[S] = f[x] + h[T]
    BY <1>2
  <1> QED BY <1>2, <1>4, <1>5

LEMMA SumWithout ==
  ASSUME NEW S, IsFiniteSet(S), NEW x \in S, NEW f \in [S -> Int],
         NEW h, h = [i \in S \ {x} |-> f[i]]
  PROVE  SumFunction(f) = f[x] + SumFunction(h)
  <1>1. SumFunction(f) = f[x] + SumFunction([i \in S \ {x} |-> f[i]])
    BY ONLY IsFiniteSet(S), x \in S, f \in [S -> Int], SumAdds
  <1> QED BY <1>1

\* g has the values of f and one more at x, or those of f except at x.
Grows(f, g, x) ==
  \E S : /\ IsFiniteSet(S) /\ x \notin S
         /\ f \in [S -> Int] /\ g \in [S \cup {x} -> Int]
         /\ \A i \in S : g[i] = f[i]

ChangesAt(f, g, x) ==
  \E S : /\ IsFiniteSet(S) /\ x \in S
         /\ f \in [S -> Int] /\ g \in [S -> Int]
         /\ \A i \in S \ {x} : g[i] = f[i]

LEMMA SumGrows ==
  ASSUME NEW f, NEW g, NEW x, Grows(f, g, x)
  PROVE  /\ SumFunction(f) \in Int /\ g[x] \in Int
         /\ SumFunction(g) = SumFunction(f) + g[x]
  <1>0. PICK S : /\ IsFiniteSet(S) /\ x \notin S
                 /\ f \in [S -> Int] /\ g \in [S \cup {x} -> Int]
                 /\ \A i \in S : g[i] = f[i]
    BY DEF Grows
  <1> DEFINE h == [i \in (S \cup {x}) \ {x} |-> g[i]]
  <1>1. IsFiniteSet(S \cup {x}) /\ x \in S \cup {x}
    BY <1>0, FS_AddElement
  <1>2. h = f
    BY <1>0
  <1> HIDE DEF h
  <1>3. SumFunction(g) = g[x] + SumFunction(h)
    BY <1>0, <1>1, SumAdds DEF h
  <1>4. SumFunction(f) \in Int /\ g[x] \in Int
    BY <1>0, SumType
  <1> QED BY <1>2, <1>3, <1>4

LEMMA SumChanges ==
  ASSUME NEW f, NEW g, NEW x, ChangesAt(f, g, x)
  PROVE  /\ SumFunction(f) \in Int /\ f[x] \in Int /\ g[x] \in Int
         /\ SumFunction(g) = SumFunction(f) + (g[x] - f[x])
  <1>0. PICK S : /\ IsFiniteSet(S) /\ x \in S
                 /\ f \in [S -> Int] /\ g \in [S -> Int]
                 /\ \A i \in S \ {x} : g[i] = f[i]
    BY DEF ChangesAt
  <1> DEFINE h == [i \in S \ {x} |-> f[i]]
  <1>1. h \in [S \ {x} -> Int] /\ IsFiniteSet(S \ {x})
    BY <1>0, FS_RemoveElement
  <1>3. h = [i \in S \ {x} |-> f[i]] /\ h = [i \in S \ {x} |-> g[i]]
    BY <1>0
  <1> HIDE DEF h
  <1>2. SumFunction(f) = f[x] + SumFunction(h)
    BY <1>0, <1>3, SumWithout
  <1>4. SumFunction(g) = g[x] + SumFunction(h)
    BY <1>0, <1>3, SumWithout
  <1>5. SumFunction(h) \in Int /\ f[x] \in Int /\ g[x] \in Int
    BY <1>0, <1>1, SumType
  <1> QED BY <1>2, <1>4, <1>5

\* Zeros add up to zero.
LEMMA SumOfZeros ==
  ASSUME NEW S, IsFiniteSet(S), NEW f \in [S -> Int], \A x \in S : f[x] = 0
  PROVE  SumFunction(f) = 0
  <1>1. PICK h : SumsOf(f, h)
    BY SumIs
  <1>2. /\ h \in [SUBSET S -> Int] /\ SumFunction(f) = h[S] /\ h[{}] = 0
        /\ \A s \in SUBSET S : \A x \in s : h[s] = f[x] + h[s \ {x}]
    BY <1>1 DEF SumsOf, InAnyOrder
  <1> DEFINE Bad == {n \in Nat : \E s \in SUBSET S : Cardinality(s) = n /\ h[s] # 0}
  <1>3. Bad = {}
    <2> SUFFICES ASSUME Bad # {} PROVE FALSE
      OBVIOUS
    <2>1. PICK n \in Bad : \A k \in Bad : n <= k
      BY LeastNatural
    <2>2. PICK s \in SUBSET S : Cardinality(s) = n /\ h[s] # 0
      BY <2>1
    <2>3. PICK x : x \in s
      BY <2>2, <1>2
    <2>4. /\ s \ {x} \in SUBSET S /\ Cardinality(s \ {x}) \in Nat
          /\ Cardinality(s \ {x}) = n - 1 /\ n \in Nat
      BY <2>2, <2>3, OneLess
    <2>5. h[s \ {x}] = 0
      BY <2>1, <2>4
    <2>6. h[s] = f[x] + h[s \ {x}] /\ f[x] = 0
      BY <1>2, <2>2, <2>3
    <2> QED BY <2>2, <2>5, <2>6
  <1>4. Cardinality(S) \in Nat
    BY FS_CardinalityType
  <1>5. h[S] = 0
    BY <1>3, <1>4
  <1> QED BY <1>2, <1>5

\* The sums of one and of two values.
LEMMA SumOne ==
  ASSUME NEW x, NEW f \in [{x} -> Int]
  PROVE  SumFunction(f) = f[x]
  <1>1. IsFiniteSet({x}) /\ IsFiniteSet({})
    BY FS_Singleton, FS_EmptySet
  <1> DEFINE g == [i \in {x} \ {x} |-> f[i]]
  <1>2. SumFunction(f) = f[x] + SumFunction(g)
    BY <1>1, SumAdds
  <1>3. g \in [{} -> Int]
    OBVIOUS
  <1> HIDE DEF g
  <1>4. SumFunction(g) = 0
    BY <1>1, <1>3, SumType
  <1> QED BY <1>2, <1>4

LEMMA SumTwo ==
  ASSUME NEW x, NEW y, x # y, NEW f \in [{x, y} -> Int]
  PROVE  SumFunction(f) = f[x] + f[y]
  <1>1. IsFiniteSet({x, y})
    <2>1. IsFiniteSet({x} \cup {y})
      BY FS_Singleton, FS_Union
    <2>2. {x} \cup {y} = {x, y}
      OBVIOUS
    <2> QED BY <2>1, <2>2
  <1> DEFINE g == [i \in {x, y} \ {x} |-> f[i]]
  <1>2. SumFunction(f) = f[x] + SumFunction(g)
    <2>1. PICK S : S = {x, y}
      OBVIOUS
    <2>2. IsFiniteSet(S) /\ x \in S /\ f \in [S -> Int] /\ g = [i \in S \ {x} |-> f[i]]
      BY <1>1, <2>1
    <2> HIDE DEF g
    <2> QED BY <2>2, SumWithout
  <1>3. g \in [{y} -> Int] /\ g[y] = f[y]
    <2>1. {x, y} \ {x} = {y}
      OBVIOUS
    <2>2. f[y] \in Int
      OBVIOUS
    <2> QED BY <2>1, <2>2
  <1> HIDE DEF g
  <1>4. SumFunction(g) = f[y]
    BY <1>3, SumOne
  <1> QED BY <1>2, <1>4

\* h pairs the domains of f and g, and f has the values of g along h.
Pairs(S, T, f, g, h) ==
  /\ IsFiniteSet(S) /\ f \in [S -> Int] /\ g \in [T -> Int] /\ h \in [S -> T]
  /\ \A x, y \in S : h[x] = h[y] => x = y
  /\ \A t \in T : \E x \in S : h[x] = t
  /\ \A x \in S : f[x] = g[h[x]]

\* The sums without the pair of x.
WithoutPair(S, T, f, g, h, x) ==
  \E f1, g1, h1 : /\ Pairs(S \ {x}, T \ {h[x]}, f1, g1, h1)
                  /\ SumFunction(f) = f[x] + SumFunction(f1)
                  /\ SumFunction(g) = f[x] + SumFunction(g1)

LEMMA OnePairLess ==
  ASSUME NEW S, NEW T, NEW f, NEW g, NEW h, Pairs(S, T, f, g, h), NEW x, x \in S
  PROVE  WithoutPair(S, T, f, g, h, x)
  <1> DEFINE f1 == [i \in S \ {x} |-> f[i]]
             g1 == [i \in T \ {h[x]} |-> g[i]]
             h1 == [i \in S \ {x} |-> h[i]]
  <1>1. /\ IsFiniteSet(S) /\ f \in [S -> Int] /\ g \in [T -> Int] /\ h \in [S -> T]
        /\ \A y, z \in S : h[y] = h[z] => y = z
        /\ \A t \in T : \E y \in S : h[y] = t
        /\ \A y \in S : f[y] = g[h[y]]
    BY DEF Pairs
  <1>2. IsFiniteSet(S \ {x})
    BY <1>1, FS_RemoveElement
  <1>3. IsFiniteSet(T)
    <2>1. h \in Surjection(S, T)
      BY <1>1 DEF Surjection
    <2> QED BY <1>1, <2>1, FS_Surjection
  <1>4. h1 \in [S \ {x} -> T \ {h[x]}] /\ f1 \in [S \ {x} -> Int] /\ g1 \in [T \ {h[x]} -> Int]
    BY <1>1
  <1>5. \A t \in T \ {h[x]} : \E y \in S \ {x} : h1[y] = t
    BY <1>1
  <1>6. Pairs(S \ {x}, T \ {h[x]}, f1, g1, h1)
    BY <1>1, <1>2, <1>4, <1>5 DEF Pairs
  <1>7. h[x] \in T /\ g[h[x]] = f[x]
    BY <1>1
  <1>8. f1 = [i \in S \ {x} |-> f[i]] /\ g1 = [i \in T \ {h[x]} |-> g[i]]
    OBVIOUS
  <1> HIDE DEF f1, g1, h1
  <1>9. SumFunction(f) = f[x] + SumFunction(f1)
    <2>1. f1 = [i \in S \ {x} |-> f[i]] /\ IsFiniteSet(S) /\ f \in [S -> Int]
      BY <1>1, <1>8
    <2> QED BY ONLY <2>1, x \in S, SumWithout
  <1>10. SumFunction(g) = g[h[x]] + SumFunction(g1)
    <2>1. PICK t : t = h[x]
      OBVIOUS
    <2>2. /\ t \in T /\ g1 = [i \in T \ {t} |-> g[i]]
          /\ IsFiniteSet(T) /\ g \in [T -> Int]
      BY <1>1, <1>3, <1>7, <1>8, <2>1
    <2>3. SumFunction(g) = g[t] + SumFunction(g1)
      BY ONLY <2>2, SumWithout
    <2> QED BY <2>1, <2>3
  <1> QED BY <1>6, <1>7, <1>9, <1>10 DEF WithoutPair

\* A sum does not depend on what its terms are indexed by.
LEMMA SumPairs ==
  ASSUME NEW S, NEW T, NEW f, NEW g, NEW h, Pairs(S, T, f, g, h)
  PROVE  SumFunction(f) = SumFunction(g)
  <1> DEFINE Differs(n) == \E A, B, a, b, c : /\ Cardinality(A) = n /\ Pairs(A, B, a, b, c)
                                              /\ SumFunction(a) # SumFunction(b)
             Bad == {n \in Nat : Differs(n)}
  <1>1. SUFFICES ASSUME SumFunction(f) # SumFunction(g) PROVE FALSE
    OBVIOUS
  <1>2. Cardinality(S) \in Nat
    BY FS_CardinalityType DEF Pairs
  <1>3. Cardinality(S) \in Bad
    BY <1>1, <1>2
  <1>4. PICK n \in Bad : \A k \in Bad : n <= k
    <2>1. Bad \in SUBSET Nat /\ Bad # {}
      BY <1>3
    <2> HIDE DEF Bad
    <2> QED BY <2>1, LeastNatural
  <1>5. PICK A, B, a, b, c : /\ Cardinality(A) = n /\ Pairs(A, B, a, b, c)
                             /\ SumFunction(a) # SumFunction(b)
    BY <1>4
  <1>6. CASE A = {}
    <2>1. B = {} /\ a \in [A -> Int] /\ b \in [B -> Int] /\ IsFiniteSet(A)
      BY <1>5, <1>6 DEF Pairs
    <2>2. IsFiniteSet(B) /\ B = {}
      BY <2>1, FS_EmptySet
    <2>3. SumFunction(a) = 0
      BY <1>6, <2>1, SumType
    <2>4. SumFunction(b) = 0
      BY <2>1, <2>2, SumType
    <2> QED BY <1>5, <2>3, <2>4
  <1>7. CASE A # {}
    <2>1. PICK x \in A : TRUE
      BY <1>7
    <2>2. PICK a1, b1, c1 : /\ Pairs(A \ {x}, B \ {c[x]}, a1, b1, c1)
                            /\ SumFunction(a) = a[x] + SumFunction(a1)
                            /\ SumFunction(b) = a[x] + SumFunction(b1)
      <3>1. Pairs(A, B, a, b, c) /\ x \in A
        BY <1>5, <2>1
      <3>2. WithoutPair(A, B, a, b, c, x)
        BY ONLY <3>1, OnePairLess
      <3> QED BY <3>2 DEF WithoutPair
    <2>3. /\ IsFiniteSet(A) /\ n \in Nat
      BY <1>4, <1>5 DEF Pairs
    <2>4. Cardinality(A \ {x}) = n - 1 /\ Cardinality(A \ {x}) \in Nat
      <3>1. A \in SUBSET A
        OBVIOUS
      <3> QED BY <1>5, <2>1, <2>3, <3>1, OneLess
    <2>5. Cardinality(A \ {x}) \notin Bad
      BY <1>4, <2>3, <2>4
    <2>6. SumFunction(a1) = SumFunction(b1)
      BY <2>2, <2>4, <2>5
    <2> QED BY <1>5, <2>2, <2>6
  <1> QED BY <1>6, <1>7

\* g has d more than f at the k places from l on.
Raises(f, g, n, l, k, d) ==
  /\ n \in Nat /\ l \in Nat /\ k \in Nat /\ d \in Int /\ l + k <= n
  /\ f \in [0..(n - 1) -> Int] /\ g \in [0..(n - 1) -> Int]
  /\ \A i \in 0..(n - 1) : g[i] = IF l <= i /\ i < l + k THEN f[i] + d ELSE f[i]

\* The first of k + 1 places to be raised may be raised last.
LEMMA OneRaiseLess ==
  ASSUME NEW f, NEW g, NEW n, NEW l, NEW k, NEW d, Raises(f, g, n, l, k, d), k # 0
  PROVE  \E g1 : /\ Raises(f, g1, n, l, k - 1, d)
                 /\ SumFunction(g1) \in Int
                 /\ SumFunction(g) = SumFunction(g1) + d
  <1> DEFINE S == 0..(n - 1)
             x == l + k - 1
             g1 == [i \in S |-> IF i = x THEN f[i] ELSE g[i]]
  <1>1. /\ n \in Nat /\ l \in Nat /\ k \in Nat /\ d \in Int /\ l + k <= n
        /\ f \in [S -> Int] /\ g \in [S -> Int] /\ x \in S /\ k - 1 \in Nat
        /\ \A i \in S : g[i] = IF l <= i /\ i < l + k THEN f[i] + d ELSE f[i]
    BY DEF Raises
  <1>2. g1 \in [S -> Int]
    BY <1>1
  <1>3. \A i \in S : g1[i] = IF l <= i /\ i < l + (k - 1) THEN f[i] + d ELSE f[i]
    BY <1>1
  <1>4. Raises(f, g1, n, l, k - 1, d)
    BY <1>1, <1>2, <1>3 DEF Raises
  <1>5. g1[x] = f[x] /\ g[x] = f[x] + d /\ f[x] \in Int
    BY <1>1
  <1>6. ChangesAt(g1, g, x)
    <2>1. IsFiniteSet(S)
      BY <1>1, FS_Interval
    <2>2. \A i \in S \ {x} : g[i] = g1[i]
      OBVIOUS
    <2> HIDE DEF g1, S, x
    <2> QED BY <1>1, <1>2, <2>1, <2>2 DEF ChangesAt
  <1> HIDE DEF g1, S, x
  <1>7. SumFunction(g1) \in Int /\ SumFunction(g) = SumFunction(g1) + (g[x] - g1[x])
    BY <1>6, SumChanges
  <1> QED BY <1>1, <1>4, <1>5, <1>7

LEMMA SumRaises ==
  ASSUME NEW f, NEW g, NEW n, NEW l, NEW k, NEW d, Raises(f, g, n, l, k, d)
  PROVE  SumFunction(f) \in Int /\ SumFunction(g) = SumFunction(f) + k * d
  <1> DEFINE Sum(a) == SumFunction(a)
             Bad == {m \in Nat : \E b : Raises(f, b, n, l, m, d) /\ Sum(b) # Sum(f) + m * d}
  <1>0. Sum(f) \in Int /\ d \in Int /\ k \in Nat
    <2>1. IsFiniteSet(0..(n - 1)) /\ f \in [0..(n - 1) -> Int]
      BY FS_Interval DEF Raises
    <2>2. PICK S : S = 0..(n - 1)
      OBVIOUS
    <2>3. Sum(f) \in Int
      BY <2>1, <2>2, SumType
    <2> QED BY <2>3 DEF Raises
  <1>1. Bad = {}
    <2> SUFFICES ASSUME Bad # {} PROVE FALSE
      OBVIOUS
    <2>1. PICK m \in Bad : \A j \in Bad : m <= j
      <3>1. Bad \in SUBSET Nat
        OBVIOUS
      <3> HIDE DEF Bad
      <3> QED BY <3>1, LeastNatural
    <2>2. PICK b : Raises(f, b, n, l, m, d) /\ Sum(b) # Sum(f) + m * d
      BY <2>1
    <2>3. m \in Nat
      BY <2>1
    <2>4. CASE m = 0
      <3>1. /\ f \in [0..(n - 1) -> Int] /\ b \in [0..(n - 1) -> Int] /\ l \in Nat /\ n \in Nat
            /\ \A i \in 0..(n - 1) : b[i] = IF l <= i /\ i < l + 0 THEN f[i] + d ELSE f[i]
        BY <2>2, <2>4 DEF Raises
      <3>2. \A i \in 0..(n - 1) : b[i] = f[i]
        BY <3>1
      <3>3. b = f
        BY <3>1, <3>2
      <3> QED BY <1>0, <2>2, <2>4, <3>3
    <2>5. CASE m # 0
      <3>1. PICK c : Raises(f, c, n, l, m - 1, d) /\ Sum(c) \in Int /\ Sum(b) = Sum(c) + d
        BY <2>2, <2>5, OneRaiseLess
      <3>2. m - 1 \in Nat /\ ~(m <= m - 1)
        BY <2>3, <2>5
      <3>3. m - 1 \notin Bad
        BY <2>1, <3>2
      <3>4. Sum(c) = Sum(f) + (m - 1) * d
        BY <3>1, <3>2, <3>3
      <3> HIDE DEF Sum
      <3>5. (m - 1) * d + d = m * d /\ (m - 1) * d \in Int
        BY <1>0, <2>3
      <3> QED BY <1>0, <2>2, <3>1, <3>4, <3>5
    <2> QED BY <2>4, <2>5
  <1> QED BY <1>0, <1>1
\* The sums of the parts of a domain are the values of the recursive function.
LEMMA SumOfPart ==
  ASSUME NEW S, IsFiniteSet(S), NEW f \in [S -> Int], NEW h, SumsOf(f, h),
         NEW T \in SUBSET S
  PROVE  SumFunction([i \in T |-> f[i]]) = h[T]
  <1> DEFINE g == [i \in T |-> f[i]]
             k == [s \in SUBSET T |-> h[s]]
  <1>1. IsFiniteSet(T) /\ g \in [T -> Int] /\ DOMAIN g = T
    BY FS_Subset
  <1>2. /\ h \in [SUBSET S -> Int] /\ DOMAIN f = S
        /\ AddsUp(f, h)
    BY DEF SumsOf
  <1>3. AddsUp(g, k)
    <2>1. ASSUME NEW s \in SUBSET T
          PROVE  k[s] = IF s = {} THEN 0 ELSE g[Chosen(s)] + k[s \ {Chosen(s)}]
      <3>1. CASE s = {}
        BY <3>1, <1>2 DEF AddsUp
      <3>2. CASE s # {}
        <4>1. Chosen(s) \in s
          BY <3>2 DEF Chosen
        <4>2. h[s] = f[Chosen(s)] + h[s \ {Chosen(s)}]
          <5>1. s \in SUBSET S
            OBVIOUS
          <5> QED BY <5>1, <3>2, <1>2 DEF AddsUp
        <4>3. k[s] = h[s] /\ k[s \ {Chosen(s)}] = h[s \ {Chosen(s)}]
                          /\ g[Chosen(s)] = f[Chosen(s)]
          BY <4>1
        <4> QED BY <3>2, <4>2, <4>3
      <3> QED BY <3>1, <3>2
    <2> QED BY <2>1, <1>1 DEF AddsUp
  <1>4. PICK j : SumsOf(g, j)
    <2> HIDE DEF g
    <2> QED BY <1>1, SumIs
  <1>5. AddsUp(g, j) /\ SumFunction(g) = j[T] /\ k[T] = h[T]
    BY <1>1, <1>4 DEF SumsOf
  <1> HIDE DEF g, k
  <1>6. j = k
    BY <1>1, <1>3, <1>5, OneAddsUp
  <1>7. SumFunction(g) = h[T]
    BY <1>5, <1>6
  <1> QED BY <1>7 DEF g

\* The domain of f falls into A, where f is a, and B, where it is b.
Splits(f, a, b) ==
  \E A, B : /\ IsFiniteSet(A) /\ IsFiniteSet(B) /\ A \cap B = {}
            /\ a \in [A -> Int] /\ b \in [B -> Int] /\ f \in [A \cup B -> Int]
            /\ \A x \in A : f[x] = a[x]
            /\ \A x \in B : f[x] = b[x]

LEMMA SumSplits ==
  ASSUME NEW f, NEW a, NEW b, Splits(f, a, b)
  PROVE  /\ SumFunction(a) \in Int /\ SumFunction(b) \in Int
         /\ SumFunction(f) = SumFunction(a) + SumFunction(b)
  <1>0. PICK A, B : /\ IsFiniteSet(A) /\ IsFiniteSet(B) /\ A \cap B = {}
                    /\ a \in [A -> Int] /\ b \in [B -> Int] /\ f \in [A \cup B -> Int]
                    /\ \A x \in A : f[x] = a[x]
                    /\ \A x \in B : f[x] = b[x]
    BY DEF Splits
  <1>1. PICK S : S = A \cup B
    OBVIOUS
  <1>2. IsFiniteSet(S) /\ f \in [S -> Int] /\ A \in SUBSET S /\ B \in SUBSET S
    BY <1>0, <1>1, FS_Union
  <1>3. PICK h : SumsOf(f, h)
    BY <1>2, SumIs
  <1>4. /\ h \in [SUBSET S -> Int] /\ SumFunction(f) = h[S] /\ h[{}] = 0
        /\ \A s \in SUBSET S : \A x \in s : h[s] = f[x] + h[s \ {x}]
    BY <1>2, <1>3 DEF SumsOf, InAnyOrder
  <1>5. a = [i \in A |-> f[i]] /\ b = [i \in B |-> f[i]]
    BY <1>0
  <1>6. SumFunction(a) = h[A]
    <2>1. SumFunction([i \in A |-> f[i]]) = h[A]
      BY ONLY <1>2, <1>3, SumOfPart
    <2> QED BY <2>1, <1>5
  <1>7. SumFunction(b) = h[B]
    <2>1. SumFunction([i \in B |-> f[i]]) = h[B]
      BY ONLY <1>2, <1>3, SumOfPart
    <2> QED BY <2>1, <1>5
  <1> DEFINE Bad == {n \in Nat : \E s \in SUBSET B : /\ Cardinality(s) = n
                                                     /\ h[A \cup s] # h[A] + h[s]}
  <1>8. Bad = {}
    <2> SUFFICES ASSUME Bad # {} PROVE FALSE
      OBVIOUS
    <2>1. PICK n \in Bad : \A k \in Bad : n <= k
      BY LeastNatural
    <2>2. PICK s \in SUBSET B : Cardinality(s) = n /\ h[A \cup s] # h[A] + h[s]
      BY <2>1
    <2>3. s # {}
      <3> SUFFICES ASSUME s = {} PROVE FALSE
        OBVIOUS
      <3>1. A \cup s = A /\ h[s] = 0
        BY <1>4
      <3>2. h[A] \in Int /\ h[A \cup s] = h[A]
        BY <1>2, <1>4, <3>1
      <3> QED BY <2>2, <3>1, <3>2
    <2>4. PICK x : x \in s
      BY <2>3
    <2>5. /\ s \ {x} \in SUBSET B /\ Cardinality(s \ {x}) \in Nat
          /\ Cardinality(s \ {x}) = n - 1 /\ n \in Nat
      BY <1>0, <2>2, <2>4, OneLess
    <2>6. h[A \cup (s \ {x})] = h[A] + h[s \ {x}]
      <3>1. ~(n <= n - 1)
        BY <2>5
      <3>2. Cardinality(s \ {x}) \notin Bad
        BY <2>1, <2>5, <3>1
      <3> QED BY <2>5, <3>2
    <2>7. (A \cup s) \ {x} = A \cup (s \ {x})
      BY <1>0, <2>2, <2>4
    <2>8. A \cup s \in SUBSET S /\ x \in A \cup s /\ s \in SUBSET S /\ s \ {x} \in SUBSET S
      BY <1>1, <2>2, <2>4
    <2>9. h[A \cup s] = f[x] + h[A \cup (s \ {x})] /\ h[s] = f[x] + h[s \ {x}]
      BY <1>4, <2>4, <2>7, <2>8
    <2>10. f[x] \in Int /\ h[A] \in Int /\ h[s \ {x}] \in Int
      BY <1>2, <1>4, <2>4, <2>8
    <2> QED BY <2>2, <2>6, <2>9, <2>10
  <1>9. Cardinality(B) \in Nat
    BY <1>0, FS_CardinalityType
  <1>10. h[A \cup B] = h[A] + h[B]
    BY <1>8, <1>9
  <1> QED BY <1>1, <1>2, <1>4, <1>6, <1>7, <1>10

\* A sum of opposites is the opposite sum.
LEMMA SumOpposite ==
  ASSUME NEW S, IsFiniteSet(S), NEW f \in [S -> Int], NEW g \in [S -> Int],
         \A x \in S : g[x] = 0 - f[x]
  PROVE  SumFunction(f) \in Int /\ SumFunction(g) = 0 - SumFunction(f)
  <1>1. PICK h : SumsOf(f, h)
    BY SumIs
  <1>2. /\ h \in [SUBSET S -> Int] /\ SumFunction(f) = h[S] /\ DOMAIN f = S
        /\ AddsUp(f, h)
    BY <1>1 DEF SumsOf
  <1> DEFINE k == [s \in SUBSET S |-> 0 - h[s]]
  <1>3. AddsUp(g, k)
    <2>1. ASSUME NEW s \in SUBSET S
          PROVE  k[s] = IF s = {} THEN 0 ELSE g[Chosen(s)] + k[s \ {Chosen(s)}]
      <3>1. CASE s = {}
        BY <3>1, <1>2 DEF AddsUp
      <3>2. CASE s # {}
        <4>1. Chosen(s) \in s
          BY <3>2 DEF Chosen
        <4>2. h[s] = f[Chosen(s)] + h[s \ {Chosen(s)}]
          BY <3>2, <1>2 DEF AddsUp
        <4>3. /\ k[s] = 0 - h[s] /\ k[s \ {Chosen(s)}] = 0 - h[s \ {Chosen(s)}]
              /\ g[Chosen(s)] = 0 - f[Chosen(s)]
          BY <4>1
        <4>4. h[s] \in Int /\ h[s \ {Chosen(s)}] \in Int /\ f[Chosen(s)] \in Int
          BY <1>2, <4>1
        <4> QED BY <3>2, <4>2, <4>3, <4>4
      <3> QED BY <3>1, <3>2
    <2>2. DOMAIN g = S
      OBVIOUS
    <2> QED BY <2>1, <2>2 DEF AddsUp
  <1>4. PICK j : SumsOf(g, j)
    BY SumIs
  <1>5. AddsUp(g, j) /\ SumFunction(g) = j[S]
    BY <1>4 DEF SumsOf
  <1>6. k[S] = 0 - h[S] /\ h[S] \in Int
    BY <1>2
  <1> HIDE DEF k
  <1>7. j = k
    BY <1>3, <1>5, OneAddsUp
  <1> QED BY <1>2, <1>5, <1>6, <1>7
-----------------------------------------------------------------------------
(***************************************************************************)
(* Sequences that are filtered by the positions to keep.                   *)
(***************************************************************************)
\* f[n] is what is kept of the first n elements.
Filters(s, keep, f) ==
  f = [n \in 0..Len(s) |->
         IF n = 0 THEN <<>>
         ELSE IF n \in keep THEN Append(f[n - 1], s[n]) ELSE f[n - 1]]

\* g holds what is kept of every beginning of s up to m elements.
FiltersUpTo(s, keep, m, g) ==
  /\ g = [n \in 0..m |-> g[n]]
  /\ \A n \in 0..m : g[n] = IF n = 0 THEN <<>>
                            ELSE IF n \in keep THEN Append(g[n - 1], s[n])
                            ELSE g[n - 1]

\* The recursion defines a function.
LEMMA SomeFilter ==
  ASSUME NEW E, NEW s \in Seq(E), NEW keep
  PROVE  \E f : Filters(s, keep, f)
  <1>0. Len(s) \in Nat
    BY LenProperties
  <1> DEFINE Bad == {m \in 0..Len(s) : ~ \E g : FiltersUpTo(s, keep, m, g)}
  <1>1. \E g : FiltersUpTo(s, keep, 0, g)
    <2> DEFINE g == [n \in 0..0 |-> <<>>]
    <2>1. FiltersUpTo(s, keep, 0, g)
      BY DEF FiltersUpTo
    <2> QED BY <2>1
  <1>2. ASSUME NEW m \in Nat, NEW g, FiltersUpTo(s, keep, m, g)
        PROVE  \E h : FiltersUpTo(s, keep, m + 1, h)
    <2> DEFINE h == [n \in 0..(m + 1) |->
                       IF n <= m THEN g[n]
                       ELSE IF n \in keep THEN Append(g[n - 1], s[n])
                       ELSE g[n - 1]]
    <2>1. ASSUME NEW n \in 0..(m + 1)
          PROVE  h[n] = IF n = 0 THEN <<>>
                        ELSE IF n \in keep THEN Append(h[n - 1], s[n])
                        ELSE h[n - 1]
      <3>1. CASE n <= m
        <4>1. n \in 0..m /\ (n # 0 => n - 1 \in 0..m /\ n - 1 \in 0..(m + 1))
          BY <3>1
        <4>2. h[n] = g[n] /\ (n # 0 => h[n - 1] = g[n - 1])
          BY <3>1, <4>1
        <4> HIDE DEF h
        <4> QED BY <4>1, <4>2, <1>2 DEF FiltersUpTo
      <3>2. CASE n = m + 1
        <4>1. n # 0 /\ ~(n <= m) /\ n - 1 \in 0..(m + 1) /\ n - 1 <= m
          BY <3>2
        <4>2. /\ h[n - 1] = g[n - 1]
              /\ h[n] = IF n \in keep THEN Append(g[n - 1], s[n]) ELSE g[n - 1]
          BY <4>1
        <4> HIDE DEF h
        <4> QED BY <4>1, <4>2
      <3> QED BY <3>1, <3>2
    <2>2. h = [n \in 0..(m + 1) |-> h[n]]
      OBVIOUS
    <2> HIDE DEF h
    <2>3. FiltersUpTo(s, keep, m + 1, h)
      BY <2>1, <2>2 DEF FiltersUpTo
    <2> QED BY <2>3
  <1>3. Bad = {}
    <2> SUFFICES ASSUME Bad # {} PROVE FALSE
      OBVIOUS
    <2>0. Bad \in SUBSET Nat
      BY <1>0
    <2>1. PICK m \in Bad : \A k \in Bad : m <= k
      <3> HIDE DEF Bad
      <3> QED BY <2>0, LeastNatural
    <2>2. m \in 0..Len(s) /\ ~ \E g : FiltersUpTo(s, keep, m, g)
      BY <2>1
    <2>3. m # 0
      BY <2>2, <1>1
    <2>4. m - 1 \in 0..Len(s) /\ m - 1 \in Nat /\ ~(m <= m - 1) /\ (m - 1) + 1 = m
      BY <2>2, <2>3, <1>0
    <2>5. m - 1 \notin Bad
      BY <2>1, <2>4
    <2>6. PICK g : FiltersUpTo(s, keep, m - 1, g)
      BY <2>4, <2>5
    <2>7. \E h : FiltersUpTo(s, keep, (m - 1) + 1, h)
      BY <2>4, <2>6, <1>2
    <2> QED BY <2>2, <2>4, <2>7
  <1>4. Len(s) \in 0..Len(s)
    BY <1>0
  <1>5. PICK f : FiltersUpTo(s, keep, Len(s), f)
    BY <1>3, <1>4
  <1>6. f = [n \in 0..Len(s) |->
               IF n = 0 THEN <<>>
               ELSE IF n \in keep THEN Append(f[n - 1], s[n]) ELSE f[n - 1]]
    BY <1>5 DEF FiltersUpTo
  <1>7. Filters(s, keep, f)
    BY <1>6 DEF Filters
  <1> QED BY <1>7

\* t holds exactly the elements that s has at the places keep up to n, each from
\* a place of its own.
Kept(s, keep, n, t, from) ==
  /\ from \in [DOMAIN t -> (1..n) \cap keep]
  /\ \A i \in DOMAIN t : t[i] = s[from[i]]
  /\ \A i, j \in DOMAIN t : from[i] = from[j] => i = j
  /\ \A k \in (1..n) \cap keep : \E i \in DOMAIN t : from[i] = k

\* What the recursion computes.
LEMMA FilterKeeps ==
  ASSUME NEW E, NEW s \in Seq(E), NEW keep, NEW f, Filters(s, keep, f)
  PROVE  /\ f[Len(s)] \in Seq(E)
         /\ \E from : Kept(s, keep, Len(s), f[Len(s)], from)
  <1>0. Len(s) \in Nat /\ \A n \in 1..Len(s) : s[n] \in E
    BY LenProperties, ElementOfSeq
  <1> DEFINE Good(n) == f[n] \in Seq(E) /\ \E from : Kept(s, keep, n, f[n], from)
             Bad == {n \in 0..Len(s) : ~Good(n)}
  <1>1. \A n \in 0..Len(s) :
          f[n] = IF n = 0 THEN <<>>
                 ELSE IF n \in keep THEN Append(f[n - 1], s[n]) ELSE f[n - 1]
    BY DEF Filters
  <1>2. Good(0)
    <2>0. 0 \in 0..Len(s) /\ DOMAIN <<>> = {}
      BY <1>0
    <2>a. f[0] = IF 0 = 0 THEN <<>>
                 ELSE IF 0 \in keep THEN Append(f[0 - 1], s[0]) ELSE f[0 - 1]
      <3> HIDE DEF Good
      <3> QED BY <1>1, <2>0
    <2>1. f[0] = <<>> /\ f[0] \in Seq(E) /\ DOMAIN f[0] = {}
      <3>1. f[0] = <<>>
        BY ONLY <2>a
      <3>2. <<>> \in Seq(E)
        BY EmptySeq
      <3> QED BY <3>1, <3>2, <2>0
    <2> DEFINE from == [i \in {} |-> 0]
    <2>2. Kept(s, keep, 0, f[0], from)
      BY <2>1 DEF Kept
    <2> QED BY <2>1, <2>2
  <1>3. ASSUME NEW n \in Nat, n + 1 \in 0..Len(s), Good(n)
        PROVE  Good(n + 1)
    <2>1. PICK from : Kept(s, keep, n, f[n], from)
      BY <1>3
    <2>2. /\ n + 1 \in 1..Len(s) /\ (n + 1) - 1 = n /\ n + 1 # 0
          /\ s[n + 1] \in E /\ n + 1 \notin 1..n
          /\ 1..(n + 1) = (1..n) \cup {n + 1}
      BY <1>0, <1>3
    <2>3. CASE n + 1 \in keep
      <3>1. f[n + 1] = Append(f[n], s[n + 1])
        BY <1>1, <1>3, <2>2, <2>3
      <3> DEFINE t == f[n]
                 u == Append(t, s[n + 1])
      <3>2. /\ u \in Seq(E) /\ Len(t) \in Nat
            /\ DOMAIN t = 1..Len(t) /\ DOMAIN u = 1..(Len(t) + 1)
            /\ \A i \in 1..Len(t) : u[i] = t[i]
            /\ u[Len(t) + 1] = s[n + 1]
        BY <1>3, <2>2, AppendOne
      <3> DEFINE m == Len(t)
                 g == [i \in 1..(m + 1) |-> IF i = m + 1 THEN n + 1 ELSE from[i]]
      <3> HIDE DEF t, u, m
      <3>3. /\ from \in [1..m -> (1..n) \cap keep]
            /\ \A i \in 1..m : t[i] = s[from[i]]
            /\ \A i, j \in 1..m : from[i] = from[j] => i = j
            /\ \A k \in (1..n) \cap keep : \E i \in 1..m : from[i] = k
        BY <2>1, <3>2 DEF Kept, m, t
      <3>4. /\ m \in Nat /\ DOMAIN u = 1..(m + 1) /\ u[m + 1] = s[n + 1]
            /\ \A i \in 1..m : u[i] = t[i] /\ i \in 1..(m + 1) /\ i # m + 1
            /\ m + 1 \in 1..(m + 1)
            /\ \A i \in 1..(m + 1) : i = m + 1 \/ i \in 1..m
        BY <3>2 DEF m
      <3>5. g[m + 1] = n + 1 /\ \A i \in 1..m : g[i] = from[i]
        BY <3>4
      <3>6. g \in [1..(m + 1) -> (1..(n + 1)) \cap keep]
        BY <2>2, <2>3, <3>3, <3>4
      <3> HIDE DEF g
      <3>7. \A i \in 1..(m + 1) : u[i] = s[g[i]]
        BY <3>3, <3>4, <3>5
      <3>8. \A i, j \in 1..(m + 1) : g[i] = g[j] => i = j
        <4>1. \A i \in 1..m : g[i] \in 1..n /\ g[i] # g[m + 1]
          BY <2>2, <3>3, <3>5
        <4>2. \A i, j \in 1..m : g[i] = g[j] => i = j
          BY <3>3, <3>5
        <4> QED BY <4>1, <4>2, <3>4
      <3>9. \A k \in (1..(n + 1)) \cap keep : \E i \in 1..(m + 1) : g[i] = k
        <4>1. ASSUME NEW k \in (1..n) \cap keep
              PROVE  \E i \in 1..(m + 1) : g[i] = k
          <5>1. PICK i \in 1..m : from[i] = k
            BY <3>3
          <5> QED BY <5>1, <3>4, <3>5
        <4> QED BY <4>1, <2>2, <3>4, <3>5
      <3>10. Kept(s, keep, n + 1, u, g)
        BY <3>4, <3>6, <3>7, <3>8, <3>9 DEF Kept
      <3> QED BY <3>1, <3>2, <3>10 DEF u, t
    <2>4. CASE n + 1 \notin keep
      <3>1. f[n + 1] = f[n]
        BY <1>1, <1>3, <2>2, <2>4
      <3>2. (1..(n + 1)) \cap keep = (1..n) \cap keep
        BY <2>2, <2>4
      <3>3. Kept(s, keep, n + 1, f[n], from)
        BY <2>1, <3>2 DEF Kept
      <3> QED BY <3>1, <3>3, <1>3
    <2> QED BY <2>3, <2>4
  <1> HIDE DEF Good
  <1>4. Bad = {}
    <2> SUFFICES ASSUME Bad # {} PROVE FALSE
      OBVIOUS
    <2>0. Bad \in SUBSET Nat
      BY <1>0
    <2>1. PICK m \in Bad : \A k \in Bad : m <= k
      <3> HIDE DEF Bad
      <3> QED BY <2>0, LeastNatural
    <2>2. m \in 0..Len(s) /\ ~Good(m) /\ m # 0
      BY <2>1, <1>2
    <2>3. m - 1 \in 0..Len(s) /\ m - 1 \in Nat /\ ~(m <= m - 1) /\ (m - 1) + 1 = m
      BY <2>2, <1>0
    <2>4. Good(m - 1)
      BY <2>1, <2>3
    <2> QED BY <2>2, <2>3, <2>4, <1>3
  <1>5. Good(Len(s))
    BY <1>0, <1>4
  <1> QED BY <1>5 DEF Good
\* Zeros and ones add up to the number of ones.
LEMMA SumCounts ==
  ASSUME NEW S, IsFiniteSet(S), NEW f \in [S -> {0, 1}]
  PROVE  SumFunction(f) = Cardinality({x \in S : f[x] = 1})
  <1> DEFINE Ones(s) == {x \in s : f[x] = 1}
  <1>0. f \in [S -> Int]
    OBVIOUS
  <1>1. PICK h : SumsOf(f, h)
    BY <1>0, SumIs
  <1>2. /\ h \in [SUBSET S -> Int] /\ SumFunction(f) = h[S] /\ h[{}] = 0
        /\ \A s \in SUBSET S : \A x \in s : h[s] = f[x] + h[s \ {x}]
    BY <1>0, <1>1 DEF SumsOf, InAnyOrder
  <1> DEFINE Bad == {n \in Nat : \E s \in SUBSET S : /\ Cardinality(s) = n
                                                     /\ h[s] # Cardinality(Ones(s))}
  <1>3. Bad = {}
    <2> SUFFICES ASSUME Bad # {} PROVE FALSE
      OBVIOUS
    <2>1. PICK n \in Bad : \A k \in Bad : n <= k
      BY LeastNatural
    <2>2. PICK s \in SUBSET S : Cardinality(s) = n /\ h[s] # Cardinality(Ones(s))
      BY <2>1
    <2>3. PICK x : x \in s
      <3>1. CASE s = {}
        <4>1. Ones(s) = {}
          BY <3>1
        <4> QED BY <2>2, <3>1, <4>1, <1>2, FS_EmptySet
      <3> QED BY <3>1
    <2>4. /\ s \ {x} \in SUBSET S /\ Cardinality(s \ {x}) \in Nat
          /\ Cardinality(s \ {x}) = n - 1 /\ n \in Nat
      BY <2>2, <2>3, OneLess
    <2>5. h[s \ {x}] = Cardinality(Ones(s \ {x}))
      <3> SUFFICES ASSUME h[s \ {x}] # Cardinality(Ones(s \ {x})) PROVE FALSE
        OBVIOUS
      <3> HIDE DEF Ones
      <3>1. n - 1 \in Bad /\ ~(n <= n - 1)
        BY <2>4
      <3> QED BY <2>1, <3>1
    <2>6. h[s] = f[x] + h[s \ {x}] /\ f[x] \in {0, 1}
      BY <1>2, <2>2, <2>3
    <2>7. IsFiniteSet(Ones(s))
      <3>1. Ones(s) \in SUBSET S
        OBVIOUS
      <3> QED BY <3>1, FS_Subset
    <2>8. CASE f[x] = 0
      <3>1. Ones(s) = Ones(s \ {x})
        BY <2>8
      <3>2. h[s] = h[s \ {x}]
        BY <1>2, <2>4, <2>6, <2>8
      <3> QED BY <2>2, <2>5, <3>1, <3>2
    <2>9. CASE f[x] = 1
      <3>1. Ones(s) = Ones(s \ {x}) \cup {x} /\ x \notin Ones(s \ {x})
        BY <2>3, <2>9
      <3>2. IsFiniteSet(Ones(s \ {x}))
        <4>1. Ones(s \ {x}) \in SUBSET S
          OBVIOUS
        <4> QED BY <4>1, FS_Subset
      <3> HIDE DEF Ones
      <3>3. Cardinality(Ones(s)) = Cardinality(Ones(s \ {x})) + 1
        BY <3>1, <3>2, FS_AddElement
      <3>4. Cardinality(Ones(s \ {x})) \in Nat
        BY <3>2, FS_CardinalityType
      <3> QED BY <2>2, <2>5, <2>6, <2>9, <3>3, <3>4
    <2> QED BY <2>6, <2>8, <2>9
  <1>4. Cardinality(S) \in Nat
    BY FS_CardinalityType
  <1>5. h[S] = Cardinality(Ones(S))
    BY <1>3, <1>4
  <1> QED BY <1>2, <1>5

\* The size of a set without two elements.
LEMMA NoneOrOne ==
  ASSUME NEW S, \A x, y \in S : x = y
  PROVE  Cardinality(S) = IF S = {} THEN 0 ELSE 1
  <1>1. CASE S = {}
    BY <1>1, FS_EmptySet
  <1>2. CASE S # {}
    <2>1. PICK x \in S : TRUE
      BY <1>2
    <2>2. S = {x}
      BY <2>1
    <2> QED BY <1>2, <2>2, FS_Singleton
  <1> QED BY <1>1, <1>2
=============================================================================
