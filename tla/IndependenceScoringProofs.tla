---------------------- MODULE IndependenceScoringProofs ----------------------
(***************************************************************************)
(* What the coverage algorithm makes of every list of layers, whatever     *)
(* their number, their order and their values: who counts, who is named as *)
(* a duplicate, who is rejected, which paths are reported and what adding  *)
(* a layer does to the score.                                              *)
(***************************************************************************)
EXTENDS IndependenceScoring, OrderingProofs, SequenceTheorems, TLAPS

-----------------------------------------------------------------------------
(* Sorting layers *)

\* A layer whose fields have the types of their columns.
Plain == [id            : Nat,
          key           : Nat,
          effectiveness : 1 .. Full,
          interval      : {Interval},
          state         : {"active", "invalid"},
          verifiedAt    : Nat \cup {None}]

DistinctIds(list) == \A i, j \in DOMAIN list : list[i].id = list[j].id => i = j

\* The fields of a layer of a list.
LEMMA PlainFields ==
    ASSUME NEW list \in Seq(Plain), NEW i \in DOMAIN list
    PROVE  /\ list[i] \in Plain
           /\ list[i].id \in Nat /\ list[i].key \in Nat
           /\ list[i].effectiveness \in 1 .. Full
           /\ list[i].verifiedAt \in Nat \cup {None}
           /\ Len(list) \in Nat /\ DOMAIN list = 1 .. Len(list)
  <1>1. list[i] \in Plain
    BY ElementOfSeq, LenProperties
  <1> QED
    BY <1>1, LenProperties DEF Plain

\* The lemmas on the three orders of layers have one argument: the order, as a
\* set of pairs of indices, is strict, so a list in it exists and sorting
\* picks such a one.
LEMMA SortedByKey ==
    ASSUME NEW list \in Seq(Plain), NEW I \in SUBSET DOMAIN list, IsFiniteSet(I)
    PROVE  \E p : /\ Lists(p, I)
                  /\ Sorted(list, I, ByKey) = [n \in 1 .. Cardinality(I) |-> list[p[n]]]
                  /\ \A m, n \in 1 .. Cardinality(I) :
                        m < n => ~ByKey(list[p[n]], list[p[m]])
  <1> DEFINE p == InOrder(I, LAMBDA i, j : ByKey(list[i], list[j]))
             R == {q \in I \X I : ByKey(list[q[1]], list[q[2]])}
  <1>1. \A i \in I : list[i].key \in Nat /\ list[i].id \in Nat
    BY PlainFields
  <1>2. StrictOrderOn(R, I)
    BY <1>1 DEF StrictOrderOn, ByKey
  <1>3. PICK a \in Arrangements(I, R) : TRUE
    BY <1>2, ArrangementExists
  <1>4. /\ a \in [1 .. Cardinality(I) -> I]
        /\ \A m, n \in 1 .. Cardinality(I) :
              m < n => a[m] # a[n] /\ ~ByKey(list[a[n]], list[a[m]])
    BY <1>3 DEF Arrangements
  <1>5. /\ p \in [1 .. Cardinality(I) -> I]
        /\ \A m, n \in 1 .. Cardinality(I) :
              m < n => p[m] # p[n] /\ ~ByKey(list[p[n]], list[p[m]])
    BY <1>4 DEF InOrder
  <1>6. Sorted(list, I, ByKey) = [n \in 1 .. Cardinality(I) |-> list[p[n]]]
    BY DEF Sorted
  <1> HIDE DEF p
  <1>7. p \in Arrangements(I, R)
    BY <1>5 DEF Arrangements
  <1>8. Lists(p, I)
    BY <1>7, ArrangementListsAll
  <1> QED
    BY <1>5, <1>6, <1>8

\* The same for the order within a group.
LEMMA SortedByStrength ==
    ASSUME NEW list \in Seq(Plain), NEW I \in SUBSET DOMAIN list, IsFiniteSet(I)
    PROVE  \E p : /\ Lists(p, I)
                  /\ Sorted(list, I, Stronger) = [n \in 1 .. Cardinality(I) |-> list[p[n]]]
                  /\ \A m, n \in 1 .. Cardinality(I) :
                        m < n => ~Stronger(list[p[n]], list[p[m]])
  <1> DEFINE p == InOrder(I, LAMBDA i, j : Stronger(list[i], list[j]))
             R == {q \in I \X I : Stronger(list[q[1]], list[q[2]])}
  <1>1. \A i \in I : list[i].effectiveness \in 1 .. Full /\ list[i].id \in Nat
    BY PlainFields
  <1>2. StrictOrderOn(R, I)
    BY <1>1, ScoringAssumption DEF StrictOrderOn, Stronger
  <1>3. PICK a \in Arrangements(I, R) : TRUE
    BY <1>2, ArrangementExists
  <1>4. /\ a \in [1 .. Cardinality(I) -> I]
        /\ \A m, n \in 1 .. Cardinality(I) :
              m < n => a[m] # a[n] /\ ~Stronger(list[a[n]], list[a[m]])
    BY <1>3 DEF Arrangements
  <1>5. /\ p \in [1 .. Cardinality(I) -> I]
        /\ \A m, n \in 1 .. Cardinality(I) :
              m < n => p[m] # p[n] /\ ~Stronger(list[p[n]], list[p[m]])
    BY <1>4 DEF InOrder
  <1>6. Sorted(list, I, Stronger) = [n \in 1 .. Cardinality(I) |-> list[p[n]]]
    BY DEF Sorted
  <1> HIDE DEF p
  <1>7. p \in Arrangements(I, R)
    BY <1>5 DEF Arrangements
  <1>8. Lists(p, I)
    BY <1>7, ArrangementListsAll
  <1> QED
    BY <1>5, <1>6, <1>8

\* The same for the order of the rejected.
LEMMA SortedById ==
    ASSUME NEW list \in Seq(Plain), NEW I \in SUBSET DOMAIN list, IsFiniteSet(I)
    PROVE  \E p : /\ Lists(p, I)
                  /\ Sorted(list, I, ById) = [n \in 1 .. Cardinality(I) |-> list[p[n]]]
                  /\ \A m, n \in 1 .. Cardinality(I) :
                        m < n => ~ById(list[p[n]], list[p[m]])
  <1> DEFINE p == InOrder(I, LAMBDA i, j : ById(list[i], list[j]))
             R == {q \in I \X I : ById(list[q[1]], list[q[2]])}
  <1>1. \A i \in I : list[i].id \in Nat
    BY PlainFields
  <1>2. StrictOrderOn(R, I)
    BY <1>1 DEF StrictOrderOn, ById
  <1>3. PICK a \in Arrangements(I, R) : TRUE
    BY <1>2, ArrangementExists
  <1>4. /\ a \in [1 .. Cardinality(I) -> I]
        /\ \A m, n \in 1 .. Cardinality(I) :
              m < n => a[m] # a[n] /\ ~ById(list[a[n]], list[a[m]])
    BY <1>3 DEF Arrangements
  <1>5. /\ p \in [1 .. Cardinality(I) -> I]
        /\ \A m, n \in 1 .. Cardinality(I) :
              m < n => p[m] # p[n] /\ ~ById(list[p[n]], list[p[m]])
    BY <1>4 DEF InOrder
  <1>6. Sorted(list, I, ById) = [n \in 1 .. Cardinality(I) |-> list[p[n]]]
    BY DEF Sorted
  <1> HIDE DEF p
  <1>7. p \in Arrangements(I, R)
    BY <1>5 DEF Arrangements
  <1>8. Lists(p, I)
    BY <1>7, ArrangementListsAll
  <1> QED
    BY <1>5, <1>6, <1>8

-----------------------------------------------------------------------------
(* The snapshot *)

\* Quotient and remainder.
LEMMA Division ==
    ASSUME NEW a \in Nat, NEW b \in Nat \ {0}
    PROVE  /\ a \div b \in Nat /\ a % b \in 0 .. b - 1
           /\ a = (a \div b) * b + (a % b)
  OBVIOUS

\* Multiplying keeps the order.
LEMMA TimesMonotone ==
    ASSUME NEW x \in Nat, NEW y \in Nat, NEW k \in Nat, x <= y
    PROVE  x * k <= y * k
  OBVIOUS

\* Truncating takes off the fraction of a second.
LEMMA Truncated ==
    ASSUME NEW t \in Nat
    PROVE  /\ t \div TicksPerSecond \in Nat
           /\ Truncate(t) \in Nat
           /\ t % TicksPerSecond \in 0 .. TicksPerSecond - 1
           /\ t = Truncate(t) + (t % TicksPerSecond)
  BY ScoringAssumption, Division DEF Truncate

\* Truncated or not, a verification has lapsed at the same whole seconds.
LEMMA TruncatedLapse ==
    ASSUME NEW v \in Nat, NEW t \in Nat
    PROVE  Lapsed(Truncate(v), Interval, Truncate(t)) <=>
              Lapsed(v, Interval, t - (t % TicksPerSecond))
  <1> DEFINE k == TicksPerSecond
             a == t \div k
             b == v \div k
             c == Interval \div k
             u == t % k
             w == v % k
  <1>1. k \in Nat \ {0} /\ Interval \in Nat /\ c \in Nat
    BY ScoringAssumption
  <1>2. Interval = c * k
    BY ScoringAssumption
  <1>3. /\ a \in Nat /\ Truncate(t) = a * k /\ a * k \in Nat
        /\ u \in Nat /\ t = a * k + u
    BY <1>1, Truncated DEF Truncate
  <1>4. /\ b \in Nat /\ Truncate(v) = b * k /\ b * k \in Nat
        /\ w \in 0 .. k - 1 /\ v = b * k + w
    BY <1>1, Truncated DEF Truncate
  <1>5. Lapsed(Truncate(v), Interval, Truncate(t)) <=> a * k > b * k + c * k
    BY <1>2, <1>3, <1>4 DEF Lapsed
  <1>6. Lapsed(v, Interval, t - u) <=> a * k > b * k + w + c * k
    <2>1. t - u = a * k
      <3> HIDE DEF a, k, u
      <3> QED
        BY <1>1, <1>3
    <2> QED
      BY <2>1, <1>2, <1>4 DEF Lapsed
  <1> HIDE DEF a, b, c, k, u, w
  <1>7. b * k + c * k = (b + c) * k /\ (b + c) * k \in Nat
    BY <1>1, <1>3, <1>4
  <1>8. ASSUME a * k > b * k + c * k
        PROVE  a * k > b * k + w + c * k
    <2>1. ~(a <= b + c)
      BY <1>1, <1>3, <1>4, <1>7, <1>8, TimesMonotone
    <2>2. b + c + 1 <= a
      BY <2>1, <1>1, <1>3, <1>4
    <2>3. (b + c + 1) * k <= a * k
      BY <2>2, <1>1, <1>3, <1>4, TimesMonotone
    <2>4. (b + c + 1) * k = (b + c) * k + k
      BY <1>1, <1>4
    <2> QED
      BY <2>3, <2>4, <1>1, <1>3, <1>4, <1>7
  <1>9. ASSUME a * k > b * k + w + c * k
        PROVE  a * k > b * k + c * k
    BY <1>1, <1>2, <1>3, <1>4, <1>9
  <1> QED
    BY <1>5, <1>6, <1>8, <1>9 DEF k, u

\* Freezing keeps everything but the fraction of the verification's second.
LEMMA FrozenFields ==
    ASSUME NEW g \in Plain
    PROVE  LET f == Frozen(g) IN
           /\ f \in Plain
           /\ f.id = g.id /\ f.key = g.key /\ f.effectiveness = g.effectiveness
           /\ f.interval = g.interval /\ f.state = g.state
           /\ f.verifiedAt = IF g.verifiedAt = None THEN None ELSE Truncate(g.verifiedAt)
  BY Truncated DEF Frozen, Plain

\* What is eligible in the snapshot is what is effective at its second and has
\* a key.
LEMMA EligibleFrozen ==
    ASSUME NEW g \in Plain, NEW t \in Nat
    PROVE  Eligible(Frozen(g), Truncate(t)) <=>
              g.key # Blank /\ IsEffectiveAt(g, t - (t % TicksPerSecond))
  <1>1. /\ g.effectiveness \in 1 .. Full /\ g.interval = Interval
        /\ g.verifiedAt \in Nat \cup {None}
    BY DEF Plain
  <1>2. CASE g.verifiedAt = None
    BY <1>2, FrozenFields DEF Eligible, IsEffectiveAt
  <1>3. CASE g.verifiedAt \in Nat
    <2>1. g.verifiedAt # None /\ Truncate(g.verifiedAt) # None
      BY <1>3, Truncated, ScoringAssumption
    <2>2. Interval > 0
      BY ScoringAssumption
    <2>3. Lapsed(Truncate(g.verifiedAt), Interval, Truncate(t)) <=>
             Lapsed(g.verifiedAt, Interval, t - (t % TicksPerSecond))
      BY <1>3, TruncatedLapse
    <2> QED
      BY <1>1, <2>1, <2>2, <2>3, FrozenFields DEF Eligible, IsEffectiveAt
  <1> QED
    BY <1>1, <1>2, <1>3

\* The snapshot has every layer once, frozen.
LEMMA SnapshotLists ==
    ASSUME NEW list \in Seq(Plain), DistinctIds(list), NEW t \in Nat
    PROVE  LET s == NewSnapshot(list, t).safeguards IN
           /\ s \in Seq(Plain) /\ DistinctIds(s)
           /\ Range(s) = {Frozen(g) : g \in Range(list)}
           /\ \A m, n \in DOMAIN s : m < n => ~ByKey(s[n], s[m])
  <1> DEFINE N == Len(list)
             frozen == [i \in DOMAIN list |-> Frozen(list[i])]
             s == NewSnapshot(list, t).safeguards
  <1>1. N \in Nat /\ DOMAIN list = 1 .. N
    BY LenProperties
  <1>2. \A i \in 1 .. N : list[i] \in Plain /\ Frozen(list[i]) \in Plain
    BY <1>1, PlainFields, FrozenFields
  <1>3. frozen \in Seq(Plain) /\ DOMAIN frozen = 1 .. N
    BY <1>1, <1>2, IsASeq
  <1>4. IsFiniteSet(1 .. N) /\ Cardinality(1 .. N) = N
    BY <1>1, CountUpTo
  <1>5. s = Sorted(frozen, DOMAIN frozen, ByKey)
    BY DEF NewSnapshot
  <1>6. PICK p : /\ Lists(p, 1 .. N)
                 /\ s = [n \in 1 .. N |-> frozen[p[n]]]
                 /\ \A m, n \in 1 .. N : m < n => ~ByKey(frozen[p[n]], frozen[p[m]])
    <2> HIDE DEF frozen, s, N
    <2>1. DOMAIN frozen \in SUBSET DOMAIN frozen /\ IsFiniteSet(DOMAIN frozen) /\ Cardinality(DOMAIN frozen) = N
      BY <1>3, <1>4
    <2>2. PICK p : /\ Lists(p, DOMAIN frozen)
                   /\ s = [n \in 1 .. Cardinality(DOMAIN frozen) |-> frozen[p[n]]]
                   /\ \A m, n \in 1 .. Cardinality(DOMAIN frozen) :
                         m < n => ~ByKey(frozen[p[n]], frozen[p[m]])
      BY <1>3, <1>5, <2>1, SortedByKey
    <2> QED
      BY <1>3, <2>1, <2>2
  <1> HIDE DEF s
  <1>7. /\ p \in [1 .. N -> 1 .. N]
        /\ \A i, j \in 1 .. N : p[i] = p[j] => i = j
        /\ \A x \in 1 .. N : \E i \in 1 .. N : p[i] = x
    BY <1>4, <1>6 DEF Lists
  <1>8. \A n \in 1 .. N : s[n] = Frozen(list[p[n]]) /\ s[n] \in Plain
    BY <1>1, <1>2, <1>6, <1>7
  <1>9. s \in Seq(Plain) /\ DOMAIN s = 1 .. N
    BY <1>1, <1>6, <1>8, IsASeq
  <1>10. DistinctIds(s)
    <2> SUFFICES ASSUME NEW i \in 1 .. N, NEW j \in 1 .. N, s[i].id = s[j].id
                 PROVE  i = j
      BY <1>9 DEF DistinctIds
    <2> HIDE DEF N
    <2>1. p[i] \in 1 .. N /\ p[j] \in 1 .. N
      BY <1>7
    <2>2. list[p[i]].id = list[p[j]].id
      BY <1>2, <1>8, <2>1, FrozenFields
    <2>3. p[i] = p[j]
      BY <1>1, <2>1, <2>2 DEF DistinctIds
    <2> QED
      BY <1>7, <2>3
  <1>11. Range(s) = {Frozen(g) : g \in Range(list)}
    <2> HIDE DEF N
    <2>1. ASSUME NEW n \in 1 .. N PROVE s[n] \in {Frozen(g) : g \in Range(list)}
      BY <1>1, <1>7, <1>8 DEF Range
    <2>2. ASSUME NEW i \in 1 .. N PROVE Frozen(list[i]) \in Range(s)
      BY <1>7, <1>8, <1>9 DEF Range
    <2> QED
      BY <1>1, <1>9, <2>1, <2>2 DEF Range
  <1>12. \A m, n \in DOMAIN s : m < n => ~ByKey(s[n], s[m])
    <2> HIDE DEF N, frozen
    <2>1. \A n \in 1 .. N : s[n] = frozen[p[n]]
      BY <1>6
    <2> QED
      BY <1>6, <1>9, <2>1
  <1> QED
    BY <1>9, <1>10, <1>11, <1>12 DEF s

\* Two strictly ascending lists of the same layers are the same list.
LEMMA AscendingUnique ==
    ASSUME NEW s \in Seq(Plain), DistinctIds(s), NEW u \in Seq(Plain), DistinctIds(u),
           Range(s) = Range(u),
           \A m, n \in DOMAIN s : m < n => ~ByKey(s[n], s[m]),
           \A m, n \in DOMAIN u : m < n => ~ByKey(u[n], u[m])
    PROVE  s = u
  <1>1. /\ Len(s) \in Nat /\ DOMAIN s = 1 .. Len(s)
        /\ Len(u) \in Nat /\ DOMAIN u = 1 .. Len(u)
    BY LenProperties
  <1>2. /\ \A i \in 1 .. Len(s) : s[i].key \in Nat /\ s[i].id \in Nat
        /\ \A i \in 1 .. Len(u) : u[i].key \in Nat /\ u[i].id \in Nat
    BY <1>1, PlainFields
  <1>3. /\ \A i \in 1 .. Len(s) : \E j \in 1 .. Len(u) : u[j] = s[i]
        /\ \A j \in 1 .. Len(u) : \E i \in 1 .. Len(s) : s[i] = u[j]
    BY <1>1 DEF Range
  <1>4. /\ \A i, j \in 1 .. Len(s) : s[i].id = s[j].id => i = j
        /\ \A i, j \in 1 .. Len(u) : u[i].id = u[j].id => i = j
    BY <1>1 DEF DistinctIds
  <1>5. /\ \A m, n \in 1 .. Len(s) : m < n => ByKey(s[m], s[n])
        /\ \A m, n \in 1 .. Len(u) : m < n => ByKey(u[m], u[n])
    <2>1. ASSUME NEW m \in 1 .. Len(s), NEW n \in 1 .. Len(s), m < n
          PROVE  ByKey(s[m], s[n])
      <3>1. s[m].id # s[n].id
        BY <1>1, <1>4, <2>1
      <3>2. ~ByKey(s[n], s[m])
        BY <1>1, <2>1
      <3> QED
        BY <1>2, <3>1, <3>2 DEF ByKey
    <2>2. ASSUME NEW m \in 1 .. Len(u), NEW n \in 1 .. Len(u), m < n
          PROVE  ByKey(u[m], u[n])
      <3>1. u[m].id # u[n].id
        BY <1>1, <1>4, <2>2
      <3>2. ~ByKey(u[n], u[m])
        BY <1>1, <2>2
      <3> QED
        BY <1>2, <3>1, <3>2 DEF ByKey
    <2> QED
      BY <2>1, <2>2
  <1>6. \A n \in (1 .. Len(s)) \cap (1 .. Len(u)) : s[n] = u[n]
    <2> DEFINE Differ == {n \in (1 .. Len(s)) \cap (1 .. Len(u)) : s[n] # u[n]}
    <2> SUFFICES ASSUME Differ # {} PROVE FALSE
      OBVIOUS
    <2>1. PICK n \in Differ : \A k \in Differ : n <= k
      <3>1. Differ \in SUBSET Nat
        BY <1>1
      <3> HIDE DEF Differ
      <3> QED
        BY <3>1, SmallestExists
    <2>2. n \in 1 .. Len(s) /\ n \in 1 .. Len(u) /\ s[n] # u[n]
      OBVIOUS
    <2>3. \A k \in 1 .. n - 1 : s[k] = u[k]
      BY <1>1, <2>1, <2>2
    <2>4. PICK m \in 1 .. Len(u) : u[m] = s[n]
      BY <1>3, <2>2
    <2>5. PICK k \in 1 .. Len(s) : s[k] = u[n]
      BY <1>3, <2>2
    <2>6. n < m
      <3>1. m # n
        BY <2>2, <2>4
      <3>2. ~(m < n)
        <4> SUFFICES ASSUME m < n PROVE FALSE
          OBVIOUS
        <4>1. m \in 1 .. n - 1 /\ m \in 1 .. Len(s)
          BY <1>1, <2>2
        <4>2. s[m] = s[n]
          BY <2>3, <2>4, <4>1
        <4> QED
          BY <1>4, <2>2, <3>1, <4>1, <4>2
      <3> QED
        BY <1>1, <2>2, <3>1, <3>2
    <2>7. n < k
      <3>1. k # n
        BY <2>2, <2>5
      <3>2. ~(k < n)
        <4> SUFFICES ASSUME k < n PROVE FALSE
          OBVIOUS
        <4>1. k \in 1 .. n - 1 /\ k \in 1 .. Len(u)
          BY <1>1, <2>2
        <4>2. u[k] = u[n]
          BY <2>3, <2>5, <4>1
        <4> QED
          BY <1>4, <2>2, <3>1, <4>1, <4>2
      <3> QED
        BY <1>1, <2>2, <3>1, <3>2
    <2>8. ByKey(u[n], s[n]) /\ ByKey(s[n], u[n])
      BY <1>5, <2>2, <2>4, <2>5, <2>6, <2>7
    <2> QED
      BY <1>2, <2>2, <2>8 DEF ByKey
  <1>7. Len(s) = Len(u)
    <2> DEFINE a == Len(s)
               b == Len(u)
    <2>1. ~(a < b)
      <3> SUFFICES ASSUME a < b PROVE FALSE
        OBVIOUS
      <3> DEFINE n == Len(s) + 1
      <3>1. n \in 1 .. Len(u)
        BY <1>1
      <3>2. PICK i \in 1 .. Len(s) : s[i] = u[n]
        BY <1>3, <3>1
      <3>3. i \in 1 .. Len(u) /\ s[i] = u[i] /\ i # n
        BY <1>1, <1>6, <3>2
      <3> HIDE DEF n
      <3> QED
        BY <1>4, <3>1, <3>2, <3>3
    <2>2. ~(b < a)
      <3> SUFFICES ASSUME b < a PROVE FALSE
        OBVIOUS
      <3> DEFINE n == Len(u) + 1
      <3>1. n \in 1 .. Len(s)
        BY <1>1
      <3>2. PICK i \in 1 .. Len(u) : u[i] = s[n]
        BY <1>3, <3>1
      <3>3. i \in 1 .. Len(s) /\ s[i] = u[i] /\ i # n
        BY <1>1, <1>6, <3>2
      <3> HIDE DEF n
      <3> QED
        BY <1>4, <3>1, <3>2, <3>3
    <2>3. a \in Nat /\ b \in Nat
      BY <1>1
    <2> HIDE DEF a, b
    <2>4. a = b
      BY <2>1, <2>2, <2>3
    <2> QED
      BY <2>4 DEF a, b
  <1>8. \A n \in 1 .. Len(s) : s[n] = u[n]
    BY <1>6, <1>7
  <1> QED
    BY <1>1, <1>7, <1>8, SeqEqual

\* The order in which the database lists the layers decides nothing: the
\* snapshot is the same, and with it all that is evaluated from it.
THEOREM OrderDecidesNothing ==
    ASSUME NEW list \in Seq(Plain), NEW other \in Seq(Plain),
           DistinctIds(list), DistinctIds(other), Range(list) = Range(other),
           NEW t \in Nat
    PROVE  NewSnapshot(list, t) = NewSnapshot(other, t)
  <1>1. NewSnapshot(list, t).safeguards = NewSnapshot(other, t).safeguards
    <2> DEFINE s == NewSnapshot(list, t).safeguards
               u == NewSnapshot(other, t).safeguards
    <2>1. /\ s \in Seq(Plain) /\ DistinctIds(s)
          /\ Range(s) = {Frozen(g) : g \in Range(list)}
          /\ \A m, n \in DOMAIN s : m < n => ~ByKey(s[n], s[m])
      BY SnapshotLists
    <2>2. /\ u \in Seq(Plain) /\ DistinctIds(u)
          /\ Range(u) = {Frozen(g) : g \in Range(other)}
          /\ \A m, n \in DOMAIN u : m < n => ~ByKey(u[n], u[m])
      BY SnapshotLists
    <2> HIDE DEF s, u
    <2>3. Range(s) = Range(u)
      BY <2>1, <2>2
    <2>4. s = u
      BY <2>1, <2>2, <2>3, AscendingUnique
    <2> QED
      BY <2>4 DEF s, u
  <1> QED
    BY <1>1 DEF NewSnapshot

-----------------------------------------------------------------------------
(* Deduplication *)

\* h loses to g: it is less effective, or as effective with a higher id.
Weaker(h, g) ==
    \/ h.effectiveness < g.effectiveness
    \/ h.effectiveness = g.effectiveness /\ h.id > g.id

\* Of layers with different ids, the one that is not stronger is weaker.
LEMMA NotStronger ==
    ASSUME NEW g \in Plain, NEW h \in Plain, g.id # h.id, ~Stronger(h, g)
    PROVE  Weaker(h, g)
  <1>1. /\ g.id \in Nat /\ h.id \in Nat
        /\ g.effectiveness \in 1 .. Full /\ h.effectiveness \in 1 .. Full
    BY DEF Plain
  <1>2. Full \in Nat
    BY ScoringAssumption
  <1> QED
    BY <1>1, <1>2 DEF Stronger, Weaker

\* A ranked group has its strongest layer first, and the explanation names
\* all the others.
LEMMA RankedGroup ==
    ASSUME NEW list \in Seq(Plain), DistinctIds(list),
           NEW I \in SUBSET DOMAIN list, IsFiniteSet(I), I # {}
    PROVE  LET r == Sorted(list, I, Stronger) IN
           \E b \in I :
              /\ Head(r) = list[b]
              /\ \A j \in I \ {b} : Weaker(list[j], list[b])
              /\ Explained(r).kept = list[b].id
              /\ Range(Explained(r).ignored) = {list[j].id : j \in I \ {b}}
              /\ Len(r) > 1 <=> I \ {b} # {}
  <1> DEFINE r == Sorted(list, I, Stronger)
             n == Cardinality(I)
  <1>1. PICK p : /\ Lists(p, I)
                 /\ r = [m \in 1 .. n |-> list[p[m]]]
                 /\ \A l, m \in 1 .. n : l < m => ~Stronger(list[p[m]], list[p[l]])
    BY SortedByStrength
  <1> HIDE DEF r
  <1>2. /\ n \in Nat /\ p \in [1 .. n -> I]
        /\ \A i, j \in 1 .. n : p[i] = p[j] => i = j
        /\ \A x \in I : \E i \in 1 .. n : p[i] = x
    BY <1>1 DEF Lists
  <1>3. n >= 1
    <2>1. PICK x \in I : TRUE
      OBVIOUS
    <2> QED
      BY <1>2, <2>1
  <1>4. /\ r \in Seq(Plain) /\ Len(r) = n
        /\ \A m \in 1 .. n : r[m] = list[p[m]] /\ r[m] \in Plain
    <2>1. \A m \in 1 .. n : r[m] = list[p[m]] /\ r[m] \in Plain
      BY <1>1, <1>2, PlainFields
    <2>2. r \in [1 .. n -> Plain]
      BY <1>1, <2>1
    <2> QED
      BY <1>2, <2>1, <2>2
  <1> DEFINE b == p[1]
  <1>5. b \in I /\ 1 \in 1 .. n
    BY <1>2, <1>3
  <1>6. r # <<>>
    BY <1>3, <1>4
  <1>7. Head(r) = list[b]
    BY <1>4, <1>5
  <1>8. ASSUME NEW j \in I \ {b} PROVE \E m \in 2 .. n : p[m] = j
    <2>1. PICK m \in 1 .. n : p[m] = j
      BY <1>2
    <2>2. m # 1
      BY <1>8, <2>1
    <2> QED
      BY <2>1, <2>2
  <1>9. ASSUME NEW m \in 2 .. n PROVE m \in 1 .. n /\ p[m] \in I \ {b}
    BY <1>2, <1>5, <1>9
  <1>10. ASSUME NEW j \in I \ {b} PROVE Weaker(list[j], list[b])
    <2>1. PICK m \in 2 .. n : p[m] = j
      BY <1>8
    <2>2. ~Stronger(list[j], list[b])
      BY <1>1, <1>2, <1>5, <2>1
    <2>3. list[j].id # list[b].id
      BY <1>5, <1>10 DEF DistinctIds
    <2> QED
      BY <1>5, <2>2, <2>3, PlainFields, NotStronger
  <1>11. Explained(r).kept = list[b].id
    BY <1>7 DEF Explained
  <1>12. Range(Explained(r).ignored) = {list[j].id : j \in I \ {b}}
    <2>1. /\ Tail(r) \in Seq(Plain) /\ Len(Tail(r)) = n - 1
          /\ \A i \in 1 .. n - 1 : Tail(r)[i] = r[i + 1]
      BY <1>4, <1>6, HeadTailProperties
    <2>2. DOMAIN Tail(r) = 1 .. n - 1
      BY <2>1, LenProperties
    <2>3. Explained(r).ignored = [i \in 1 .. n - 1 |-> r[i + 1].id]
      BY <2>1, <2>2 DEF Explained, IdsOf
    <2>4. ASSUME NEW i \in 1 .. n - 1
          PROVE  r[i + 1].id \in {list[j].id : j \in I \ {b}}
      <3>1. i + 1 \in 2 .. n
        BY <1>2
      <3> QED
        BY <1>4, <1>9, <3>1
    <2>5. ASSUME NEW j \in I \ {b}
          PROVE  \E i \in 1 .. n - 1 : list[j].id = r[i + 1].id
      <3>1. PICK m \in 2 .. n : p[m] = j
        BY <1>8
      <3>2. m - 1 \in 1 .. n - 1 /\ (m - 1) + 1 = m /\ m \in 1 .. n
        BY <1>2, <3>1
      <3>3. r[(m - 1) + 1] = list[j]
        BY <1>4, <3>1, <3>2
      <3> QED
        BY <3>2, <3>3
    <2>6. Range(Explained(r).ignored) = {r[i + 1].id : i \in 1 .. n - 1}
      BY <2>3 DEF Range
    <2> QED
      BY <2>4, <2>5, <2>6
  <1>13. Len(r) > 1 <=> I \ {b} # {}
    BY <1>2, <1>4, <1>8, <1>9
  <1> QED
    BY <1>5, <1>7, <1>10, <1>11, <1>12, <1>13 DEF r

\* b picks, in the order of the keys, the strongest of the layers in E with
\* each key.
Picks(list, E, b) ==
    /\ Len(b) \in Nat /\ b \in [1 .. Len(b) -> E]
    /\ \A i, j \in 1 .. Len(b) : i < j => list[b[i]].key < list[b[j]].key
    /\ \A j \in E : \E i \in 1 .. Len(b) : list[j].key = list[b[i]].key
    /\ \A i \in 1 .. Len(b) : \A j \in E \ {b[i]} :
          list[j].key = list[b[i]].key => Weaker(list[j], list[b[i]])

\* The eligible layers of a list, by their indices.
EligibleIn(list, reference) == {i \in DOMAIN list : Eligible(list[i], reference)}

\* Of every key the strongest eligible layer is retained, the others are named
\* as its duplicates, and the layers that are not eligible are rejected.
LEMMA Resolved ==
    ASSUME NEW list \in Seq(Plain), DistinctIds(list), NEW ref
    PROVE  LET res == ResolveIndependence(list, ref)
               E == EligibleIn(list, ref)
           IN /\ \E b : /\ Picks(list, E, b)
                        /\ res.retained = [i \in 1 .. Len(b) |-> list[b[i]]]
                        /\ UNION {Range(d.ignored) : d \in Range(res.deduplicated)} =
                              {list[j].id : j \in E \ {b[i] : i \in 1 .. Len(b)}}
                        /\ \A d \in Range(res.deduplicated) :
                              \E i \in 1 .. Len(b) : d.kept = list[b[i]].id
              /\ IsInjective(res.rejected)
              /\ Range(res.rejected) = {list[j].id : j \in DOMAIN list \ E}
  <1> DEFINE res == ResolveIndependence(list, ref)
             E == EligibleIn(list, ref)
             N == Len(list)
             KeySet == {list[i].key : i \in E}
             keys == InOrder(KeySet, <)
             c == Cardinality(KeySet)
             ranked == [k \in DOMAIN keys |-> Sorted(list, Group(list, E, keys[k]), Stronger)]
             Several == {k \in DOMAIN keys : Len(ranked[k]) > 1}
             several == InOrder(Several, <)
  <1>1. /\ res.retained = [k \in DOMAIN keys |-> Head(ranked[k])]
        /\ res.deduplicated = [n \in DOMAIN several |-> Explained(ranked[several[n]])]
        /\ res.rejected = IdsOf(Sorted(list, DOMAIN list \ E, ById))
    BY DEF ResolveIndependence, EligibleIn
  <1>2. /\ N \in Nat /\ DOMAIN list = 1 .. N /\ E \in SUBSET DOMAIN list
        /\ \A i \in DOMAIN list : list[i] \in Plain /\ list[i].key \in Nat /\ list[i].id \in Nat
    BY LenProperties, PlainFields DEF EligibleIn
  <1>3. /\ IsFiniteSet(DOMAIN list)
        /\ \A I \in SUBSET DOMAIN list : IsFiniteSet(I)
    <2>1. IsFiniteSet(1 .. N)
      BY <1>2, CountUpTo
    <2> QED
      BY <2>1, <1>2, FS_Subset
  <1> HIDE DEF res, E, N
  <1>4. KeySet \in SUBSET Nat /\ IsFiniteSet(KeySet)
    <2>1. IsFiniteSet(E)
      BY <1>2, <1>3
    <2> DEFINE f == [i \in E |-> list[i].key]
    <2>2. f \in Surjection(E, KeySet)
      <3>1. f \in [E -> KeySet]
        OBVIOUS
      <3>2. \A y \in KeySet : \E i \in E : f[i] = y
        OBVIOUS
      <3> QED
        BY <3>1, <3>2 DEF Surjection
    <2> QED
      BY <1>2, <2>1, <2>2, FS_Surjection
  <1>5. /\ Lists(keys, KeySet)
        /\ \A i, j \in 1 .. c : i < j => keys[i] < keys[j]
    <2> HIDE DEF KeySet
    <2> QED
      BY <1>4, NaturalsInOrder
  <1> HIDE DEF keys, c
  <1>6. /\ c \in Nat /\ keys \in [1 .. c -> KeySet]
        /\ \A x \in KeySet : \E i \in 1 .. c : keys[i] = x
    BY <1>5 DEF Lists, c
  <1> DEFINE G(k) == Group(list, E, keys[k])
             Best(k) == CHOOSE b \in G(k) :
                          /\ Head(ranked[k]) = list[b]
                          /\ \A j \in G(k) \ {b} : Weaker(list[j], list[b])
                          /\ Explained(ranked[k]).kept = list[b].id
                          /\ Range(Explained(ranked[k]).ignored) =
                                {list[j].id : j \in G(k) \ {b}}
                          /\ Len(ranked[k]) > 1 <=> G(k) \ {b} # {}
             b == [k \in 1 .. c |-> Best(k)]
  <1>7. ASSUME NEW k \in 1 .. c
        PROVE  /\ b[k] \in G(k)
               /\ Head(ranked[k]) = list[b[k]]
               /\ \A j \in G(k) \ {b[k]} : Weaker(list[j], list[b[k]])
               /\ Explained(ranked[k]).kept = list[b[k]].id
               /\ Range(Explained(ranked[k]).ignored) =
                     {list[j].id : j \in G(k) \ {b[k]}}
               /\ Len(ranked[k]) > 1 <=> G(k) \ {b[k]} # {}
    <2>1. G(k) \in SUBSET DOMAIN list /\ IsFiniteSet(G(k)) /\ G(k) # {}
      <3>1. G(k) \in SUBSET DOMAIN list
        BY <1>2 DEF Group
      <3>2. PICK i \in E : list[i].key = keys[k]
        BY <1>6
      <3> QED
        BY <1>3, <3>1, <3>2 DEF Group
    <2>2. ranked[k] = Sorted(list, G(k), Stronger)
      BY <1>6
    <2> HIDE DEF ranked, G
    <2>3. \E x \in G(k) :
             /\ Head(ranked[k]) = list[x]
             /\ \A j \in G(k) \ {x} : Weaker(list[j], list[x])
             /\ Explained(ranked[k]).kept = list[x].id
             /\ Range(Explained(ranked[k]).ignored) = {list[j].id : j \in G(k) \ {x}}
             /\ Len(ranked[k]) > 1 <=> G(k) \ {x} # {}
      BY <2>1, <2>2, RankedGroup
    <2> QED
      BY <2>3
  <1> HIDE DEF b
  <1>8. DOMAIN b = 1 .. c /\ Len(b) = c
    BY <1>6 DEF b
  <1>9. \A k \in 1 .. c : b[k] \in E /\ list[b[k]].key = keys[k] /\ keys[k] \in Nat
    BY <1>4, <1>6, <1>7 DEF Group
  <1>10. b \in [1 .. c -> E]
    BY <1>8, <1>9 DEF b
  <1>11. ASSUME NEW j \in E
         PROVE  \E k \in 1 .. c : list[j].key = keys[k] /\ j \in G(k)
    BY <1>6 DEF Group
  <1>12. Picks(list, E, b)
    <2>1. ASSUME NEW i \in 1 .. c, NEW j \in 1 .. c, i < j
          PROVE  list[b[i]].key < list[b[j]].key
      BY <1>5, <1>9, <2>1
    <2>2. ASSUME NEW j \in E PROVE \E i \in 1 .. c : list[j].key = list[b[i]].key
      BY <1>9, <1>11
    <2>3. ASSUME NEW i \in 1 .. c, NEW j \in E \ {b[i]}, list[j].key = list[b[i]].key
          PROVE  Weaker(list[j], list[b[i]])
      <3>1. j \in G(i) \ {b[i]}
        BY <1>9, <2>3 DEF Group
      <3> QED
        BY <1>7, <3>1
    <2> QED
      BY <1>6, <1>8, <1>10, <2>1, <2>2, <2>3 DEF Picks
  <1>13. res.retained = [i \in 1 .. Len(b) |-> list[b[i]]]
    <2>1. DOMAIN keys = 1 .. c
      BY <1>6
    <2> HIDE DEF ranked
    <2> QED
      BY <1>1, <1>7, <1>8, <2>1
  <1>14. /\ Several = {k \in 1 .. c : G(k) \ {b[k]} # {}}
         /\ \A n \in DOMAIN several : several[n] \in Several
         /\ \A k \in Several : \E n \in DOMAIN several : several[n] = k
    <2>1. Several = {k \in 1 .. c : G(k) \ {b[k]} # {}}
      <3>1. DOMAIN keys = 1 .. c
        BY <1>6
      <3> HIDE DEF ranked, G
      <3> QED
        BY <1>7, <3>1
    <2>2. Several \in SUBSET Nat /\ IsFiniteSet(Several)
      <3>1. IsFiniteSet(1 .. c) /\ Several \in SUBSET (1 .. c)
        BY <1>6, <2>1, CountUpTo
      <3> HIDE DEF Several
      <3>2. IsFiniteSet(Several)
        BY <3>1, FS_Subset
      <3>3. 1 .. c \subseteq Nat
        BY <1>6
      <3> QED
        BY <3>1, <3>2, <3>3
    <2> HIDE DEF Several
    <2>3. Lists(several, Several)
      BY <2>2, NaturalsInOrder
    <2> HIDE DEF several
    <2> QED
      BY <2>1, <2>3 DEF Lists
  <1>15. \A d \in Range(res.deduplicated) :
            \E k \in Several : d = Explained(ranked[k])
    <2> SUFFICES ASSUME NEW d \in Range(res.deduplicated)
                 PROVE  \E k \in Several : d = Explained(ranked[k])
      OBVIOUS
    <2> HIDE DEF ranked, several, Several
    <2>1. PICK n \in DOMAIN several : d = Explained(ranked[several[n]])
      BY <1>1 DEF Range
    <2> QED
      BY <1>14, <2>1
  <1>16. \A k \in Several : Explained(ranked[k]) \in Range(res.deduplicated)
    <2> HIDE DEF ranked, several, Several
    <2> QED
      BY <1>1, <1>14 DEF Range
  <1>17. \A d \in Range(res.deduplicated) : \E i \in 1 .. Len(b) : d.kept = list[b[i]].id
    <2> SUFFICES ASSUME NEW d \in Range(res.deduplicated)
                 PROVE  \E i \in 1 .. Len(b) : d.kept = list[b[i]].id
      OBVIOUS
    <2> HIDE DEF ranked, Several, G
    <2>1. PICK k \in Several : d = Explained(ranked[k])
      BY <1>15
    <2>2. k \in 1 .. c
      BY <1>14
    <2> QED
      BY <1>7, <1>8, <2>1, <2>2
  <1>18. UNION {Range(d.ignored) : d \in Range(res.deduplicated)} =
            {list[j].id : j \in E \ {b[i] : i \in 1 .. Len(b)}}
    <2> HIDE DEF ranked, Several, several
    <2>1. ASSUME NEW d \in Range(res.deduplicated), NEW x \in Range(d.ignored)
          PROVE  \E j \in E \ {b[i] : i \in 1 .. Len(b)} : x = list[j].id
      <3>1. PICK k \in 1 .. c : d = Explained(ranked[k])
        BY <1>14, <1>15
      <3>2. PICK j \in G(k) \ {b[k]} : x = list[j].id
        BY <1>7, <2>1, <3>1
      <3>3. j \in E /\ list[j].key = keys[k]
        BY DEF Group
      <3>4. ASSUME NEW i \in 1 .. c, j = b[i] PROVE FALSE
        <4>1. keys[i] = keys[k] /\ keys[i] \in Nat
          BY <1>9, <3>3, <3>4
        <4>2. i = k
          BY <1>5, <1>6, <4>1
        <4> QED
          BY <3>2, <3>4, <4>2
      <3> QED
        BY <1>8, <3>2, <3>3, <3>4
    <2>2. ASSUME NEW j \in E \ {b[i] : i \in 1 .. Len(b)}
          PROVE  \E d \in Range(res.deduplicated) : list[j].id \in Range(d.ignored)
      <3>1. PICK k \in 1 .. c : j \in G(k)
        BY <1>11
      <3>2. j # b[k]
        BY <1>8, <2>2
      <3>3. k \in Several
        BY <1>14, <3>1, <3>2
      <3>4. list[j].id \in Range(Explained(ranked[k]).ignored)
        BY <1>7, <3>1, <3>2
      <3> QED
        BY <1>16, <3>3, <3>4
    <2> DEFINE Named == UNION {Range(d.ignored) : d \in Range(res.deduplicated)}
               Lost == {list[j].id : j \in E \ {b[i] : i \in 1 .. Len(b)}}
    <2>3. Named \subseteq Lost
      BY <2>1
    <2>4. Lost \subseteq Named
      BY <2>2
    <2> HIDE DEF Named, Lost
    <2>5. Named = Lost
      BY <2>3, <2>4
    <2> QED
      BY <2>5 DEF Named, Lost
  <1>19. /\ IsInjective(res.rejected)
         /\ Range(res.rejected) = {list[j].id : j \in DOMAIN list \ E}
    <2> DEFINE I == DOMAIN list \ E
    <2>1. PICK p : /\ Lists(p, I)
                   /\ Sorted(list, I, ById) = [n \in 1 .. Cardinality(I) |-> list[p[n]]]
      <3>1. I \in SUBSET DOMAIN list /\ IsFiniteSet(I)
        BY <1>3
      <3> QED
        BY <3>1, SortedById
    <2>2. /\ p \in [1 .. Cardinality(I) -> I]
          /\ \A i, j \in 1 .. Cardinality(I) : p[i] = p[j] => i = j
          /\ \A x \in I : \E i \in 1 .. Cardinality(I) : p[i] = x
      BY <2>1 DEF Lists
    <2>3. res.rejected = [n \in 1 .. Cardinality(I) |-> list[p[n]].id]
      BY <1>1, <2>1 DEF IdsOf
    <2>4. \A i, j \in I : list[i].id = list[j].id => i = j
      BY DEF DistinctIds
    <2> HIDE DEF I
    <2>5. IsInjective(res.rejected)
      BY <2>2, <2>3, <2>4 DEF IsInjective
    <2>6. Range(res.rejected) = {list[j].id : j \in I}
      BY <2>2, <2>3 DEF Range
    <2> QED
      BY <2>5, <2>6 DEF I
  <1> QED
    BY <1>12, <1>13, <1>17, <1>18, <1>19 DEF res, E

-----------------------------------------------------------------------------
(* The score *)

\* A layer lets no more through than reaches it.
LEMMA LetThrough ==
    ASSUME NEW x \in Nat, NEW u \in 0 .. Full
    PROVE  (x * u) \div Full \in Nat /\ (x * u) \div Full <= x
  <1>1. Full \in Nat \ {0} /\ u \in Nat /\ u <= Full
    BY ScoringAssumption
  <1>2. x * u \in Nat /\ x * Full \in Nat /\ x * u <= x * Full
    BY <1>1
  <1>3. (x * u) \div Full <= (x * Full) \div Full
    BY <1>1, <1>2
  <1>4. (x * Full) \div Full = x
    BY <1>1
  <1> QED
    BY <1>1, <1>2, <1>3, <1>4

\* It lets no less through when more reaches it or it stops less.
LEMMA LetThroughMonotone ==
    ASSUME NEW x \in Nat, NEW y \in Nat, x <= y,
           NEW u \in 0 .. Full, NEW w \in 0 .. Full, u <= w
    PROVE  (x * u) \div Full <= (y * w) \div Full
  <1>1. Full \in Nat \ {0} /\ u \in Nat /\ w \in Nat
    BY ScoringAssumption
  <1>2. x * u \in Nat /\ x * w \in Nat /\ y * w \in Nat
    BY <1>1
  <1>3. x * u <= x * w /\ x * w <= y * w
    BY <1>1
  <1>4. x * u <= y * w
    BY <1>2, <1>3
  <1> QED
    BY <1>1, <1>2, <1>4

\* f[n] is what the first n of the factors e leave of Whole.
LeftOver(f, N, e) ==
    f = [n \in 0 .. N |-> IF n = 0 THEN Whole ELSE (f[n - 1] * e[n]) \div Full]

\* The recursion of the remaining probability has a solution.
LEMMA LeftOverExists ==
    ASSUME NEW N \in Nat, NEW e \in [1 .. N -> 0 .. Full]
    PROVE  \E f \in [0 .. N -> 0 .. Whole] : LeftOver(f, N, e)
  <1> DEFINE Solved(m) == \E f \in [0 .. m -> 0 .. Whole] : LeftOver(f, m, e)
             Good == {m \in Nat : m <= N => Solved(m)}
  <1>1. 0 \in Good
    <2> DEFINE f == [n \in 0 .. 0 |-> Whole]
    <2>1. Whole \in 0 .. Whole
      BY ScoringAssumption
    <2>2. f \in [0 .. 0 -> 0 .. Whole]
      BY <2>1
    <2>3. LeftOver(f, 0, e)
      BY DEF LeftOver
    <2> QED
      BY <2>2, <2>3
  <1>2. ASSUME NEW m \in Good PROVE m + 1 \in Good
    <2> SUFFICES ASSUME m + 1 <= N PROVE Solved(m + 1)
      <3> HIDE DEF Solved
      <3> QED
        BY <1>2
    <2>1. m \in Nat /\ m <= N /\ m + 1 \in 1 .. N
      BY <1>2
    <2>2. PICK f \in [0 .. m -> 0 .. Whole] : LeftOver(f, m, e)
      BY <1>2, <2>1
    <2> DEFINE last == (f[m] * e[m + 1]) \div Full
               g == [n \in 0 .. m + 1 |-> IF n = m + 1 THEN last ELSE f[n]]
    <2>3. last \in 0 .. Whole
      <3>1. f[m] \in 0 .. Whole /\ e[m + 1] \in 0 .. Full /\ Whole \in Nat
        BY <2>1, <2>2, ScoringAssumption
      <3>2. f[m] \in Nat
        BY <3>1
      <3>3. last \in Nat /\ last <= f[m]
        BY <3>1, <3>2, LetThrough, Zenon
      <3> QED
        BY <3>1, <3>3
    <2> HIDE DEF last
    <2>4. g \in [0 .. m + 1 -> 0 .. Whole]
      BY <2>1, <2>2, <2>3
    <2>5. ASSUME NEW n \in 0 .. m + 1
          PROVE  g[n] = IF n = 0 THEN Whole ELSE (g[n - 1] * e[n]) \div Full
      <3>1. CASE n = m + 1
        <4>1. g[n] = last /\ g[n - 1] = f[m] /\ n # 0 /\ e[n] = e[m + 1]
          BY <2>1, <3>1
        <4> QED
          BY <4>1 DEF last
      <3>2. CASE n \in 0 .. m
        <4>1. g[n] = f[n]
          BY <2>1, <3>2
        <4>2. f[n] = IF n = 0 THEN Whole ELSE (f[n - 1] * e[n]) \div Full
          BY <2>1, <2>2, <3>2 DEF LeftOver
        <4>3. n # 0 => g[n - 1] = f[n - 1]
          BY <2>1, <3>2
        <4> QED
          BY <4>1, <4>2, <4>3
      <3> QED
        BY <2>1, <3>1, <3>2
    <2>6. LeftOver(g, m + 1, e)
      <3> DEFINE h == [n \in 0 .. m + 1 |->
                         IF n = 0 THEN Whole ELSE (g[n - 1] * e[n]) \div Full]
      <3>1. \A n \in 0 .. m + 1 : g[n] = h[n]
        BY <2>5
      <3>2. g = h
        <4>1. h = [n \in 0 .. m + 1 |-> h[n]] /\ g = [n \in 0 .. m + 1 |-> g[n]]
          OBVIOUS
        <4> HIDE DEF g, h
        <4> QED
          BY <3>1, <4>1
      <3> QED
        BY <3>2 DEF LeftOver
    <2> QED
      BY <2>4, <2>6
  <1>3. Good = Nat
    <2> HIDE DEF Good
    <2>1. Good \in SUBSET Nat
      BY DEF Good
    <2> QED
      BY <1>1, <1>2, <2>1, Induction
  <1>4. N \in Good
    BY <1>3
  <1> QED
    BY <1>4

KeysRise(list) == \A m, n \in DOMAIN list : m < n => list[m].key < list[n].key

\* f[n] is what the first n of the layers o let through.
PassesThrough(f, o) ==
    /\ f \in [0 .. Len(o) -> 0 .. Whole]
    /\ f[0] = Whole
    /\ \A n \in 1 .. Len(o) : f[n] = (f[n - 1] * (Full - o[n].effectiveness)) \div Full

\* What remains is what the layers let through, taken in the order of keys.
LEMMA RemainingPasses ==
    ASSUME NEW list \in Seq(Plain), KeysRise(list)
    PROVE  \E o, f : /\ o \in Seq(Plain) /\ KeysRise(o) /\ Range(o) = Range(list)
                     /\ PassesThrough(f, o)
                     /\ Remaining(list) = f[Len(o)]
  <1> DEFINE N == Len(list)
             o == Sorted(list, DOMAIN list, ByKey)
             e == [n \in 1 .. N |-> Full - o[n].effectiveness]
             Step(f) == [n \in 0 .. N |->
                           IF n = 0 THEN Whole
                           ELSE (f[n - 1] * (Full - o[n].effectiveness)) \div Full]
  <1>1. N \in Nat /\ DOMAIN list = 1 .. N /\ \A i \in 1 .. N : list[i] \in Plain
    BY LenProperties, PlainFields
  <1>2. IsFiniteSet(DOMAIN list) /\ Cardinality(DOMAIN list) = N
    <2>1. N \in Nat
      BY <1>1
    <2>2. IsFiniteSet(1 .. N) /\ Cardinality(1 .. N) = N
      <3> HIDE DEF N
      <3> QED
        BY <2>1, CountUpTo
    <2> QED
      BY <1>1, <2>2
  <1>3. PICK p : /\ Lists(p, DOMAIN list)
                 /\ o = [n \in 1 .. Cardinality(DOMAIN list) |-> list[p[n]]]
                 /\ \A m, n \in 1 .. Cardinality(DOMAIN list) :
                       m < n => ~ByKey(list[p[n]], list[p[m]])
    BY <1>2, SortedByKey
  <1> HIDE DEF o, N
  <1>4. /\ p \in [1 .. N -> 1 .. N]
        /\ \A i, j \in 1 .. N : p[i] = p[j] => i = j
        /\ \A x \in 1 .. N : \E i \in 1 .. N : p[i] = x
    BY <1>1, <1>2, <1>3 DEF Lists
  <1>5. /\ o = [n \in 1 .. N |-> list[p[n]]]
        /\ \A m, n \in 1 .. N : m < n => ~ByKey(list[p[n]], list[p[m]])
    BY <1>2, <1>3
  <1>6. \A n \in 1 .. N : o[n] = list[p[n]] /\ o[n] \in Plain
    BY <1>1, <1>4, <1>5
  <1>7. o \in Seq(Plain) /\ Len(o) = N /\ DOMAIN o = 1 .. N
    <2>1. o \in [1 .. N -> Plain]
      BY <1>5, <1>6
    <2> QED
      BY <1>1, <2>1
  <1>8. KeysRise(o)
    <2> SUFFICES ASSUME NEW m \in 1 .. N, NEW n \in 1 .. N, m < n
                 PROVE  o[m].key < o[n].key
      BY <1>7 DEF KeysRise
    <2>1. p[m] \in 1 .. N /\ p[n] \in 1 .. N /\ p[m] # p[n]
      BY <1>1, <1>4
    <2>2. o[m] = list[p[m]] /\ o[n] = list[p[n]] /\ o[m] \in Plain /\ o[n] \in Plain
      BY <1>6
    <2>3. o[m].key \in Nat /\ o[n].key \in Nat
      BY <2>2 DEF Plain
    <2>4. ~(o[n].key < o[m].key)
      BY <1>5, <2>2 DEF ByKey
    <2>5. o[m].key # o[n].key
      <3>1. CASE p[m] < p[n]
        BY <1>1, <2>1, <2>2, <2>3, <3>1 DEF KeysRise
      <3>2. CASE p[n] < p[m]
        BY <1>1, <2>1, <2>2, <2>3, <3>2 DEF KeysRise
      <3> QED
        BY <1>1, <2>1, <3>1, <3>2
    <2> QED
      BY <2>3, <2>4, <2>5
  <1>9. Range(o) = Range(list)
    <2>1. \A n \in 1 .. N : o[n] \in Range(list)
      BY <1>1, <1>4, <1>6 DEF Range
    <2>2. \A i \in 1 .. N : list[i] \in Range(o)
      BY <1>4, <1>6, <1>7 DEF Range
    <2> QED
      BY <1>1, <1>7, <2>1, <2>2 DEF Range
  <1>10. e \in [1 .. N -> 0 .. Full]
    <2>1. \A n \in 1 .. N : o[n].effectiveness \in 1 .. Full
      BY <1>6 DEF Plain
    <2> QED
      BY <2>1, ScoringAssumption
  <1>11. \E f : f = Step(f)
    <2>1. PICK f \in [0 .. N -> 0 .. Whole] : LeftOver(f, N, e)
      BY <1>1, <1>10, LeftOverExists
    <2>2. f = [n \in 0 .. N |-> IF n = 0 THEN Whole ELSE (f[n - 1] * e[n]) \div Full]
      BY <2>1 DEF LeftOver
    <2>3. \A n \in 0 .. N : n # 0 => e[n] = Full - o[n].effectiveness
      BY <1>1
    <2> HIDE DEF e
    <2>4. f = Step(f)
      BY <2>2, <2>3
    <2> QED
      BY <2>4
  <1> DEFINE left == CHOOSE f : f = Step(f)
  <1>12. Remaining(list) = left[N]
    BY DEF Remaining, N, o
  <1>13. left = Step(left)
    BY <1>11
  <1> HIDE DEF left
  <1>14. /\ DOMAIN left = 0 .. N /\ left[0] = Whole
         /\ \A n \in 1 .. N :
               left[n] = (left[n - 1] * (Full - o[n].effectiveness)) \div Full
    <2>1. \A n \in 0 .. N : left[n] = Step(left)[n]
      BY <1>13
    <2>2. 0 \in 0 .. N /\ \A n \in 1 .. N : n \in 0 .. N /\ n # 0
      BY <1>1
    <2> QED
      BY <1>13, <2>1, <2>2
  <1>15. \A n \in 0 .. N : left[n] \in 0 .. Whole
    <2> DEFINE Good == {m \in Nat : m <= N => left[m] \in 0 .. Whole}
    <2>1. Whole \in Nat
      BY ScoringAssumption
    <2>2. 0 \in Good
      BY <1>14, <2>1
    <2>3. ASSUME NEW m \in Good PROVE m + 1 \in Good
      <3> SUFFICES ASSUME m + 1 <= N PROVE left[m + 1] \in 0 .. Whole
        BY <2>3
      <3> DEFINE x == left[m]
                 u == Full - o[m + 1].effectiveness
      <3>1. m \in Nat /\ m <= N /\ m + 1 \in 1 .. N /\ (m + 1) - 1 = m
        BY <1>1, <2>3
      <3>2. x \in Nat /\ x <= Whole
        BY <2>1, <2>3, <3>1
      <3>3. u \in 0 .. Full
        <4>1. u = e[m + 1]
          BY <3>1
        <4> HIDE DEF e, u
        <4> QED
          BY <1>10, <3>1, <4>1
      <3>4. left[m + 1] = (x * u) \div Full
        BY <1>14, <3>1
      <3> HIDE DEF x, u
      <3>5. (x * u) \div Full \in Nat /\ (x * u) \div Full <= x
        BY <3>2, <3>3, LetThrough
      <3> QED
        BY <2>1, <3>2, <3>4, <3>5
    <2>4. Good = Nat
      <3> HIDE DEF Good
      <3>1. Good \in SUBSET Nat
        BY DEF Good
      <3> QED
        BY <2>2, <2>3, <3>1, Induction
    <2> QED
      BY <1>1, <2>4
  <1>16. PassesThrough(left, o)
    <2>1. left \in [0 .. N -> 0 .. Whole]
      BY <1>13, <1>14, <1>15
    <2> QED
      BY <1>7, <1>14, <2>1 DEF PassesThrough
  <1> QED
    BY <1>7, <1>8, <1>9, <1>12, <1>16

\* Each of the first q layers of o has its match, at least as effective, among
\* the first m of more.
Matched(o, q, more, m) ==
    \A i \in 1 .. q : \E j \in 1 .. m :
       more[j].key = o[i].key /\ more[j].effectiveness >= o[i].effectiveness

\* Layers that match all of others let no more through than those.
LEMMA MoreLayersPassLess ==
    ASSUME NEW o \in Seq(Plain), NEW more \in Seq(Plain), KeysRise(o), KeysRise(more),
           NEW f, PassesThrough(f, o), NEW g, PassesThrough(g, more),
           Matched(o, Len(o), more, Len(more))
    PROVE  g[Len(more)] <= f[Len(o)]
  <1> DEFINE N == Len(o)
             M == Len(more)
             Less(m) == \A q \in 0 .. N : Matched(o, q, more, m) => g[m] <= f[q]
             Good == {m \in Nat : m <= M => Less(m)}
  <1>1. /\ N \in Nat /\ DOMAIN o = 1 .. N /\ M \in Nat /\ DOMAIN more = 1 .. M
        /\ \A i \in 1 .. N : o[i].key \in Nat /\ o[i].effectiveness \in 1 .. Full
        /\ \A j \in 1 .. M : more[j].key \in Nat /\ more[j].effectiveness \in 1 .. Full
    BY LenProperties, PlainFields
  <1>2. /\ f \in [0 .. N -> 0 .. Whole] /\ f[0] = Whole
        /\ \A n \in 1 .. N : f[n] = (f[n - 1] * (Full - o[n].effectiveness)) \div Full
    BY DEF PassesThrough
  <1>3. /\ g \in [0 .. M -> 0 .. Whole] /\ g[0] = Whole
        /\ \A n \in 1 .. M : g[n] = (g[n - 1] * (Full - more[n].effectiveness)) \div Full
    BY DEF PassesThrough
  <1>4. Whole \in Nat /\ Full \in Nat \ {0}
    BY ScoringAssumption
  <1>5. /\ \A i, j \in 1 .. N : i < j => o[i].key < o[j].key
        /\ \A i, j \in 1 .. M : i < j => more[i].key < more[j].key
    BY <1>1 DEF KeysRise
  <1> HIDE DEF N, M
  <1>6. 0 \in Good
    <2> SUFFICES ASSUME NEW q \in 0 .. N, Matched(o, q, more, 0) PROVE g[0] <= f[q]
      OBVIOUS
    <2>1. q = 0
      <3> SUFFICES ASSUME q # 0 PROVE FALSE
        OBVIOUS
      <3>1. 1 \in 1 .. q
        BY <1>1
      <3>2. PICK j \in 1 .. 0 : TRUE
        BY <3>1 DEF Matched
      <3> QED
        BY <3>2
    <2> QED
      BY <1>2, <1>3, <1>4, <2>1
  <1>7. ASSUME NEW m \in Good PROVE m + 1 \in Good
    <2> SUFFICES ASSUME m + 1 <= M PROVE Less(m + 1)
      <3> HIDE DEF Less
      <3> QED
        BY <1>7
    <2>1. m \in Nat /\ m \in 0 .. M /\ m + 1 \in 1 .. M /\ (m + 1) - 1 = m
      <3> HIDE DEF Less
      <3>1. m \in Nat
        BY <1>7
      <3> QED
        BY <1>1, <3>1
    <2>2. Less(m)
      BY <1>7, <2>1
    <2> SUFFICES ASSUME NEW q \in 0 .. N, Matched(o, q, more, m + 1)
                 PROVE  g[m + 1] <= f[q]
      OBVIOUS
    <2> DEFINE x == g[m]
               u == Full - more[m + 1].effectiveness
    <2>3. x \in Nat /\ u \in 0 .. Full /\ g[m + 1] = (x * u) \div Full
      <3>1. more[m + 1].effectiveness \in 1 .. Full
        BY <1>1, <2>1
      <3>2. u \in 0 .. Full
        BY <1>4, <3>1
      <3>3. x \in 0 .. Whole
        BY <1>3, <2>1
      <3>4. g[m + 1] = (g[(m + 1) - 1] * (Full - more[m + 1].effectiveness)) \div Full
        BY <1>3, <2>1
      <3>5. g[m + 1] = (x * u) \div Full
        BY <2>1, <3>4
      <3> QED
        BY <1>4, <3>2, <3>3, <3>5
    <2>4. f[q] \in Nat
      BY <1>1, <1>2, <1>4
    <2>5. CASE \A i \in 1 .. q : o[i].key # more[m + 1].key
      <3>1. Matched(o, q, more, m)
        <4> SUFFICES ASSUME NEW i \in 1 .. q
                     PROVE  \E j \in 1 .. m : /\ more[j].key = o[i].key
                                              /\ more[j].effectiveness >= o[i].effectiveness
          BY DEF Matched
        <4>1. PICK j \in 1 .. m + 1 : /\ more[j].key = o[i].key
                                      /\ more[j].effectiveness >= o[i].effectiveness
          BY DEF Matched
        <4>2. j # m + 1
          BY <2>5, <4>1
        <4>3. j \in 1 .. m
          BY <2>1, <4>2
        <4> QED
          BY <4>1, <4>3
      <3>2. x <= f[q]
        BY <2>2, <3>1
      <3> HIDE DEF x, u
      <3>3. (x * u) \div Full \in Nat /\ (x * u) \div Full <= x
        BY <2>3, LetThrough
      <3> QED
        BY <2>3, <2>4, <3>2, <3>3
    <2>6. ASSUME NEW i \in 1 .. q, o[i].key = more[m + 1].key
          PROVE  g[m + 1] <= f[q]
      <3>1. q \in 1 .. N /\ q \in 1 .. q /\ i \in 1 .. N /\ q - 1 \in 0 .. N
        BY <1>1
      <3>2. PICK j \in 1 .. m + 1 : /\ more[j].key = o[q].key
                                    /\ more[j].effectiveness >= o[q].effectiveness
        BY <3>1 DEF Matched
      <3>3. j \in 1 .. M /\ j <= m + 1
        BY <1>1, <2>1
      <3>4. i = q
        <4> SUFFICES ASSUME i < q PROVE FALSE
          BY <3>1
        <4>1. o[i].key < o[q].key
          BY <1>5, <3>1
        <4>2. more[m + 1].key < more[j].key
          BY <2>6, <3>2, <4>1
        <4>3. j < m + 1 => more[j].key < more[m + 1].key
          BY <1>5, <2>1, <3>3
        <4>4. more[j].key \in Nat /\ more[m + 1].key \in Nat
          BY <1>1, <2>1, <3>3
        <4>5. j = m + 1
          BY <2>1, <3>3, <4>2, <4>3, <4>4
        <4> QED
          BY <4>2, <4>4, <4>5
      <3>5. j = m + 1
        <4>1. more[j].key = more[m + 1].key /\ more[j].key \in Nat
          BY <1>1, <2>6, <3>2, <3>3, <3>4
        <4>2. ~(j < m + 1)
          BY <1>5, <2>1, <3>3, <4>1
        <4> QED
          BY <2>1, <3>3, <4>2
      <3>6. Matched(o, q - 1, more, m)
        <4> SUFFICES ASSUME NEW k \in 1 .. q - 1
                     PROVE  \E l \in 1 .. m : /\ more[l].key = o[k].key
                                              /\ more[l].effectiveness >= o[k].effectiveness
          BY DEF Matched
        <4>1. k \in 1 .. q /\ k \in 1 .. N /\ k < q
          BY <1>1
        <4>2. PICK l \in 1 .. m + 1 : /\ more[l].key = o[k].key
                                      /\ more[l].effectiveness >= o[k].effectiveness
          BY <4>1 DEF Matched
        <4>3. o[k].key < o[q].key /\ o[k].key \in Nat
          BY <1>1, <1>5, <3>1, <4>1
        <4>4. l # m + 1
          BY <2>6, <3>4, <4>2, <4>3
        <4>5. l \in 1 .. m
          BY <2>1, <4>4
        <4> QED
          BY <4>2, <4>5
      <3> DEFINE y == f[q - 1]
                 w == Full - o[q].effectiveness
      <3>7. x <= y
        BY <2>2, <3>1, <3>6
      <3>8. y \in Nat /\ w \in 0 .. Full /\ f[q] = (y * w) \div Full
        <4>1. o[q].effectiveness \in 1 .. Full
          BY <1>1, <3>1
        <4>2. w \in 0 .. Full
          BY <1>4, <4>1
        <4>3. y \in 0 .. Whole
          BY <1>2, <3>1
        <4>4. f[q] = (y * w) \div Full
          BY <1>2, <3>1
        <4> QED
          BY <1>4, <4>2, <4>3, <4>4
      <3>9. u <= w
        <4>1. o[q].effectiveness \in Nat /\ more[m + 1].effectiveness \in Nat
          BY <1>1, <1>4, <2>1, <3>1
        <4> QED
          BY <1>4, <3>2, <3>5, <4>1
      <3> HIDE DEF x, u, y, w
      <3> QED
        BY <2>3, <3>7, <3>8, <3>9, LetThroughMonotone
    <2> QED
      BY <2>5, <2>6
  <1>8. Good = Nat
    <2> HIDE DEF Good
    <2>1. Good \in SUBSET Nat
      BY DEF Good
    <2> QED
      BY <1>6, <1>7, <2>1, Induction
  <1>9. Less(M)
    BY <1>1, <1>8
  <1> QED
    BY <1>1, <1>9 DEF N, M

-----------------------------------------------------------------------------
(* Paths *)

\* The statements of a text, each once.
LEMMA StatementsOnce ==
    ASSUME NEW text \in Seq(Statements)
    PROVE  LET c == SplitStatements(text) IN
           /\ Len(c) \in Nat \ {0} /\ DOMAIN c = 1 .. Len(c)
           /\ \A i, j \in 1 .. Len(c) : c[i].lower = c[j].lower => i = j
           /\ {c[i].lower : i \in 1 .. Len(c)} = Said(text)
  <1> DEFINE c == SplitStatements(text)
             N == Len(text)
             new == {i \in DOMAIN text : \A j \in 1 .. i - 1 : text[j].lower # text[i].lower}
             kept == InOrder(new, <)
             k == Cardinality(new)
  <1>1. CASE text = <<>>
    <2>1. c = <<Unspecified>>
      BY <1>1 DEF SplitStatements
    <2>2. Said(text) = {Unspecified.lower}
      BY <1>1 DEF Said
    <2>3. Len(c) = 1 /\ DOMAIN c = 1 .. 1 /\ c[1] = Unspecified
      BY <2>1
    <2> HIDE DEF c
    <2>4. {c[i].lower : i \in 1 .. 1} = {Unspecified.lower}
      BY <2>3
    <2> QED
      BY <2>2, <2>3, <2>4 DEF c
  <1>2. CASE text # <<>>
    <2>1. N \in Nat \ {0} /\ DOMAIN text = 1 .. N /\ \A i \in 1 .. N : text[i] \in Statements
      BY <1>2, LenProperties, ElementOfSeq, EmptySeq
    <2>2. new \in SUBSET (1 .. N) /\ 1 .. N \subseteq Nat
      BY <2>1
    <2>3. new \in SUBSET Nat /\ IsFiniteSet(new)
      <3> HIDE DEF new, N
      <3>1. N \in Nat
        BY <2>1
      <3>2. IsFiniteSet(1 .. N)
        BY <3>1, CountUpTo
      <3>3. IsFiniteSet(new)
        BY <2>2, <3>2, FS_Subset
      <3> QED
        BY <2>2, <3>3
    <2>4. Lists(kept, new)
      <3> HIDE DEF new
      <3> QED
        BY <2>3, NaturalsInOrder
    <2>5. c = [n \in DOMAIN kept |-> text[kept[n]]]
      BY <1>2 DEF SplitStatements
    <2> HIDE DEF kept
    <2>6. /\ k \in Nat /\ kept \in [1 .. k -> new]
          /\ \A i, j \in 1 .. k : kept[i] = kept[j] => i = j
          /\ \A x \in new : \E i \in 1 .. k : kept[i] = x
      BY <2>4 DEF Lists
    <2> HIDE DEF k, c
    <2>7. \A n \in 1 .. k : kept[n] \in 1 .. N /\ c[n] = text[kept[n]]
      BY <2>2, <2>5, <2>6
    <2>8. c \in Seq(Statements) /\ Len(c) = k /\ DOMAIN c = 1 .. k
      <3>1. c \in [1 .. k -> Statements]
        BY <2>1, <2>5, <2>6, <2>7
      <3> QED
        BY <2>6, <3>1
    <2>9. ASSUME NEW i \in 1 .. k, NEW j \in 1 .. k, c[i].lower = c[j].lower
          PROVE  i = j
      <3> DEFINE a == kept[i]
                 b == kept[j]
      <3>1. a \in new /\ b \in new /\ a \in 1 .. N /\ b \in 1 .. N
        BY <2>6, <2>7
      <3>2. text[a].lower = text[b].lower
        BY <2>7, <2>9
      <3>3. ~(a < b) /\ ~(b < a)
        <4> HIDE DEF a, b
        <4>1. \A x \in 1 .. b - 1 : text[x].lower # text[b].lower
          BY <3>1
        <4>2. \A x \in 1 .. a - 1 : text[x].lower # text[a].lower
          BY <3>1
        <4> QED
          BY <2>1, <3>1, <3>2, <4>1, <4>2
      <3>4. a = b
        BY <2>1, <3>1, <3>3
      <3> QED
        BY <2>6, <3>4
    <2>10. ASSUME NEW x \in 1 .. N PROVE \E i \in 1 .. k : c[i].lower = text[x].lower
      <3> DEFINE T == {y \in 1 .. N : text[y].lower = text[x].lower}
      <3>1. T \in SUBSET Nat /\ T # {}
        BY <2>2
      <3>2. PICK y \in T : \A z \in T : y <= z
        <4> HIDE DEF T
        <4> QED
          BY <3>1, SmallestExists
      <3>3. y \in new
        <4>1. ASSUME NEW z \in 1 .. y - 1, text[z].lower = text[y].lower PROVE FALSE
          <5>1. z \in 1 .. N /\ z < y
            BY <2>1
          <5>2. z \in T
            BY <4>1, <5>1
          <5>3. y <= z
            BY <3>2, <5>2
          <5> QED
            BY <2>1, <5>1, <5>3
        <4> QED
          BY <2>1, <4>1
      <3>4. PICK i \in 1 .. k : kept[i] = y
        BY <2>6, <3>3
      <3> QED
        BY <2>7, <3>4
    <2>11. Said(text) = {text[x].lower : x \in 1 .. N}
      BY <1>2, <2>1 DEF Said, Range
    <2>12. {c[i].lower : i \in 1 .. k} = Said(text)
      <3>1. \A i \in 1 .. k : \E x \in 1 .. N : c[i].lower = text[x].lower
        BY <2>7
      <3> DEFINE Once == {c[i].lower : i \in 1 .. k}
                 All == {text[x].lower : x \in 1 .. N}
      <3>2. Once \subseteq All
        BY <3>1
      <3>3. All \subseteq Once
        BY <2>10
      <3> HIDE DEF Once, All
      <3>4. Once = All
        BY <3>2, <3>3
      <3> QED
        BY <2>11, <3>4 DEF Once, All
    <2>13. k # 0
      <3>1. 1 \in 1 .. N
        BY <2>1
      <3> QED
        BY <2>10, <3>1
    <2> QED
      BY <2>6, <2>8, <2>9, <2>12, <2>13 DEF c
  <1> QED
    BY <1>1, <1>2

\* The n-th path's cause and consequence, when there are per of the latter.
Row(n, per) == 1 + ((n - 1) \div per)
Col(n, per) == 1 + ((n - 1) % per)

\* Every pair has its place, and every place its pair.
LEMMA PlaceOfPair ==
    ASSUME NEW count \in Nat, NEW per \in Nat \ {0}
    PROVE  \A i \in 1 .. count, j \in 1 .. per :
              \E n \in 1 .. count * per : Row(n, per) = i /\ Col(n, per) = j
  <1> TAKE i \in 1 .. count, j \in 1 .. per
  <1> DEFINE a == i - 1
             r == j - 1
             n == a * per + j
  <1>1. a \in Nat /\ r \in 0 .. per - 1 /\ a + 1 <= count /\ a * per \in Nat
    OBVIOUS
  <1>2. n - 1 = a * per + r
    BY <1>1
  <1>3. (a * per + r) \div per = a /\ (a * per + r) % per = r
    <2> HIDE DEF a, r
    <2> QED
      BY <1>1
  <1>4. n \in 1 .. count * per
    <2>1. (a + 1) * per <= count * per
      BY <1>1, TimesMonotone
    <2>2. (a + 1) * per = a * per + per /\ count * per \in Nat
      BY <1>1
    <2> HIDE DEF a
    <2> QED
      BY <1>1, <2>1, <2>2
  <1> HIDE DEF n
  <1>5. Row(n, per) = 1 + a /\ Col(n, per) = 1 + r
    BY <1>2, <1>3 DEF Row, Col
  <1>6. 1 + a = i /\ 1 + r = j
    OBVIOUS
  <1> QED
    BY <1>4, <1>5, <1>6

\* And each place holds one pair.
LEMMA PairAtPlace ==
    ASSUME NEW count \in Nat, NEW per \in Nat \ {0}, NEW n \in 1 .. count * per
    PROVE  /\ Row(n, per) \in 1 .. count /\ Col(n, per) \in 1 .. per
           /\ n = (Row(n, per) - 1) * per + Col(n, per)
  <1> DEFINE a == (n - 1) \div per
             r == (n - 1) % per
  <1>1. n - 1 \in Nat /\ n - 1 < count * per /\ n \in Nat /\ count * per \in Nat
    OBVIOUS
  <1>2. a \in Nat /\ r \in 0 .. per - 1 /\ n - 1 = a * per + r /\ a * per \in Nat
    <2> DEFINE x == n - 1
    <2>1. x \in Nat
      BY <1>1
    <2> HIDE DEF x
    <2>2. /\ x \div per \in Nat /\ x % per \in 0 .. per - 1
          /\ x = (x \div per) * per + (x % per)
      BY <2>1, Division
    <2>3. a \in Nat /\ r \in 0 .. per - 1 /\ n - 1 = a * per + r
      BY <2>2, Zenon DEF x
    <2> QED
      BY <2>3
  <1> HIDE DEF a, r
  <1>3. ~(count <= a)
    <2> SUFFICES ASSUME count <= a PROVE FALSE
      OBVIOUS
    <2>1. count * per <= a * per
      BY <1>2, TimesMonotone
    <2> QED
      BY <1>1, <1>2, <2>1
  <1>4. 1 + a \in 1 .. count /\ 1 + r \in 1 .. per /\ (1 + a) - 1 = a
    BY <1>2, <1>3
  <1>5. n = a * per + (1 + r)
    BY <1>1, <1>2
  <1>6. n = ((1 + a) - 1) * per + (1 + r)
    BY <1>4, <1>5
  <1>7. Row(n, per) = 1 + a /\ Col(n, per) = 1 + r
    BY DEF a, r, Row, Col
  <1> QED
    BY <1>4, <1>6, <1>7

\* Every cause with every consequence, each pair once.
LEMMA PathsOnce ==
    ASSUME NEW c, NEW q, Len(c) \in Nat \ {0}, Len(q) \in Nat \ {0},
           \A i, j \in 1 .. Len(c) : c[i].lower = c[j].lower => i = j,
           \A i, j \in 1 .. Len(q) : q[i].lower = q[j].lower => i = j
    PROVE  LET P == Paths(c, q) IN
           /\ P # <<>> /\ Len(P) = Cardinality(Range(P)) /\ Len(P) \in Nat
           /\ Range(P) = {[cause |-> a, consequence |-> b] :
                            a \in {c[i].lower : i \in 1 .. Len(c)},
                            b \in {q[j].lower : j \in 1 .. Len(q)}}
  <1> DEFINE P == Paths(c, q)
             count == Len(c)
             per == Len(q)
             K == count * per
             row(n) == Row(n, per)
             col(n) == Col(n, per)
             Causes == {c[i].lower : i \in 1 .. count}
             Consequences == {q[j].lower : j \in 1 .. per}
             Pairs == {[cause |-> a, consequence |-> b] : a \in Causes, b \in Consequences}
  <1>1. P = [n \in 1 .. K |-> [cause       |-> c[row(n)].lower,
                               consequence |-> q[col(n)].lower]]
    BY DEF Paths, Row, Col
  <1>2. count \in Nat /\ per \in Nat \ {0} /\ K \in Nat
    OBVIOUS
  <1> HIDE DEF P
  <1>3. ASSUME NEW n \in 1 .. K
        PROVE  row(n) \in 1 .. count /\ col(n) \in 1 .. per /\ n = (row(n) - 1) * per + col(n)
    BY PairAtPlace
  <1>4. \A i \in 1 .. count, j \in 1 .. per : \E n \in 1 .. K : row(n) = i /\ col(n) = j
    <2> HIDE DEF count, per
    <2> QED
      BY <1>2, PlaceOfPair
  <1> HIDE DEF row, col, K
  <1>5. IsInjective(P)
    <2> SUFFICES ASSUME NEW m \in 1 .. K, NEW n \in 1 .. K, P[m] = P[n]
                 PROVE  m = n
      BY <1>1 DEF IsInjective
    <2>1. c[row(m)].lower = c[row(n)].lower /\ q[col(m)].lower = q[col(n)].lower
      BY <1>1
    <2>2. row(m) = row(n) /\ col(m) = col(n)
      BY <1>3, <2>1
    <2> QED
      BY <1>3, <2>2
  <1>6. Range(P) = Pairs
    <2>1. ASSUME NEW n \in 1 .. K PROVE P[n] \in Pairs
      <3>1. P[n] = [cause |-> c[row(n)].lower, consequence |-> q[col(n)].lower]
        BY <1>1
      <3>2. row(n) \in 1 .. count /\ col(n) \in 1 .. per
        BY <1>3
      <3>3. c[row(n)].lower \in Causes /\ q[col(n)].lower \in Consequences
        BY <3>2
      <3> HIDE DEF Causes, Consequences
      <3> QED
        BY <3>1, <3>3
    <2>2. ASSUME NEW i \in 1 .. count, NEW j \in 1 .. per
          PROVE  [cause |-> c[i].lower, consequence |-> q[j].lower] \in Range(P)
      <3>1. PICK n \in 1 .. K : row(n) = i /\ col(n) = j
        BY <1>4
      <3> QED
        BY <1>1, <3>1 DEF Range
    <2>3. Range(P) \subseteq Pairs
      <3> HIDE DEF Pairs
      <3>1. DOMAIN P = 1 .. K
        BY <1>1
      <3> QED
        BY <2>1, <3>1 DEF Range
    <2>4. Pairs \subseteq Range(P)
      BY <2>2
    <2> QED
      BY <2>3, <2>4
  <1>7. Len(P) = K /\ DOMAIN P = 1 .. K
    BY <1>1, <1>2
  <1>8. Cardinality(Range(P)) = K
    <2>1. P = [n \in 1 .. K |-> P[n]] /\ \A n \in 1 .. K : P[n] \in Range(P)
      BY <1>1 DEF Range
    <2>2. P \in [1 .. K -> Range(P)]
      BY <2>1
    <2>3. \A y \in Range(P) : \E n \in 1 .. K : P[n] = y
      BY <1>7 DEF Range
    <2>4. P \in Injection(1 .. K, Range(P))
      BY <1>5, <2>2 DEF Injection
    <2>5. P \in Surjection(1 .. K, Range(P))
      BY <2>2, <2>3 DEF Surjection
    <2> HIDE DEF count, per, Pairs
    <2>6. IsFiniteSet(1 .. K) /\ Cardinality(1 .. K) = K
      <3>1. K \in Nat
        BY <1>2
      <3> QED
        BY <3>1, CountUpTo, Zenon
    <2>7. Cardinality(Range(P)) = Cardinality(1 .. K)
      BY <2>4, <2>5, <2>6, FS_Surjection
    <2> QED
      BY <2>6, <2>7
  <1>9. P # <<>>
    <2>1. \E n \in 1 .. K : TRUE
      <3>1. 1 \in 1 .. count /\ 1 \in 1 .. per
        BY <1>2
      <3> QED
        BY <1>4, <3>1
    <2> QED
      BY <1>2, <1>7, <2>1
  <1> QED
    BY <1>2, <1>6, <1>7, <1>8, <1>9 DEF P

-----------------------------------------------------------------------------
(* The evaluation of a list *)

\* A layer of the snapshot and the row it was frozen from.
Same(a, g) == a.id = g.id /\ a.key = g.key /\ a.effectiveness = g.effectiveness

\* What counts of a list, by the model's own predicate.
Counted(list, t) ==
    {g \in Range(list) : g.key # Blank /\ IsEffectiveAt(g, t - (t % TicksPerSecond))}

\* Rows and layers of the snapshot correspond, and the eligible layers are
\* those of the rows that count.
LEMMA SnapshotRows ==
    ASSUME NEW list \in Seq(Plain), DistinctIds(list), NEW t \in Nat
    PROVE  LET s == NewSnapshot(list, t).safeguards
               E == EligibleIn(s, Truncate(t))
           IN /\ E \subseteq DOMAIN s
              /\ \A i \in DOMAIN s : \E g \in Range(list) :
                    Same(s[i], g) /\ (i \in E <=> g \in Counted(list, t))
              /\ \A g \in Range(list) : \E i \in DOMAIN s :
                    Same(s[i], g) /\ (i \in E <=> g \in Counted(list, t))
              /\ \A g, h \in Range(list) : g.id = h.id => g = h
              /\ \A g \in Range(list) : g \in Plain
  <1> DEFINE s == NewSnapshot(list, t).safeguards
             E == EligibleIn(s, Truncate(t))
  <1>1. /\ s \in Seq(Plain) /\ Range(s) = {Frozen(g) : g \in Range(list)}
    BY SnapshotLists
  <1> HIDE DEF s
  <1>2. \A g \in Range(list) : g \in Plain
    BY PlainFields DEF Range
  <1>3. \A g, h \in Range(list) : g.id = h.id => g = h
    BY DEF Range, DistinctIds
  <1>4. ASSUME NEW i \in DOMAIN s, NEW g \in Range(list), s[i] = Frozen(g)
        PROVE  Same(s[i], g) /\ (i \in E <=> g \in Counted(list, t))
    <2>1. Same(s[i], g)
      BY <1>2, <1>4, FrozenFields DEF Same
    <2>2. Eligible(s[i], Truncate(t)) <=>
             g.key # Blank /\ IsEffectiveAt(g, t - (t % TicksPerSecond))
      BY <1>2, <1>4, EligibleFrozen
    <2> QED
      BY <2>1, <2>2 DEF EligibleIn, Counted
  <1>5. \A i \in DOMAIN s : \E g \in Range(list) : s[i] = Frozen(g)
    BY <1>1 DEF Range
  <1>6. \A g \in Range(list) : \E i \in DOMAIN s : s[i] = Frozen(g)
    BY <1>1 DEF Range
  <1>7. E \subseteq DOMAIN s
    BY DEF EligibleIn
  <1> HIDE DEF E
  <1>8. \A i \in DOMAIN s : \E g \in Range(list) :
           Same(s[i], g) /\ (i \in E <=> g \in Counted(list, t))
    BY <1>4, <1>5
  <1>9. \A g \in Range(list) : \E i \in DOMAIN s :
           Same(s[i], g) /\ (i \in E <=> g \in Counted(list, t))
    BY <1>4, <1>6
  <1> QED
    BY <1>2, <1>3, <1>7, <1>8, <1>9 DEF s, E

\* What a result says of the layers s of the snapshot, E of which are
\* eligible: b is what it retains.
Accounts(res, s, E, b) ==
    /\ Picks(s, E, b)
    /\ res.retained = [i \in 1 .. Len(b) |-> s[b[i]].id]
    /\ res.remaining = Remaining([i \in 1 .. Len(b) |-> s[b[i]]])
    /\ UNION {Range(d.ignored) : d \in Range(res.deduplicated)} =
          {s[j].id : j \in E \ {b[i] : i \in 1 .. Len(b)}}
    /\ \A d \in Range(res.deduplicated) : \E i \in 1 .. Len(b) : d.kept = s[b[i]].id
    /\ IsInjective(res.rejected)
    /\ Range(res.rejected) = {s[j].id : j \in DOMAIN s \ E}

\* An evaluation accounts for the layers of its snapshot.
LEMMA Evaluated ==
    ASSUME NEW list \in Seq(Plain), DistinctIds(list), NEW t \in Nat, NEW ct, NEW qt
    PROVE  LET s == NewSnapshot(list, t).safeguards IN
           /\ s \in Seq(Plain) /\ DistinctIds(s)
           /\ \E b : Accounts(Evaluate(NewSnapshot(list, t), ct, qt), s,
                              EligibleIn(s, Truncate(t)), b)
  <1> DEFINE s == NewSnapshot(list, t).safeguards
             E == EligibleIn(s, Truncate(t))
             ind == ResolveIndependence(s, Truncate(t))
             res == Evaluate(NewSnapshot(list, t), ct, qt)
  <1>1. s \in Seq(Plain) /\ DistinctIds(s)
    BY SnapshotLists
  <1>2. /\ res.retained = IdsOf(ind.retained) /\ res.deduplicated = ind.deduplicated
        /\ res.rejected = ind.rejected /\ res.remaining = Remaining(ind.retained)
    <2>1. NewSnapshot(list, t).reference = Truncate(t)
      BY DEF NewSnapshot
    <2> QED
      BY <2>1 DEF Evaluate
  <1> HIDE DEF s
  <1>3. /\ \E b : /\ Picks(s, E, b)
                  /\ ind.retained = [i \in 1 .. Len(b) |-> s[b[i]]]
                  /\ UNION {Range(d.ignored) : d \in Range(ind.deduplicated)} =
                        {s[j].id : j \in E \ {b[i] : i \in 1 .. Len(b)}}
                  /\ \A d \in Range(ind.deduplicated) :
                        \E i \in 1 .. Len(b) : d.kept = s[b[i]].id
        /\ IsInjective(ind.rejected)
        /\ Range(ind.rejected) = {s[j].id : j \in DOMAIN s \ E}
    BY <1>1, Resolved
  <1> HIDE DEF ind, res, E
  <1>4. PICK b : /\ Picks(s, E, b)
                 /\ ind.retained = [i \in 1 .. Len(b) |-> s[b[i]]]
                 /\ UNION {Range(d.ignored) : d \in Range(ind.deduplicated)} =
                       {s[j].id : j \in E \ {b[i] : i \in 1 .. Len(b)}}
                 /\ \A d \in Range(ind.deduplicated) :
                       \E i \in 1 .. Len(b) : d.kept = s[b[i]].id
    BY <1>3
  <1>5. res.retained = [i \in 1 .. Len(b) |-> s[b[i]].id]
    BY <1>2, <1>4 DEF IdsOf
  <1>6. Accounts(res, s, E, b)
    BY <1>2, <1>3, <1>4, <1>5 DEF Accounts
  <1> QED
    BY <1>1, <1>6 DEF s, E, res

-----------------------------------------------------------------------------
(* The inductive invariant *)

\* The layers of the model are such.
LEMMA LayersArePlain == Layers \subseteq Plain
  BY ScoringAssumption DEF Layers, Plain

\* The empty list is evaluated at the start.
LEMMA InitIInv == Init => IInv
  <1> SUFFICES ASSUME Init PROVE IInv
    OBVIOUS
  <1>1. rows = <<>> /\ rows \in Seq(Layers) /\ Len(rows) = 0 /\ DOMAIN rows = {}
    BY DEF Init
  <1>2. Len(rows) <= MaxRows
    BY <1>1, ScoringAssumption
  <1> QED
    BY <1>1, <1>2 DEF Init, IInv

\* Each step adds a layer with a new id and evaluates the longer list.
LEMMA NextIInv == IInv /\ [Next]_vars => IInv'
  <1> SUFFICES ASSUME IInv, [Next]_vars PROVE IInv'
    OBVIOUS
  <1>1. ASSUME NEW layer \in Layers, Evaluation(layer) PROVE IInv'
    <2>1. /\ rows \in Seq(Layers) /\ Len(rows) < MaxRows
          /\ layer.id \notin {g.id : g \in Range(rows)}
          /\ rows' = Append(rows, layer)
          /\ result' = Evaluate(NewSnapshot(rows', now), cause, consequence)
          /\ UNCHANGED <<cause, consequence, now>>
      BY <1>1 DEF Evaluation, IInv
    <2> DEFINE N == Len(rows)
    <2>2. N \in Nat /\ DOMAIN rows = 1 .. N /\ \A i \in 1 .. N : rows[i] \in Layers
      BY <2>1, LenProperties, ElementOfSeq
    <2>3. /\ rows' \in Seq(Layers) /\ Len(rows') = N + 1 /\ DOMAIN rows' = 1 .. N + 1
          /\ \A i \in 1 .. N : rows'[i] = rows[i]
          /\ rows'[N + 1] = layer
      BY <2>1, <2>2
    <2>4. Len(rows') <= MaxRows
      BY <2>1, <2>2, <2>3, ScoringAssumption
    <2>5. \A i \in 1 .. N : rows[i].id # layer.id
      BY <2>1, <2>2 DEF Range
    <2>6. \A i, j \in 1 .. N : rows[i].id = rows[j].id => i = j
      BY <2>2 DEF IInv
    <2>7. ASSUME NEW i \in 1 .. N + 1, NEW j \in 1 .. N + 1, rows'[i].id = rows'[j].id
          PROVE  i = j
      <3>1. CASE i = N + 1 /\ j = N + 1
        BY <3>1
      <3>2. CASE i = N + 1 /\ j \in 1 .. N
        BY <2>3, <2>5, <2>7, <3>2
      <3>3. CASE i \in 1 .. N /\ j = N + 1
        BY <2>3, <2>5, <2>7, <3>3
      <3>4. CASE i \in 1 .. N /\ j \in 1 .. N
        BY <2>3, <2>6, <2>7, <3>4
      <3> QED
        BY <2>2, <3>1, <3>2, <3>3, <3>4
    <2>8. \A i, j \in DOMAIN rows' : rows'[i].id = rows'[j].id => i = j
      BY <2>3, <2>7
    <2>9. (cause \in Texts /\ consequence \in Texts /\ now \in Times)'
      BY <2>1 DEF IInv
    <2>10. result' = Evaluate(NewSnapshot(rows', now'), cause', consequence')
      BY <2>1
    <2> QED
      BY <2>3, <2>4, <2>8, <2>9, <2>10 DEF IInv
  <1>2. CASE UNCHANGED vars
    BY <1>2 DEF IInv, vars
  <1> QED
    BY <1>1, <1>2 DEF Next

\* In every state the rows have distinct ids and the result is theirs.
THEOREM Invariance == Spec => []IInv
  BY InitIInv, NextIInv, PTL DEF Spec

\* The rows of a state as the lemmas need them.
LEMMA RowsPlain ==
    ASSUME IInv
    PROVE  /\ rows \in Seq(Plain) /\ DistinctIds(rows) /\ now \in Nat
           /\ cause \in Seq(Statements) /\ consequence \in Seq(Statements)
           /\ Range(rows) \subseteq Layers
  <1>1. rows \in Seq(Plain)
    BY LayersArePlain, SeqMonotonic DEF IInv
  <1>2. Range(rows) \subseteq Layers
    <2>1. rows \in Seq(Layers)
      BY DEF IInv
    <2> QED
      BY <2>1, LenProperties, ElementOfSeq DEF Range
  <1> QED
    BY <1>1, <1>2, ScoringAssumption DEF IInv, DistinctIds

\* s is the snapshot of the rows, E its eligible layers and b those retained.
ScoredAs(s, E, b) ==
    /\ s \in Seq(Plain) /\ DistinctIds(s) /\ E \subseteq DOMAIN s
    /\ Accounts(result, s, E, b)
    /\ \A i \in DOMAIN s : \E g \in Present : Same(s[i], g) /\ (i \in E <=> g \in Countable)
    /\ \A g \in Present : \E i \in DOMAIN s : Same(s[i], g) /\ (i \in E <=> g \in Countable)

\* In every state there are such s, E and b, and a layer is known by its id.
LEMMA Scored ==
    ASSUME IInv
    PROVE  /\ \E s, E, b : ScoredAs(s, E, b)
           /\ \A g, h \in Present : g.id = h.id => g = h
           /\ \A g \in Present : g \in Plain
  <1> DEFINE s == NewSnapshot(rows, now).safeguards
             E == EligibleIn(s, Truncate(now))
  <1>1. rows \in Seq(Plain) /\ DistinctIds(rows) /\ now \in Nat
    BY RowsPlain
  <1>2. result = Evaluate(NewSnapshot(rows, now), cause, consequence)
    BY DEF IInv
  <1>3. Countable = Counted(rows, now) /\ Present = Range(rows)
    BY DEF Countable, Counted, Present
  <1>4. /\ s \in Seq(Plain) /\ DistinctIds(s)
        /\ \E b : Accounts(result, s, E, b)
    BY <1>1, <1>2, Evaluated
  <1>5. /\ E \subseteq DOMAIN s
        /\ \A i \in DOMAIN s : \E g \in Range(rows) :
              Same(s[i], g) /\ (i \in E <=> g \in Counted(rows, now))
        /\ \A g \in Range(rows) : \E i \in DOMAIN s :
              Same(s[i], g) /\ (i \in E <=> g \in Counted(rows, now))
        /\ \A g, h \in Range(rows) : g.id = h.id => g = h
        /\ \A g \in Range(rows) : g \in Plain
    BY <1>1, SnapshotRows
  <1> HIDE DEF s, E
  <1>6. PICK b : Accounts(result, s, E, b)
    BY <1>4
  <1>7. ScoredAs(s, E, b)
    BY <1>3, <1>4, <1>5, <1>6 DEF ScoredAs
  <1> QED
    BY <1>3, <1>5, <1>7

-----------------------------------------------------------------------------
(* Who counts *)

\* The list of retained ids, and b, have nothing twice.
LEMMA RetainedOnce ==
    ASSUME NEW s, NEW E, NEW b, ScoredAs(s, E, b)
    PROVE  /\ Len(b) \in Nat /\ b \in [1 .. Len(b) -> E]
           /\ \A i, j \in 1 .. Len(b) : s[b[i]].key = s[b[j]].key => i = j
           /\ IsInjective(result.retained)
           /\ Range(result.retained) = {s[b[i]].id : i \in 1 .. Len(b)}
  <1>1. /\ Len(b) \in Nat /\ b \in [1 .. Len(b) -> E] /\ E \subseteq DOMAIN s
        /\ \A i, j \in 1 .. Len(b) : i < j => s[b[i]].key < s[b[j]].key
        /\ result.retained = [i \in 1 .. Len(b) |-> s[b[i]].id]
    BY DEF ScoredAs, Accounts, Picks
  <1>2. ASSUME NEW i \in 1 .. Len(b), NEW j \in 1 .. Len(b), s[b[i]].key = s[b[j]].key
        PROVE  i = j
    <2>1. b[i] \in DOMAIN s /\ b[j] \in DOMAIN s
      BY <1>1
    <2>2. s[b[i]].key \in Nat /\ s[b[j]].key \in Nat
      BY <2>1, PlainFields DEF ScoredAs
    <2>3. ~(i < j) /\ ~(j < i)
      BY <1>1, <1>2, <2>2
    <2> QED
      BY <1>1, <2>3
  <1>3. IsInjective(result.retained)
    <2> SUFFICES ASSUME NEW i \in 1 .. Len(b), NEW j \in 1 .. Len(b),
                        s[b[i]].id = s[b[j]].id
                 PROVE  i = j
      BY <1>1 DEF IsInjective
    <2>1. b[i] \in DOMAIN s /\ b[j] \in DOMAIN s
      BY <1>1
    <2>2. b[i] = b[j]
      BY <2>1 DEF ScoredAs, DistinctIds
    <2> QED
      BY <1>2, <2>2
  <1>4. Range(result.retained) = {s[b[i]].id : i \in 1 .. Len(b)}
    BY <1>1 DEF Range
  <1> QED
    BY <1>1, <1>2, <1>3, <1>4

\* What is retained, as a list of layers, ascends in the keys.
LEMMA PickedList ==
    ASSUME NEW s \in Seq(Plain), NEW E \in SUBSET DOMAIN s, NEW b, Picks(s, E, b)
    PROVE  LET retained == [i \in 1 .. Len(b) |-> s[b[i]]] IN
           /\ retained \in Seq(Plain) /\ KeysRise(retained)
           /\ Len(retained) = Len(b) /\ DOMAIN retained = 1 .. Len(b)
  <1> DEFINE retained == [i \in 1 .. Len(b) |-> s[b[i]]]
  <1>1. /\ Len(b) \in Nat /\ b \in [1 .. Len(b) -> E]
        /\ \A i, j \in 1 .. Len(b) : i < j => s[b[i]].key < s[b[j]].key
    BY DEF Picks
  <1>2. \A i \in 1 .. Len(b) : s[b[i]] \in Plain
    BY <1>1, PlainFields
  <1>3. retained \in [1 .. Len(b) -> Plain] /\ DOMAIN retained = 1 .. Len(b)
    BY <1>2
  <1>4. retained \in Seq(Plain) /\ Len(retained) = Len(b)
    BY <1>1, <1>3
  <1>5. KeysRise(retained)
    BY <1>1, <1>3 DEF KeysRise
  <1> QED
    BY <1>3, <1>4, <1>5

\* What a list of layers lets through is part of Whole.
LEMMA RemainingBounded ==
    ASSUME NEW s, NEW E, NEW b, ScoredAs(s, E, b)
    PROVE  /\ result.remaining \in 0 .. Whole
           /\ Len(b) = 0 => result.remaining = Whole
  <1> DEFINE retained == [i \in 1 .. Len(b) |-> s[b[i]]]
  <1>1. /\ s \in Seq(Plain) /\ E \in SUBSET DOMAIN s /\ Picks(s, E, b)
        /\ result.remaining = Remaining(retained)
    BY DEF ScoredAs, Accounts
  <1>2. /\ retained \in Seq(Plain) /\ KeysRise(retained) /\ DOMAIN retained = 1 .. Len(b)
    BY <1>1, PickedList
  <1> HIDE DEF retained
  <1>3. PICK o, f : /\ o \in Seq(Plain) /\ Range(o) = Range(retained)
                    /\ PassesThrough(f, o) /\ Remaining(retained) = f[Len(o)]
    BY <1>2, RemainingPasses
  <1>4. Len(o) \in Nat /\ DOMAIN o = 1 .. Len(o)
    BY <1>3, LenProperties
  <1>5. f \in [0 .. Len(o) -> 0 .. Whole] /\ f[0] = Whole
    BY <1>3 DEF PassesThrough
  <1>6. result.remaining \in 0 .. Whole
    BY <1>1, <1>3, <1>4, <1>5
  <1>7. ASSUME Len(b) = 0 PROVE result.remaining = Whole
    <2>1. Range(retained) = {}
      BY <1>2, <1>7 DEF Range
    <2>2. Len(o) = 0
      <3> SUFFICES ASSUME Len(o) # 0 PROVE FALSE
        OBVIOUS
      <3>1. o[1] \in Range(o)
        BY <1>4 DEF Range
      <3> QED
        BY <1>3, <2>1, <3>1
    <2> QED
      BY <1>1, <1>3, <1>5, <2>2
  <1> QED
    BY <1>6, <1>7

\* The type invariant follows from the accounting.
LEMMA TypeHolds == IInv => TypeOK
  <1> SUFFICES ASSUME IInv PROVE TypeOK
    OBVIOUS
  <1>1. PICK s, E, b : ScoredAs(s, E, b)
    BY Scored
  <1>2. \A i \in DOMAIN s : s[i].id \in Ids
    <2> SUFFICES ASSUME NEW i \in DOMAIN s PROVE s[i].id \in Ids
      OBVIOUS
    <2>1. PICK g \in Present : s[i].id = g.id
      BY <1>1 DEF ScoredAs, Same
    <2>2. g \in Layers
      BY RowsPlain DEF Present
    <2> QED
      BY <2>1, <2>2 DEF Layers
  <1>3. /\ Len(b) \in Nat /\ b \in [1 .. Len(b) -> E] /\ E \subseteq DOMAIN s
        /\ IsInjective(result.retained)
        /\ Range(result.retained) = {s[b[i]].id : i \in 1 .. Len(b)}
    BY <1>1, RetainedOnce DEF ScoredAs
  <1>4. Range(result.retained) \subseteq Ids
    BY <1>2, <1>3
  <1>5. /\ IsInjective(result.rejected)
        /\ Range(result.rejected) = {s[j].id : j \in DOMAIN s \ E}
    BY <1>1 DEF ScoredAs, Accounts
  <1>6. Range(result.rejected) \subseteq Ids
    BY <1>2, <1>5
  <1>7. result.remaining \in 0 .. Whole
    BY <1>1, RemainingBounded
  <1> QED
    BY <1>3, <1>4, <1>5, <1>6, <1>7 DEF TypeOK, IInv

\* Results are well formed for every list of layers: nothing is retained or
\* rejected twice, and the remaining probability is a part of Whole.
THEOREM TypeCorrectness == Spec => []TypeOK
  BY Invariance, TypeHolds, PTL

\* What is retained, ignored and rejected are three parts of the snapshot.
LEMMA AccountedHolds == IInv => EveryLayerAccounted
  <1> SUFFICES ASSUME IInv PROVE EveryLayerAccounted
    OBVIOUS
  <1>1. PICK s, E, b : ScoredAs(s, E, b)
    BY Scored
  <1> DEFINE B == {b[i] : i \in 1 .. Len(b)}
             Kept == {s[j].id : j \in B}
             Lost == {s[j].id : j \in E \ B}
             Out == {s[j].id : j \in DOMAIN s \ E}
  <1>2. /\ b \in [1 .. Len(b) -> E] /\ E \subseteq DOMAIN s
        /\ Range(result.retained) = {s[b[i]].id : i \in 1 .. Len(b)}
    BY <1>1, RetainedOnce DEF ScoredAs
  <1>3. B \subseteq E
    BY <1>2
  <1>4. Range(result.retained) = Kept
    BY <1>2
  <1>5. Ignored = Lost
    BY <1>1 DEF ScoredAs, Accounts, Ignored
  <1>6. Range(result.rejected) = Out
    BY <1>1 DEF ScoredAs, Accounts
  <1>7. {g.id : g \in Present} = {s[j].id : j \in DOMAIN s}
    <2>1. \A g \in Present : \E j \in DOMAIN s : g.id = s[j].id
      BY <1>1 DEF ScoredAs, Same
    <2>2. \A j \in DOMAIN s : \E g \in Present : g.id = s[j].id
      BY <1>1 DEF ScoredAs, Same
    <2> QED
      BY <2>1, <2>2
  <1>8. \A i, j \in DOMAIN s : s[i].id = s[j].id => i = j
    BY <1>1 DEF ScoredAs, DistinctIds
  <1> HIDE DEF B
  <1>9. {g.id : g \in Present} = Kept \cup Lost \cup Out
    BY <1>2, <1>3, <1>7
  <1>10. Kept \cap Lost = {} /\ Out \cap (Kept \cup Lost) = {}
    BY <1>2, <1>3, <1>8
  <1>11. \A d \in Range(result.deduplicated) : d.kept \in Range(result.retained)
    BY <1>1, <1>2 DEF ScoredAs, Accounts
  <1> HIDE DEF Kept, Lost, Out
  <1> QED
    BY <1>4, <1>5, <1>6, <1>9, <1>10, <1>11 DEF EveryLayerAccounted

\* Every layer counts, is named as a duplicate or is rejected, and is only one
\* of the three.
THEOREM LayersAreAccounted == Spec => []EveryLayerAccounted
  BY Invariance, AccountedHolds, PTL

\* The rejected are those of the snapshot that are not eligible.
LEMMA RejectionHolds == IInv => RejectsTheIneffective
  <1> SUFFICES ASSUME IInv PROVE RejectsTheIneffective
    OBVIOUS
  <1>1. PICK s, E, b : ScoredAs(s, E, b)
    BY Scored
  <1>2. Range(result.rejected) = {s[j].id : j \in DOMAIN s \ E}
    BY <1>1 DEF ScoredAs, Accounts
  <1>3. \A i \in DOMAIN s \ E : \E g \in Present \ Countable : s[i].id = g.id
    BY <1>1 DEF ScoredAs, Same
  <1>4. \A g \in Present \ Countable : \E i \in DOMAIN s \ E : s[i].id = g.id
    BY <1>1 DEF ScoredAs, Same
  <1> QED
    BY <1>2, <1>3, <1>4 DEF RejectsTheIneffective

\* The scoring rejects what the model's predicate calls ineffective, and
\* nothing else.
THEOREM TheIneffectiveAreRejected == Spec => []RejectsTheIneffective
  BY Invariance, RejectionHolds, PTL

\* The retained layer of a key is the one that no other is stronger than.
LEMMA ContributionHolds == IInv => OneContributionPerKey
  <1> SUFFICES ASSUME IInv PROVE OneContributionPerKey
    OBVIOUS
  <1> DEFINE Winners == {h \in Countable :
                \A other \in Countable \ {h} : other.key = h.key =>
                   \/ other.effectiveness < h.effectiveness
                   \/ other.effectiveness = h.effectiveness /\ other.id > h.id}
  <1>1. PICK s, E, b : ScoredAs(s, E, b)
    BY Scored
  <1>2. /\ Len(b) \in Nat /\ b \in [1 .. Len(b) -> E] /\ E \subseteq DOMAIN s
        /\ \A j \in E : \E i \in 1 .. Len(b) : s[j].key = s[b[i]].key
        /\ \A i \in 1 .. Len(b) : \A j \in E \ {b[i]} :
              s[j].key = s[b[i]].key => Weaker(s[j], s[b[i]])
    BY <1>1 DEF ScoredAs, Accounts, Picks
  <1>3. Range(result.retained) = {s[b[i]].id : i \in 1 .. Len(b)}
    BY <1>1, RetainedOnce
  <1>4. /\ \A i \in E : \E g \in Countable : Same(s[i], g)
        /\ \A g \in Countable : \E i \in E : Same(s[i], g)
    BY <1>1, <1>2 DEF ScoredAs, Countable
  <1>5. /\ \A g, h \in Countable : g.id = h.id => g = h
        /\ \A g \in Countable : /\ g.id \in Nat /\ g.effectiveness \in Nat
    <2>1. \A g \in Countable : g \in Present
      BY DEF Countable
    <2>2. \A g \in Plain : g.id \in Nat /\ g.effectiveness \in Nat
      BY ScoringAssumption DEF Plain
    <2> QED
      BY <2>1, <2>2, Scored
  <1>6. ASSUME NEW i \in 1 .. Len(b) PROVE \E g \in Winners : g.id = s[b[i]].id
    <2>1. b[i] \in E
      BY <1>2
    <2>2. PICK g \in Countable : Same(s[b[i]], g)
      BY <1>4, <2>1
    <2>3. ASSUME NEW other \in Countable \ {g}, other.key = g.key
          PROVE  \/ other.effectiveness < g.effectiveness
                 \/ other.effectiveness = g.effectiveness /\ other.id > g.id
      <3>1. PICK j \in E : Same(s[j], other)
        BY <1>4
      <3>2. j # b[i]
        BY <1>5, <2>2, <2>3, <3>1 DEF Same
      <3>3. Weaker(s[j], s[b[i]])
        BY <1>2, <2>2, <2>3, <3>1, <3>2 DEF Same
      <3> QED
        BY <2>2, <3>1, <3>3 DEF Same, Weaker
    <2>4. g \in Winners
      BY <2>3
    <2> QED
      BY <2>2, <2>4 DEF Same
  <1>7. ASSUME NEW g \in Winners PROVE \E i \in 1 .. Len(b) : g.id = s[b[i]].id
    <2>1. g \in Countable
      OBVIOUS
    <2>2. PICK j \in E : Same(s[j], g)
      BY <1>4, <2>1
    <2>3. PICK i \in 1 .. Len(b) : s[j].key = s[b[i]].key
      BY <1>2
    <2>4. b[i] \in E
      BY <1>2
    <2>5. CASE j = b[i]
      BY <2>2, <2>5 DEF Same
    <2>6. CASE j # b[i]
      <3>1. Weaker(s[j], s[b[i]])
        BY <1>2, <2>3, <2>6
      <3>2. PICK h \in Countable : Same(s[b[i]], h)
        BY <1>4, <2>4
      <3>3. g # h
        <4>1. s[j].id # s[b[i]].id
          BY <1>1, <1>2, <2>4, <2>6 DEF ScoredAs, DistinctIds
        <4> QED
          BY <2>2, <3>2, <4>1 DEF Same
      <3>4. h.key = g.key
        BY <2>2, <2>3, <3>2 DEF Same
      <3>5. \/ h.effectiveness < g.effectiveness
            \/ h.effectiveness = g.effectiveness /\ h.id > g.id
        BY <1>7, <3>3, <3>4
      <3>6. \/ g.effectiveness < h.effectiveness
            \/ g.effectiveness = h.effectiveness /\ g.id > h.id
        BY <2>2, <3>1, <3>2 DEF Same, Weaker
      <3> QED
        BY <1>5, <2>1, <3>5, <3>6
    <2> QED
      BY <2>5, <2>6
  <1>8. Range(result.retained) = {g.id : g \in Winners}
    <2> HIDE DEF Winners
    <2> QED
      BY <1>3, <1>6, <1>7
  <1> QED
    BY <1>8 DEF OneContributionPerKey

\* Each key contributes once, by its strongest layer.
THEOREM OnePerKey == Spec => []OneContributionPerKey
  BY Invariance, ContributionHolds, PTL

-----------------------------------------------------------------------------
(* Paths and the residual risk *)

\* The numbering of the pairs carries over to the states.
LEMMA PathsHold == IInv => UncoveredPathsReported
  <1> SUFFICES ASSUME IInv PROVE UncoveredPathsReported
    OBVIOUS
  <1> DEFINE c == SplitStatements(cause)
             q == SplitStatements(consequence)
             P == Paths(c, q)
  <1>1. cause \in Seq(Statements) /\ consequence \in Seq(Statements)
    BY RowsPlain
  <1>2. /\ Len(c) \in Nat \ {0}
        /\ \A i, j \in 1 .. Len(c) : c[i].lower = c[j].lower => i = j
        /\ {c[i].lower : i \in 1 .. Len(c)} = Said(cause)
    BY <1>1, StatementsOnce
  <1>3. /\ Len(q) \in Nat \ {0}
        /\ \A i, j \in 1 .. Len(q) : q[i].lower = q[j].lower => i = j
        /\ {q[j].lower : j \in 1 .. Len(q)} = Said(consequence)
    BY <1>1, StatementsOnce
  <1>4. /\ result.paths = P
        /\ result.uncovered = UncoveredPaths(P, result.remaining)
    BY DEF IInv, Evaluate
  <1> HIDE DEF c, q
  <1>5. /\ P # <<>> /\ Len(P) = Cardinality(Range(P))
        /\ Range(P) = {[cause |-> a, consequence |-> d] :
                         a \in {c[i].lower : i \in 1 .. Len(c)},
                         d \in {q[j].lower : j \in 1 .. Len(q)}}
    BY <1>2, <1>3, PathsOnce
  <1>6. Range(P) = {[cause |-> a, consequence |-> d] : a \in Said(cause), d \in Said(consequence)}
    BY <1>2, <1>3, <1>5
  <1> HIDE DEF P
  <1>7. result.uncovered = IF 2 * result.remaining <= Whole THEN <<>> ELSE result.paths
    BY <1>4 DEF UncoveredPaths, Covered
  <1>8. ASSUME Countable = {} PROVE result.uncovered = result.paths
    <2>1. PICK s, E, b : ScoredAs(s, E, b)
      BY Scored
    <2>2. /\ Len(b) \in Nat /\ b \in [1 .. Len(b) -> E] /\ E \subseteq DOMAIN s
          /\ \A i \in DOMAIN s : i \notin E
      BY <1>8, <2>1, RetainedOnce DEF ScoredAs
    <2>3. Len(b) = 0
      <3> SUFFICES ASSUME Len(b) # 0 PROVE FALSE
        OBVIOUS
      <3>1. b[1] \in E
        BY <2>2
      <3> QED
        BY <2>2, <3>1
    <2>4. result.remaining = Whole
      BY <2>1, <2>3, RemainingBounded
    <2> QED
      BY <1>7, <2>4, ScoringAssumption
  <1> QED
    BY <1>4, <1>5, <1>6, <1>7, <1>8 DEF UncoveredPathsReported

\* Each pair of a cause and a consequence is one path, uncovered when the
\* layers stop less than half.
THEOREM PathsAreReported == Spec => []UncoveredPathsReported
  BY Invariance, PathsHold, PTL

\* Rounding up goes to the next multiple, and stays on one.
LEMMA CeilDivRoundsUp ==
    ASSUME NEW a \in Nat, NEW w \in Nat \ {0}
    PROVE  LET k == CeilDiv(a, w) IN
           /\ k \in Nat /\ k * w \in Nat
           /\ a <= k * w /\ k * w < a + w
           /\ a % w = 0 => k * w = a
  <1> DEFINE k == CeilDiv(a, w)
             x == a + w - 1
  <1>1. x \in Nat
    OBVIOUS
  <1>2. k = x \div w
    BY DEF CeilDiv
  <1> HIDE DEF x, k
  <1>3. k \in Nat /\ k * w \in Nat /\ k * w <= x /\ x < k * w + w
    BY <1>1, <1>2
  <1>4. a <= k * w /\ k * w < a + w
    BY <1>3 DEF x
  <1>5. ASSUME a % w = 0 PROVE k * w = a
    <2> DEFINE m == a \div w
    <2>1. m \in Nat /\ a = m * w
      BY <1>5, Division
    <2> HIDE DEF m
    <2>2. ~(k <= m - 1)
      <3> SUFFICES ASSUME k <= m - 1 PROVE FALSE
        OBVIOUS
      <3>1. k + 1 \in Nat /\ k + 1 <= m
        BY <1>3, <2>1
      <3>2. (k + 1) * w <= m * w
        BY <2>1, <3>1, TimesMonotone
      <3>3. (k + 1) * w = k * w + w
        BY <1>3
      <3>4. a + w <= a
        BY <1>4, <2>1, <3>2, <3>3, <1>3
      <3> QED
        BY <3>4
    <2>3. ~(m + 1 <= k)
      <3> SUFFICES ASSUME m + 1 <= k PROVE FALSE
        OBVIOUS
      <3>1. (m + 1) * w <= k * w
        BY <1>3, <2>1, TimesMonotone
      <3>2. (m + 1) * w = m * w + w
        BY <2>1
      <3> QED
        BY <1>3, <1>4, <2>1, <3>1, <3>2
    <2>4. k = m
      BY <1>3, <2>1, <2>2, <2>3
    <2> QED
      BY <2>1, <2>4
  <1> QED
    BY <1>3, <1>4, <1>5 DEF k

\* What is less as a multiple is less.
LEMMA TimesCancel ==
    ASSUME NEW x \in Nat, NEW y \in Nat, NEW w \in Nat, x * w < y * w
    PROVE  x < y
  <1> SUFFICES ASSUME y <= x PROVE FALSE
    OBVIOUS
  <1>1. y * w <= x * w
    BY TimesMonotone
  <1> QED
    BY <1>1

\* A residual risk is between 1 and the initial one, not less than what
\* remains of it, and at most one more than that rounded up.
LEMMA ResidualBounds ==
    ASSUME NEW initial \in Nat \ {0}, NEW remaining \in 0 .. Whole,
           NEW x \in Residuals(initial, remaining)
    PROVE  /\ x \in 1 .. initial
           /\ x * Whole >= initial * remaining
           /\ x > 1 => (x - 2) * Whole < initial * remaining
  <1> DEFINE w == Whole
             a == initial * remaining
             k == CeilDiv(a, w)
  <1>1. w \in Nat \ {0} /\ remaining \in Nat /\ remaining <= w /\ initial \in Nat
    BY ScoringAssumption
  <1>2. a \in Nat /\ initial * w \in Nat
    BY <1>1
  <1>3. \/ x = AtLeastOne(k)
        \/ x = k + 1 /\ remaining \in 1 .. w - 1 /\ a % w = 0
    BY DEF Residuals
  <1> HIDE DEF a, w, k
  <1>4. /\ k \in Nat /\ k * w \in Nat
        /\ a <= k * w /\ k * w < a + w
        /\ a % w = 0 => k * w = a
    BY <1>1, <1>2, CeilDivRoundsUp DEF k
  <1>5. a <= initial * w
    BY <1>1, TimesMonotone DEF a
  <1>6. CASE x = AtLeastOne(k) /\ k >= 1
    <2>1. x = k
      BY <1>4, <1>6 DEF AtLeastOne
    <2>2. k - 1 \in Nat /\ (k - 1) * w = k * w - w
      BY <1>1, <1>4, <1>6
    <2>3. (k - 1) * w < initial * w
      BY <1>1, <1>2, <1>4, <1>5, <2>2
    <2>4. k - 1 < initial
      BY <1>1, <2>2, <2>3, TimesCancel
    <2>5. (x - 2) * w = k * w - w - w
      BY <1>1, <1>4, <2>1
    <2>6. x * w >= a /\ (x - 2) * w < a
      BY <1>1, <1>2, <1>4, <2>1, <2>5
    <2>7. x \in 1 .. initial
      BY <1>1, <1>4, <1>6, <2>1, <2>4
    <2> QED
      BY <2>6, <2>7 DEF a, w
  <1>7. CASE x = AtLeastOne(k) /\ k = 0
    <2>1. x = 1
      BY <1>7 DEF AtLeastOne
    <2>2. a = 0
      BY <1>1, <1>2, <1>4, <1>7
    <2>3. x * w >= a /\ x \in 1 .. initial /\ ~(x > 1)
      BY <1>1, <2>1, <2>2
    <2> QED
      BY <2>3 DEF a, w
  <1>8. CASE x = k + 1 /\ remaining \in 1 .. w - 1 /\ a % w = 0
    <2>1. k * w = a
      BY <1>4, <1>8
    <2>2. a < initial * w
      <3>1. remaining + 1 <= w
        BY <1>1, <1>8
      <3>2. (remaining + 1) * initial <= w * initial
        BY <1>1, <3>1, TimesMonotone
      <3>3. /\ (remaining + 1) * initial = initial * remaining + initial
            /\ w * initial = initial * w
        BY <1>1
      <3>4. initial * remaining + initial <= initial * w
        BY <3>2, <3>3
      <3> QED
        BY <1>1, <1>2, <3>4 DEF a
    <2>3. k < initial
      BY <1>1, <1>4, <2>1, <2>2, TimesCancel
    <2>4. x * w = k * w + w /\ (x - 2) * w = k * w - w
      BY <1>1, <1>4, <1>8
    <2>5. x * w >= a /\ (x - 2) * w < a
      BY <1>1, <1>2, <2>1, <2>4
    <2>6. x \in 1 .. initial
      BY <1>1, <1>4, <1>8, <2>3
    <2> QED
      BY <2>5, <2>6 DEF a, w
  <1> QED
    BY <1>3, <1>4, <1>6, <1>7, <1>8

\* The bounds of the residual risk carry over to the states.
LEMMA ResidualRiskHolds == IInv => ResidualRiskSound
  <1> SUFFICES ASSUME IInv,
                      NEW initial \in Risks, NEW x \in Residuals(initial, result.remaining)
               PROVE  /\ x * Whole >= initial * result.remaining
                      /\ x \in 1 .. initial
                      /\ x > 1 => (x - 2) * Whole < initial * result.remaining
                      /\ RiskRank(x) <= RiskRank(initial)
    BY DEF ResidualRiskSound
  <1>1. PICK s, E, b : ScoredAs(s, E, b)
    BY Scored
  <1>2. result.remaining \in 0 .. Whole
    BY <1>1, RemainingBounded
  <1>3. initial \in Nat \ {0}
    BY ScoringAssumption
  <1>4. /\ x \in 1 .. initial
        /\ x * Whole >= initial * result.remaining
        /\ x > 1 => (x - 2) * Whole < initial * result.remaining
    BY <1>2, <1>3, ResidualBounds
  <1>5. RiskRank(x) <= RiskRank(initial)
    BY <1>3, <1>4 DEF RiskRank
  <1> QED
    BY <1>4, <1>5

\* The residual risk is never understated and never above the initial risk.
THEOREM ResidualRiskIsSound == Spec => []ResidualRiskSound
  BY Invariance, ResidualRiskHolds, PTL

-----------------------------------------------------------------------------
(* More layers *)

\* A list that has all the layers of another lets no more through.
LEMMA LongerListPassesLess ==
    ASSUME NEW list \in Seq(Plain), NEW more \in Seq(Plain),
           DistinctIds(list), DistinctIds(more), Range(list) \subseteq Range(more),
           NEW t \in Nat, NEW ct, NEW qt
    PROVE  Evaluate(NewSnapshot(more, t), ct, qt).remaining
              <= Evaluate(NewSnapshot(list, t), ct, qt).remaining
  <1> DEFINE s1 == NewSnapshot(list, t).safeguards
             s2 == NewSnapshot(more, t).safeguards
             E1 == EligibleIn(s1, Truncate(t))
             E2 == EligibleIn(s2, Truncate(t))
             res1 == Evaluate(NewSnapshot(list, t), ct, qt)
             res2 == Evaluate(NewSnapshot(more, t), ct, qt)
  <1>1. /\ s1 \in Seq(Plain) /\ E1 \in SUBSET DOMAIN s1
        /\ \E b : Accounts(res1, s1, E1, b)
        /\ \A i \in E1 : \E g \in Counted(list, t) : Same(s1[i], g)
    <2>1. /\ E1 \subseteq DOMAIN s1
          /\ \A i \in DOMAIN s1 : \E g \in Range(list) :
                Same(s1[i], g) /\ (i \in E1 <=> g \in Counted(list, t))
      BY SnapshotRows
    <2>2. s1 \in Seq(Plain) /\ \E b : Accounts(res1, s1, E1, b)
      BY Evaluated
    <2> HIDE DEF s1, E1, res1
    <2> QED
      BY <2>1, <2>2
  <1>2. /\ s2 \in Seq(Plain) /\ E2 \in SUBSET DOMAIN s2
        /\ \E b : Accounts(res2, s2, E2, b)
        /\ \A g \in Counted(more, t) : \E i \in E2 : Same(s2[i], g)
    <2>1. /\ E2 \subseteq DOMAIN s2
          /\ \A g \in Range(more) : \E i \in DOMAIN s2 :
                Same(s2[i], g) /\ (i \in E2 <=> g \in Counted(more, t))
      BY SnapshotRows
    <2>2. s2 \in Seq(Plain) /\ \E b : Accounts(res2, s2, E2, b)
      BY Evaluated
    <2>3. \A g \in Counted(more, t) : g \in Range(more)
      BY DEF Counted
    <2> HIDE DEF s2, E2, res2
    <2> QED
      BY <2>1, <2>2, <2>3
  <1>3. Counted(list, t) \subseteq Counted(more, t)
    BY DEF Counted
  <1> HIDE DEF s1, s2, E1, E2, res1, res2
  <1>4. PICK b1 : Accounts(res1, s1, E1, b1)
    BY <1>1
  <1>5. PICK b2 : Accounts(res2, s2, E2, b2)
    BY <1>2
  <1> DEFINE r1 == [i \in 1 .. Len(b1) |-> s1[b1[i]]]
             r2 == [i \in 1 .. Len(b2) |-> s2[b2[i]]]
  <1>6. /\ Picks(s1, E1, b1) /\ res1.remaining = Remaining(r1)
        /\ Picks(s2, E2, b2) /\ res2.remaining = Remaining(r2)
    BY <1>4, <1>5 DEF Accounts
  <1>7. /\ r1 \in Seq(Plain) /\ KeysRise(r1) /\ DOMAIN r1 = 1 .. Len(b1)
        /\ r2 \in Seq(Plain) /\ KeysRise(r2) /\ DOMAIN r2 = 1 .. Len(b2)
    <2>1. s1 \in Seq(Plain) /\ E1 \in SUBSET DOMAIN s1 /\ Picks(s1, E1, b1)
      BY <1>1, <1>6
    <2>2. s2 \in Seq(Plain) /\ E2 \in SUBSET DOMAIN s2 /\ Picks(s2, E2, b2)
      BY <1>2, <1>6
    <2>3. r1 \in Seq(Plain) /\ KeysRise(r1) /\ DOMAIN r1 = 1 .. Len(b1)
      BY <2>1, PickedList
    <2>4. r2 \in Seq(Plain) /\ KeysRise(r2) /\ DOMAIN r2 = 1 .. Len(b2)
      BY <2>2, PickedList
    <2> QED
      BY <2>3, <2>4
  <1>8. /\ \A i \in 1 .. Len(b1) : b1[i] \in E1
        /\ \A i \in 1 .. Len(b2) : b2[i] \in E2
        /\ \A j \in E2 : \E i \in 1 .. Len(b2) : s2[j].key = s2[b2[i]].key
        /\ \A i \in 1 .. Len(b2) : \A j \in E2 \ {b2[i]} :
              s2[j].key = s2[b2[i]].key => Weaker(s2[j], s2[b2[i]])
    BY <1>6 DEF Picks
  <1>9. ASSUME NEW h \in Range(r1)
        PROVE  \E g \in Range(r2) : g.key = h.key /\ g.effectiveness >= h.effectiveness
    <2>1. PICK k \in 1 .. Len(b1) : h = s1[b1[k]]
      BY <1>7 DEF Range
    <2>2. PICK g \in Counted(more, t) : Same(h, g)
      BY <1>1, <1>3, <1>8, <2>1
    <2>3. PICK j \in E2 : Same(s2[j], g)
      BY <1>2
    <2>4. PICK m \in 1 .. Len(b2) : s2[j].key = s2[b2[m]].key
      BY <1>8
    <2>5. b2[m] \in E2
      BY <1>8
    <2>6. s2[j].effectiveness \in Nat /\ s2[b2[m]].effectiveness \in Nat
      <3>1. \A i \in DOMAIN s2 : s2[i].effectiveness \in 1 .. Full
        BY <1>2, PlainFields
      <3> QED
        BY <1>2, <2>5, <3>1, ScoringAssumption
    <2>7. s2[j].effectiveness <= s2[b2[m]].effectiveness
      <3>1. CASE j = b2[m]
        BY <2>6, <3>1
      <3>2. CASE j # b2[m]
        <4>1. Weaker(s2[j], s2[b2[m]])
          BY <1>8, <2>4, <3>2
        <4> QED
          BY <2>6, <4>1 DEF Weaker
      <3> QED
        BY <3>1, <3>2
    <2>8. r2[m] = s2[b2[m]] /\ r2[m] \in Range(r2)
      BY <1>7 DEF Range
    <2>9. h.key = g.key /\ h.effectiveness = g.effectiveness
      BY <2>2 DEF Same
    <2>10. s2[j].key = g.key /\ s2[j].effectiveness = g.effectiveness
      BY <2>3 DEF Same
    <2> HIDE DEF r2
    <2>11. r2[m].key = h.key /\ r2[m].effectiveness >= h.effectiveness
      BY <2>4, <2>6, <2>7, <2>8, <2>9, <2>10
    <2> QED
      BY <2>8, <2>11
  <1> HIDE DEF r1, r2
  <1>10. PICK o1, f1 : /\ o1 \in Seq(Plain) /\ KeysRise(o1) /\ Range(o1) = Range(r1)
                       /\ PassesThrough(f1, o1) /\ Remaining(r1) = f1[Len(o1)]
    BY <1>7, RemainingPasses
  <1>11. PICK o2, f2 : /\ o2 \in Seq(Plain) /\ KeysRise(o2) /\ Range(o2) = Range(r2)
                       /\ PassesThrough(f2, o2) /\ Remaining(r2) = f2[Len(o2)]
    BY <1>7, RemainingPasses
  <1>12. Matched(o1, Len(o1), o2, Len(o2))
    <2> SUFFICES ASSUME NEW i \in 1 .. Len(o1)
                 PROVE  \E j \in 1 .. Len(o2) : /\ o2[j].key = o1[i].key
                                                /\ o2[j].effectiveness >= o1[i].effectiveness
      BY DEF Matched
    <2>1. DOMAIN o1 = 1 .. Len(o1) /\ DOMAIN o2 = 1 .. Len(o2)
      BY <1>10, <1>11, LenProperties
    <2>2. o1[i] \in Range(r1)
      BY <1>10, <2>1 DEF Range
    <2>3. PICK g \in Range(r2) : g.key = o1[i].key /\ g.effectiveness >= o1[i].effectiveness
      BY <1>9, <2>2
    <2>4. PICK j \in 1 .. Len(o2) : o2[j] = g
      BY <1>11, <2>1, <2>3 DEF Range
    <2> QED
      BY <2>3, <2>4
  <1>13. f2[Len(o2)] <= f1[Len(o1)]
    BY <1>10, <1>11, <1>12, MoreLayersPassLess
  <1> QED
    BY <1>6, <1>10, <1>11, <1>13 DEF res1, res2

\* Rounding up keeps the order, strictly so below a whole number.
LEMMA CeilDivMonotone ==
    ASSUME NEW a \in Nat, NEW d \in Nat, d < a, NEW w \in Nat \ {0}
    PROVE  /\ CeilDiv(d, w) \in Nat /\ CeilDiv(a, w) \in Nat
           /\ CeilDiv(d, w) <= CeilDiv(a, w)
           /\ d % w = 0 => CeilDiv(d, w) < CeilDiv(a, w)
  <1> DEFINE k == CeilDiv(a, w)
             l == CeilDiv(d, w)
  <1>1. k \in Nat /\ k * w \in Nat /\ a <= k * w
    BY CeilDivRoundsUp
  <1>2. /\ l \in Nat /\ l * w \in Nat /\ l * w < d + w
        /\ d % w = 0 => l * w = d
    BY CeilDivRoundsUp
  <1> HIDE DEF k, l
  <1>3. l < k + 1
    <2>1. l * w < k * w + w
      BY <1>1, <1>2
    <2>2. (k + 1) * w = k * w + w /\ k + 1 \in Nat
      BY <1>1
    <2>3. l * w < (k + 1) * w
      BY <2>1, <2>2
    <2> QED
      BY <1>2, <2>2, <2>3, TimesCancel
  <1>4. ASSUME d % w = 0 PROVE l < k
    <2>1. l * w < k * w
      BY <1>1, <1>2, <1>4
    <2> QED
      BY <1>1, <1>2, <2>1, TimesCancel
  <1>5. l <= k
    BY <1>1, <1>2, <1>3
  <1> QED
    BY <1>1, <1>2, <1>4, <1>5 DEF k, l

\* Of less that remains, no residual risk is higher, whichever of its values
\* float64 yields on either side.
LEMMA LessRemainsLessRisk ==
    ASSUME NEW initial \in Nat \ {0},
           NEW more \in 0 .. Whole, NEW less \in 0 .. Whole, less < more,
           NEW x \in Residuals(initial, more), NEW y \in Residuals(initial, less)
    PROVE  y <= x
  <1> DEFINE a == initial * more
             d == initial * less
             k == CeilDiv(a, Whole)
             l == CeilDiv(d, Whole)
  <1>1. Whole \in Nat \ {0} /\ more \in Nat /\ less \in Nat /\ initial \in Nat
    BY ScoringAssumption
  <1>2. a \in Nat /\ d \in Nat /\ d < a
    <2>1. less + 1 <= more /\ less + 1 \in Nat
      BY <1>1
    <2>2. (less + 1) * initial <= more * initial
      BY <1>1, <2>1, TimesMonotone
    <2>3. (less + 1) * initial = d + initial /\ more * initial = a
      BY <1>1
    <2>4. a \in Nat /\ d \in Nat
      BY <1>1
    <2> HIDE DEF a, d
    <2> QED
      BY <2>2, <2>3, <2>4
  <1>3. x = AtLeastOne(k) \/ x = k + 1
    BY DEF Residuals
  <1>4. y = AtLeastOne(l) \/ (y = l + 1 /\ d % Whole = 0)
    BY DEF Residuals
  <1> HIDE DEF a, d
  <1>5. k \in Nat /\ l \in Nat /\ l <= k /\ (d % Whole = 0 => l < k)
    BY <1>1, <1>2, CeilDivMonotone
  <1> HIDE DEF k, l
  <1> QED
    BY <1>3, <1>4, <1>5 DEF AtLeastOne

\* What a list lets through is part of Whole, and its paths are as many as its
\* texts make them.
LEMMA ScoreBounded ==
    ASSUME IInv
    PROVE  /\ result.remaining \in 0 .. Whole
           /\ result.paths = Paths(SplitStatements(cause), SplitStatements(consequence))
           /\ Len(result.paths) \in Nat
           /\ result.uncovered = IF 2 * result.remaining <= Whole THEN <<>> ELSE result.paths
  <1> DEFINE c == SplitStatements(cause)
             q == SplitStatements(consequence)
  <1>1. result.remaining \in 0 .. Whole
    <2>1. PICK s, E, b : ScoredAs(s, E, b)
      BY Scored
    <2> QED
      BY <2>1, RemainingBounded
  <1>2. /\ result.paths = Paths(c, q)
        /\ result.uncovered = UncoveredPaths(result.paths, result.remaining)
    BY DEF IInv, Evaluate
  <1>3. cause \in Seq(Statements) /\ consequence \in Seq(Statements)
    BY RowsPlain
  <1>4. /\ Len(c) \in Nat \ {0}
        /\ \A i, j \in 1 .. Len(c) : c[i].lower = c[j].lower => i = j
    BY <1>3, StatementsOnce
  <1>5. /\ Len(q) \in Nat \ {0}
        /\ \A i, j \in 1 .. Len(q) : q[i].lower = q[j].lower => i = j
    BY <1>3, StatementsOnce
  <1> HIDE DEF c, q
  <1>6. Len(Paths(c, q)) \in Nat
    BY <1>4, <1>5, PathsOnce
  <1>7. result.uncovered = IF 2 * result.remaining <= Whole THEN <<>> ELSE result.paths
    BY <1>2 DEF UncoveredPaths, Covered
  <1> QED
    BY <1>1, <1>2, <1>6, <1>7 DEF c, q

\* One layer more lets no more through.
LEMMA EvaluationPassesLess ==
    ASSUME IInv, IInv', NEW layer \in Layers, Evaluation(layer)
    PROVE  result'.remaining <= result.remaining
  <1>1. /\ rows' = Append(rows, layer)
        /\ UNCHANGED <<cause, consequence, now>>
    BY DEF Evaluation
  <1>2. /\ rows \in Seq(Layers) /\ Len(rows) \in Nat /\ DOMAIN rows = 1 .. Len(rows)
    BY LenProperties DEF IInv
  <1>3. Range(rows) \subseteq Range(rows')
    <2>1. DOMAIN rows' = 1 .. Len(rows) + 1
      BY <1>1, <1>2
    <2>2. \A i \in DOMAIN rows : i \in DOMAIN rows' /\ rows'[i] = rows[i]
      BY <1>1, <1>2, <2>1
    <2> QED
      BY <2>2 DEF Range
  <1>4. rows \in Seq(Plain) /\ DistinctIds(rows) /\ now \in Nat
    BY RowsPlain
  <1>5. rows' \in Seq(Plain)
    <2>1. rows' \in Seq(Layers)
      BY DEF IInv
    <2> QED
      BY <2>1, LayersArePlain, SeqMonotonic
  <1>6. DistinctIds(rows')
    BY DEF IInv, DistinctIds
  <1>7. Evaluate(NewSnapshot(rows', now), cause, consequence).remaining
           <= Evaluate(NewSnapshot(rows, now), cause, consequence).remaining
    BY <1>3, <1>4, <1>5, <1>6, LongerListPassesLess
  <1>8. /\ result = Evaluate(NewSnapshot(rows, now), cause, consequence)
        /\ result' = Evaluate(NewSnapshot(rows', now), cause, consequence)
    BY <1>1 DEF IInv
  <1> QED
    BY <1>7, <1>8

\* One layer more never makes the scenario look worse.
THEOREM MoreLayersHelp == Spec => LayersOnlyHelp
  <1> DEFINE Helps ==
        /\ result'.remaining <= result.remaining
        /\ Len(result'.uncovered) <= Len(result.uncovered)
        /\ result'.remaining < result.remaining =>
             \A initial \in Risks :
                \A x \in Residuals(initial, result.remaining),
                   y \in Residuals(initial, result'.remaining) : y <= x
  <1> DEFINE Bounded ==
        /\ result.remaining \in 0 .. Whole
        /\ result.paths = Paths(SplitStatements(cause), SplitStatements(consequence))
        /\ Len(result.paths) \in Nat
        /\ result.uncovered = IF 2 * result.remaining <= Whole THEN <<>> ELSE result.paths
  <1>1. IInv => Bounded
    BY ScoreBounded
  <1>2. IInv' => Bounded'
    <2> HIDE DEF Bounded
    <2> QED
      BY <1>1, PTL
  <1>3. IInv /\ IInv' /\ [Next]_vars => [Helps]_vars
    <2> SUFFICES ASSUME IInv, IInv', NEW layer \in Layers, Evaluation(layer)
                 PROVE  Helps
      BY DEF Next
    <2> DEFINE before == result.remaining
               after == result'.remaining
    <2>1. after <= before
      BY EvaluationPassesLess
    <2>2. before \in 0 .. Whole /\ after \in 0 .. Whole
      BY <1>1, <1>2
    <2>3. result'.paths = result.paths /\ Len(result.paths) \in Nat
      BY <1>1, <1>2 DEF Evaluation
    <2>4. Len(result'.uncovered) <= Len(result.uncovered)
      <3>1. CASE 2 * after <= Whole
        <4>1. Len(result'.uncovered) = 0
          BY <1>2, <3>1
        <4>2. Len(result.uncovered) \in Nat
          BY <1>1, <2>3
        <4> QED
          BY <4>1, <4>2
      <3>2. CASE ~(2 * after <= Whole)
        <4>1. ~(2 * before <= Whole)
          BY <2>1, <2>2, <3>2, ScoringAssumption
        <4>2. result'.uncovered = result.paths /\ result.uncovered = result.paths
          BY <1>1, <1>2, <2>3, <3>2, <4>1
        <4> QED
          BY <2>3, <4>2
      <3> QED
        BY <3>1, <3>2
    <2>5. ASSUME after < before, NEW initial \in Risks,
                 NEW x \in Residuals(initial, before), NEW y \in Residuals(initial, after)
          PROVE  y <= x
      <3>1. initial \in Nat \ {0}
        BY ScoringAssumption
      <3> QED
        BY <2>2, <2>5, <3>1, LessRemainsLessRisk
    <2> QED
      BY <2>1, <2>4, <2>5
  <1>4. Spec => [][Helps]_vars
    BY Invariance, <1>3, PTL DEF Spec
  <1> QED
    BY <1>4 DEF LayersOnlyHelp
=============================================================================
