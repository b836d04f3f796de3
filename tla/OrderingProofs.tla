--------------------------- MODULE OrderingProofs ---------------------------
(***************************************************************************)
(* Sorting a finite set by a strict order, and induction over the naturals *)
(* in the form the other proofs use: about a set of numbers.  Orders are   *)
(* sets of pairs here, so that lemmas can be instantiated.                 *)
(***************************************************************************)
EXTENDS Ordering, Integers, FiniteSetTheorems, FunctionTheorems, TLAPS

-----------------------------------------------------------------------------
(* Induction *)

\* A set of numbers that is not empty has a smallest one.
LEMMA SmallestExists ==
    ASSUME NEW T \in SUBSET Nat, T # {}
    PROVE  \E x \in T : \A y \in T : x <= y
  <1>1. PICK x \in T : \A y \in T : <<y, x>> \notin OpToRel(<, Nat)
    BY NatLessThanWellFounded, WFMin
  <1>2. ASSUME NEW y \in T PROVE x <= y
    <2>1. x \in Nat /\ y \in Nat
      OBVIOUS
    <2>2. ~(y < x)
      BY <1>1, <2>1 DEF OpToRel
    <2> QED
      BY <2>1, <2>2
  <1> QED
    BY <1>2

\* A set of numbers that holds 0 and the successor of each member holds all.
LEMMA Induction ==
    ASSUME NEW T \in SUBSET Nat, 0 \in T, \A n \in T : n + 1 \in T
    PROVE  T = Nat
  <1> SUFFICES ASSUME Nat \ T # {} PROVE FALSE
    OBVIOUS
  <1>1. PICK x \in Nat \ T : \A y \in Nat \ T : x <= y
    <2>1. Nat \ T \in SUBSET Nat
      OBVIOUS
    <2> QED
      BY <2>1, SmallestExists
  <1>2. x # 0 /\ x - 1 \in Nat /\ x - 1 < x
    OBVIOUS
  <1>3. x - 1 \in T
    BY <1>1, <1>2
  <1> QED
    BY <1>2, <1>3

\* There are n numbers from 1 to n.
LEMMA CountUpTo ==
    ASSUME NEW n \in Nat
    PROVE  IsFiniteSet(1 .. n) /\ Cardinality(1 .. n) = n
  BY FS_Interval

-----------------------------------------------------------------------------
(* Orders *)

\* R is a strict partial order on S.
StrictOrderOn(R, S) ==
    /\ \A x \in S : <<x, x>> \notin R
    /\ \A x, y, z \in S : <<x, y>> \in R /\ <<y, z>> \in R => <<x, z>> \in R

\* The ways to line S up so that nothing comes before what is less.
Arrangements(S, R) ==
    {p \in [1 .. Cardinality(S) -> S] :
        \A m, n \in 1 .. Cardinality(S) :
           m < n => p[m] # p[n] /\ <<p[n], p[m]>> \notin R}

\* A finite set that is not empty has a member with none above it.
LEMMA MaximalExists ==
    ASSUME NEW S, NEW R, StrictOrderOn(R, S), IsFiniteSet(S), S # {}
    PROVE  \E x \in S : \A y \in S : <<x, y>> \notin R
  <1> DEFINE Good == {n \in Nat : \A U \in SUBSET S :
                        IsFiniteSet(U) /\ Cardinality(U) = n /\ U # {} =>
                           \E x \in U : \A y \in U : <<x, y>> \notin R}
  <1>1. 0 \in Good
    BY FS_EmptySet
  <1>2. ASSUME NEW n \in Good PROVE n + 1 \in Good
    <2> SUFFICES ASSUME NEW U \in SUBSET S, IsFiniteSet(U), Cardinality(U) = n + 1,
                        U # {}
                 PROVE  \E x \in U : \A y \in U : <<x, y>> \notin R
      OBVIOUS
    <2>1. PICK u \in U : TRUE
      OBVIOUS
    <2> DEFINE V == U \ {u}
    <2>2. IsFiniteSet(V) /\ Cardinality(V) = n
      <3>1. /\ IsFiniteSet(V)
            /\ Cardinality(V) =
                  IF u \in U THEN Cardinality(U) - 1 ELSE Cardinality(U)
        BY FS_RemoveElement, Zenon
      <3>2. n \in Nat
        BY <1>2
      <3> QED
        BY <3>1, <3>2
    <2>3. CASE V = {}
      <3>1. \A y \in U : y = u
        BY <2>3
      <3>2. <<u, u>> \notin R
        BY DEF StrictOrderOn
      <3> QED
        BY <3>1, <3>2
    <2>4. CASE V # {}
      <3>1. V \in SUBSET S
        OBVIOUS
      <3>2. PICK v \in V : \A y \in V : <<v, y>> \notin R
        BY <2>2, <2>4, <3>1
      <3>3. CASE <<v, u>> \in R
        <4>1. \A y \in U : <<u, y>> \notin R
          BY <3>2, <3>3 DEF StrictOrderOn
        <4> QED
          BY <4>1
      <3>4. CASE <<v, u>> \notin R
        BY <3>2, <3>4
      <3> QED
        BY <3>3, <3>4
    <2> QED
      BY <2>3, <2>4
  <1>3. Good = Nat
    <2> HIDE DEF Good
    <2>1. Good \in SUBSET Nat
      BY DEF Good
    <2> QED
      BY <1>1, <1>2, <2>1, Induction
  <1>4. Cardinality(S) \in Nat
    BY FS_CardinalityType
  <1>5. Cardinality(S) \in Good
    BY <1>3, <1>4
  <1> QED
    BY <1>5

\* A finite set can be lined up in every strict order.
LEMMA ArrangementExists ==
    ASSUME NEW S, NEW R, StrictOrderOn(R, S), IsFiniteSet(S)
    PROVE  Arrangements(S, R) # {}
  <1> DEFINE Good == {n \in Nat : \A U \in SUBSET S :
                        IsFiniteSet(U) /\ Cardinality(U) = n =>
                           Arrangements(U, R) # {}}
  <1>1. 0 \in Good
    <2> SUFFICES ASSUME NEW U \in SUBSET S, IsFiniteSet(U), Cardinality(U) = 0
                 PROVE  Arrangements(U, R) # {}
      OBVIOUS
    <2>1. [i \in {} |-> i] \in [1 .. 0 -> U]
      OBVIOUS
    <2>2. \A m, n \in 1 .. 0 : FALSE
      OBVIOUS
    <2> QED
      BY <2>1, <2>2 DEF Arrangements
  <1>2. ASSUME NEW n \in Good PROVE n + 1 \in Good
    <2> SUFFICES ASSUME NEW U \in SUBSET S, IsFiniteSet(U), Cardinality(U) = n + 1
                 PROVE  Arrangements(U, R) # {}
      OBVIOUS
    <2>1. PICK last \in U : \A y \in U : <<last, y>> \notin R
      <3>1. U # {}
        BY FS_EmptySet
      <3>2. StrictOrderOn(R, U)
        BY DEF StrictOrderOn
      <3> QED
        BY <3>1, <3>2, MaximalExists
    <2> DEFINE V == U \ {last}
    <2>2. IsFiniteSet(V) /\ Cardinality(V) = n
      <3>1. /\ IsFiniteSet(V)
            /\ Cardinality(V) =
                  IF last \in U THEN Cardinality(U) - 1 ELSE Cardinality(U)
        BY FS_RemoveElement, Zenon
      <3>2. n \in Nat
        BY <1>2
      <3> QED
        BY <3>1, <3>2
    <2>3. PICK p \in Arrangements(V, R) : TRUE
      BY <2>2
    <2>4. /\ p \in [1 .. n -> V]
          /\ \A i, j \in 1 .. n : i < j => p[i] # p[j] /\ <<p[j], p[i]>> \notin R
      BY <2>2, <2>3 DEF Arrangements
    <2> DEFINE q == [i \in 1 .. n + 1 |-> IF i = n + 1 THEN last ELSE p[i]]
    <2>5. q \in [1 .. n + 1 -> U]
      BY <2>4
    <2>6. ASSUME NEW i \in 1 .. n + 1, NEW j \in 1 .. n + 1, i < j
          PROVE  q[i] # q[j] /\ <<q[j], q[i]>> \notin R
      <3>1. i \in 1 .. n /\ q[i] = p[i] /\ p[i] \in V
        BY <2>4, <2>6
      <3>2. CASE j = n + 1
        BY <2>1, <3>1, <3>2
      <3>3. CASE j \in 1 .. n
        BY <2>4, <2>6, <3>1, <3>3
      <3> QED
        BY <2>6, <3>2, <3>3
    <2>7. q \in Arrangements(U, R)
      BY <2>5, <2>6 DEF Arrangements
    <2> QED
      BY <2>7
  <1>3. Good = Nat
    <2> HIDE DEF Good
    <2>1. Good \in SUBSET Nat
      BY DEF Good
    <2> QED
      BY <1>1, <1>2, <2>1, Induction
  <1>4. Cardinality(S) \in Nat
    BY FS_CardinalityType
  <1>5. Cardinality(S) \in Good
    BY <1>3, <1>4
  <1> QED
    BY <1>5

\* p has every member of S exactly once.
Lists(p, S) ==
    /\ Cardinality(S) \in Nat /\ p \in [1 .. Cardinality(S) -> S]
    /\ \A i, j \in 1 .. Cardinality(S) : p[i] = p[j] => i = j
    /\ \A x \in S : \E i \in 1 .. Cardinality(S) : p[i] = x

\* An arrangement lists every member exactly once.
LEMMA ArrangementListsAll ==
    ASSUME NEW S, NEW R, IsFiniteSet(S), NEW p \in Arrangements(S, R)
    PROVE  Lists(p, S)
  <1> DEFINE n == Cardinality(S)
  <1>1. n \in Nat
    BY FS_CardinalityType
  <1>2. /\ p \in [1 .. n -> S]
        /\ \A i, j \in 1 .. n : i < j => p[i] # p[j]
    BY DEF Arrangements
  <1>3. \A i, j \in 1 .. n : p[i] = p[j] => i = j
    BY <1>1, <1>2
  <1>4. p \in Injection(1 .. n, S)
    BY <1>2, <1>3, Fun_IsInj
  <1>5. Cardinality(1 .. n) = n
    BY <1>1, CountUpTo
  <1>6. p \in Surjection(1 .. n, S)
    <2> HIDE DEF n
    <2>1. Cardinality(1 .. n) = Cardinality(S)
      BY <1>5 DEF n
    <2> QED
      BY <1>4, <2>1, FS_Injection, Zenon
  <1>7. \A x \in S : \E i \in 1 .. n : p[i] = x
    BY <1>6 DEF Surjection
  <1> QED
    BY <1>1, <1>2, <1>3, <1>7 DEF Lists

\* Numbers in order: each once, ascending.
LEMMA NaturalsInOrder ==
    ASSUME NEW S \in SUBSET Nat, IsFiniteSet(S)
    PROVE  LET p == InOrder(S, <)
               n == Cardinality(S)
           IN /\ Lists(p, S)
              /\ \A i, j \in 1 .. n : i < j => p[i] < p[j]
  <1> DEFINE p == InOrder(S, <)
             n == Cardinality(S)
             R == {q \in S \X S : q[1] < q[2]}
  <1>1. StrictOrderOn(R, S)
    BY DEF StrictOrderOn
  <1>2. PICK a \in Arrangements(S, R) : TRUE
    BY <1>1, ArrangementExists
  <1>3. a \in [1 .. n -> S]
    BY DEF Arrangements
  <1>4. \A i, j \in 1 .. n : i < j => a[i] # a[j] /\ ~(a[j] < a[i])
    BY <1>3 DEF Arrangements
  <1>5. /\ p \in [1 .. n -> S]
        /\ \A i, j \in 1 .. n : i < j => p[i] # p[j] /\ ~(p[j] < p[i])
    BY <1>3, <1>4 DEF InOrder
  <1>6. p \in Arrangements(S, R)
    BY <1>5 DEF Arrangements
  <1>7. Lists(p, S)
    <2> HIDE DEF p
    <2> QED
      BY <1>6, ArrangementListsAll
  <1>8. \A i, j \in 1 .. n : i < j => p[i] < p[j]
    <2> HIDE DEF p, n
    <2> SUFFICES ASSUME NEW i \in 1 .. n, NEW j \in 1 .. n, i < j
                 PROVE  p[i] < p[j]
      OBVIOUS
    <2>1. p[i] \in Nat /\ p[j] \in Nat
      BY <1>5
    <2>2. p[i] # p[j] /\ ~(p[j] < p[i])
      BY <1>5
    <2> QED
      BY <2>1, <2>2
  <1> QED
    BY <1>5, <1>7, <1>8
=============================================================================
