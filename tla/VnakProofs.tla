----------------------------- MODULE VnakProofs -----------------------------
(***************************************************************************)
(* Proofs about iax_handle_vnak, for any frames in schedq in any order.    *)
(*                                                                         *)
(* What the walk along schedq has collected is a recursive function, and   *)
(* an induction over data has to be written out: a least n at which the    *)
(* function or what is claimed of it fails is refuted by n - 1.            *)
(***************************************************************************)
EXTENDS Vnak, SequenceTheorems, FiniteSetTheorems, TLAPS

\* Each set of natural numbers has a least one
LEMMA LeastNatural ==
    ASSUME NEW T \in SUBSET Nat, T # {}
    PROVE  \E n \in T : \A m \in T : n <= m
<1>1. PICK n \in T : \A m \in T : ~(<<m, n>> \in OpToRel(<, Nat))
  BY NatLessThanWellFounded, WFMin, Zenon
<1>2. \A m \in T : ~(m < n)
  BY <1>1 DEF OpToRel
<1> QED
  BY <1>2

-----------------------------------------------------------------------------
(* One frame is put into the list *)

Ascends(list) ==
    \A i, j \in DOMAIN list : i < j => list[i] < list[j]

In(x, list) == \E i \in DOMAIN list : list[i] = x

LEMMA InsertAtEntries ==
    ASSUME NEW S, NEW list \in Seq(S), NEW x \in S,
           NEW p \in 1 .. Len(list) + 1
    PROVE  /\ InsertAt(list, p, x) \in Seq(S)
           /\ Len(InsertAt(list, p, x)) = Len(list) + 1
           /\ \A i \in 1 .. Len(list) + 1 :
                 InsertAt(list, p, x)[i] =
                     IF i < p THEN list[i] ELSE IF i = p THEN x ELSE list[i - 1]
<1> DEFINE a == SubSeq(list, 1, p - 1)
           b == SubSeq(list, p, Len(list))
           c == a \o <<x>>
<1>1. a \in Seq(S) /\ Len(a) = p - 1 /\ \A i \in 1 .. p - 1 : a[i] = list[i]
  BY SubSeqProperties
<1>2. /\ b \in Seq(S) /\ Len(b) = Len(list) - p + 1
      /\ \A i \in 1 .. Len(list) - p + 1 : b[i] = list[p + i - 1]
  BY SubSeqProperties
<1>3. InsertAt(list, p, x) = c \o b
  BY DEF InsertAt
<1> HIDE DEF a, b
<1>4. /\ c \in Seq(S) /\ Len(c) = p
      /\ \A i \in 1 .. p : c[i] = IF i < p THEN list[i] ELSE x
  BY <1>1
<1> HIDE DEF c
<1>5. Len(list) \in Nat /\ p \in Int
  OBVIOUS
<1>6. /\ c \o b \in Seq(S) /\ Len(c \o b) = Len(c) + Len(b)
      /\ \A i \in 1 .. Len(c) + Len(b) :
            (c \o b)[i] = IF i <= Len(c) THEN c[i] ELSE b[i - Len(c)]
  BY <1>2, <1>4, ConcatProperties
<1>7. Len(c) + Len(b) = Len(list) + 1
  BY <1>2, <1>4, <1>5
<1>8. ASSUME NEW i \in 1 .. Len(list) + 1
      PROVE  (c \o b)[i] =
                 IF i < p THEN list[i] ELSE IF i = p THEN x ELSE list[i - 1]
  <2>1. CASE i <= p
    <3>1. (c \o b)[i] = c[i] /\ i \in 1 .. p
      BY <1>4, <1>5, <1>6, <1>7, <2>1
    <3> QED
      BY <1>4, <1>5, <3>1
  <2>2. CASE i > p
    <3>1. i - p \in 1 .. Len(list) - p + 1 /\ p + (i - p) - 1 = i - 1
      BY <1>5, <2>2
    <3>2. b[i - p] = list[i - 1]
      BY <1>2, <3>1
    <3>3. (c \o b)[i] = b[i - p]
      BY <1>4, <1>5, <1>6, <1>7, <2>2
    <3> QED
      BY <1>5, <2>2, <3>2, <3>3
  <2>3. i <= p \/ i > p
    BY <1>5
  <2> QED
    BY <2>1, <2>2, <2>3, Zenon
<1> QED
  BY <1>3, <1>6, <1>7, <1>8

\* A frame is put where it belongs by its oseqno, which rseqno has no part in:
\* the differences are of ints
LEMMA InsertKeepsOrder ==
    ASSUME rseqno \in Int,
           NEW list \in Seq(SeqNo), Ascends(list), NEW x \in SeqNo, ~In(x, list)
    PROVE  /\ Insert(list, x) \in Seq(SeqNo)
           /\ Ascends(Insert(list, x))
           /\ \A y : In(y, Insert(list, x)) <=> y = x \/ In(y, list)
<1> DEFINE later == {i \in DOMAIN list : list[i] - rseqno > x - rseqno}
           place == IF later = {} THEN Len(list) + 1
                    ELSE CHOOSE i \in later : \A j \in later : i <= j
<1>1. /\ \A i \in DOMAIN list : list[i] \in Int /\ list[i] # x
      /\ DOMAIN list = 1 .. Len(list) /\ Len(list) \in Nat /\ x \in Int
  <2>1. \A y \in SeqNo : y \in Int
    BY SMT DEF SeqNo
  <2>2. \A i \in DOMAIN list : list[i] \in SeqNo
    OBVIOUS
  <2> QED
    BY <2>1, <2>2 DEF In
<1>2. \A i \in DOMAIN list : i \in later <=> list[i] > x
  BY <1>1
<1>3. later \in SUBSET (1 .. Len(list)) /\ later \in SUBSET Nat
  BY <1>1
<1>4. PICK p \in 1 .. Len(list) + 1 :
        /\ p = place
        /\ p \in later \/ later = {}
        /\ later = {} => p = Len(list) + 1
        /\ \A j \in later : p <= j
  <2>1. CASE later = {}
    BY <1>1, <2>1
  <2>2. CASE later # {}
    <3>1. \E i \in later : \A j \in later : i <= j
      <4> HIDE DEF later
      <4> QED
        BY <1>3, <2>2, LeastNatural
    <3>2. place \in later /\ \A j \in later : place <= j
      <4> HIDE DEF later
      <4> QED
        BY <2>2, <3>1, Zenon
    <3>3. place \in 1 .. Len(list) + 1
      <4> HIDE DEF place, later
      <4> QED
        BY <1>1, <1>3, <3>2
    <3> QED
      BY <2>2, <3>2, <3>3, Zenon
  <2> QED
    BY <2>1, <2>2
<1>5. Insert(list, x) = InsertAt(list, p, x)
  BY <1>4, Zenon DEF Insert
<1> HIDE DEF later, place
<1>6. \A i \in DOMAIN list : i < p => list[i] < x
  <2> TAKE i \in DOMAIN list
  <2> SUFFICES ASSUME i < p PROVE list[i] < x
    OBVIOUS
  <2>1. i \notin later
    BY <1>1, <1>4
  <2> QED
    BY <1>1, <1>2, <2>1
<1>7. \A i \in DOMAIN list : i >= p => x < list[i]
  <2> TAKE i \in DOMAIN list
  <2> SUFFICES ASSUME i >= p PROVE x < list[i]
    OBVIOUS
  <2>1. p \in later
    BY <1>1, <1>4
  <2>2. p \in DOMAIN list /\ list[p] > x
    BY <1>1, <1>2, <1>3, <2>1
  <2>3. i = p \/ list[p] < list[i]
    BY <1>1, <2>2 DEF Ascends
  <2> QED
    BY <1>1, <2>2, <2>3
<1> DEFINE r == InsertAt(list, p, x)
<1>8. /\ r \in Seq(SeqNo) /\ Len(r) = Len(list) + 1
      /\ \A i \in 1 .. Len(list) + 1 :
            r[i] = IF i < p THEN list[i] ELSE IF i = p THEN x ELSE list[i - 1]
  BY InsertAtEntries
<1> HIDE DEF r
<1>9. DOMAIN r = 1 .. Len(list) + 1
  BY <1>8
<1>10. Ascends(r)
  <2> SUFFICES ASSUME NEW i \in 1 .. Len(list) + 1, NEW j \in 1 .. Len(list) + 1,
                      i < j
               PROVE  r[i] < r[j]
    BY <1>9 DEF Ascends
  <2>1. CASE j < p
    BY <1>1, <1>8, <2>1 DEF Ascends
  <2>2. CASE j = p
    BY <1>1, <1>6, <1>8, <2>2
  <2>3. CASE j > p
    <3>1. j - 1 \in DOMAIN list /\ j - 1 >= p /\ r[j] = list[j - 1]
      BY <1>1, <1>8, <2>3
    <3>5. x < list[j - 1]
      BY <1>7, <3>1
    <3>2. CASE i < p
      <4>1. i \in DOMAIN list /\ r[i] = list[i] /\ i < j - 1
        BY <1>1, <1>8, <2>3, <3>2
      <4> QED
        BY <3>1, <4>1 DEF Ascends
    <3>3. CASE i = p
      BY <1>8, <3>1, <3>3, <3>5
    <3>4. CASE i > p
      <4>1. i - 1 \in DOMAIN list /\ r[i] = list[i - 1] /\ i - 1 < j - 1
        BY <1>1, <1>8, <3>4
      <4> QED
        BY <3>1, <4>1 DEF Ascends
    <3> QED
      BY <3>2, <3>3, <3>4
  <2> QED
    BY <2>1, <2>2, <2>3
<1>11. ASSUME NEW y PROVE In(y, r) <=> y = x \/ In(y, list)
  <2>1. In(y, r) => y = x \/ In(y, list)
    <3> SUFFICES ASSUME NEW i \in 1 .. Len(list) + 1, r[i] = y, y # x
                 PROVE  In(y, list)
      BY <1>9 DEF In
    <3>1. CASE i < p
      BY <1>1, <1>8, <3>1 DEF In
    <3>2. CASE i > p
      <4>1. i - 1 \in DOMAIN list /\ r[i] = list[i - 1]
        BY <1>1, <1>8, <3>2
      <4> QED
        BY <4>1 DEF In
    <3> QED
      BY <1>8, <3>1, <3>2
  <2>2. In(x, r)
    BY <1>8, <1>9 DEF In
  <2>3. ASSUME NEW i \in DOMAIN list PROVE In(list[i], r)
    <3>1. CASE i < p
      BY <1>1, <1>8, <1>9, <3>1 DEF In
    <3>2. CASE i >= p
      <4>1. i + 1 \in DOMAIN r /\ r[i + 1] = list[i]
        BY <1>1, <1>8, <1>9, <3>2
      <4> QED
        BY <4>1 DEF In
    <3> QED
      BY <1>1, <3>1, <3>2
  <2> QED
    BY <2>1, <2>2, <2>3 DEF In
<1> QED
  BY <1>5, <1>8, <1>10, <1>11 DEF r

-----------------------------------------------------------------------------
(* The walk along schedq *)

\* f is what has been collected after each of the first n frames
Unfolds(f, n) ==
    f = [m \in 0 .. n |->
            IF m = 0 THEN <<>>
            ELSE IF Due(schedq[m]) THEN Insert(f[m - 1], schedq[m])
            ELSE f[m - 1]]

LEMMA WalkExists ==
    ASSUME NEW L \in Nat PROVE \E f : Unfolds(f, L)
<1> DEFINE T == {n \in Nat : ~ \E f : Unfolds(f, n)}
<1> SUFFICES ASSUME T # {} PROVE FALSE
  OBVIOUS
<1>1. PICK n \in T : \A m \in T : n <= m
  <2>1. T \in SUBSET Nat
    OBVIOUS
  <2> HIDE DEF T
  <2> QED
    BY <2>1, LeastNatural
<1>2. n \in Nat /\ ~ \E f : Unfolds(f, n)
  OBVIOUS
<1>3. CASE n = 0
  <2>1. Unfolds([m \in 0 .. 0 |-> <<>>], 0)
    BY DEF Unfolds
  <2> QED
    BY <1>2, <1>3, <2>1
<1>4. CASE n # 0
  <2>1. n - 1 \in Nat /\ n - 1 \notin T
    BY <1>1, <1>2, <1>4
  <2>2. PICK f : Unfolds(f, n - 1)
    BY <2>1
  <2> DEFINE next(m) ==
        IF m = 0 THEN <<>>
        ELSE IF Due(schedq[m]) THEN Insert(f[m - 1], schedq[m])
        ELSE f[m - 1]
      g == [m \in 0 .. n |-> next(m)]
  <2>3. \A m \in 0 .. n - 1 : f[m] = next(m)
    BY <2>2, Zenon DEF Unfolds
  <2>4. \A m \in 0 .. n : m # 0 => m - 1 \in 0 .. n - 1 /\ m - 1 \in 0 .. n
    BY <1>2
  <2>5. \A m \in 0 .. n : m # 0 => g[m - 1] = f[m - 1]
    <3> TAKE m \in 0 .. n
    <3> SUFFICES ASSUME m # 0 PROVE g[m - 1] = f[m - 1]
      OBVIOUS
    <3>1. g[m - 1] = next(m - 1)
      BY <2>4
    <3>2. f[m - 1] = next(m - 1)
      BY <2>3, <2>4
    <3> QED
      BY <3>1, <3>2, Zenon
  <2>6. \A m \in 0 .. n :
          next(m) = IF m = 0 THEN <<>>
                    ELSE IF Due(schedq[m]) THEN Insert(g[m - 1], schedq[m])
                    ELSE g[m - 1]
    <3> HIDE DEF g
    <3> QED
      BY <2>5, Zenon
  <2>7. Unfolds(g, n)
    <3>1. g = [m \in 0 .. n |->
                  IF m = 0 THEN <<>>
                  ELSE IF Due(schedq[m]) THEN Insert(g[m - 1], schedq[m])
                  ELSE g[m - 1]]
      BY <2>6, Zenon
    <3> QED
      BY <3>1, Zenon DEF Unfolds
  <2> QED
    BY <1>2, <2>7
<1> QED
  BY <1>3, <1>4

\* What the loop of iax_handle_vnak does with each frame
LEMMA CollectedStep ==
    ASSUME Len(schedq) \in Nat
    PROVE  /\ Collected[0] = <<>>
           /\ \A n \in 1 .. Len(schedq) :
                 Collected[n] = IF Due(schedq[n])
                                THEN Insert(Collected[n - 1], schedq[n])
                                ELSE Collected[n - 1]
<1>1. \E f : Unfolds(f, Len(schedq))
  BY WalkExists
<1>2. Collected = CHOOSE f : Unfolds(f, Len(schedq))
  BY Zenon DEF Collected, Unfolds
<1>3. Unfolds(Collected, Len(schedq))
  BY <1>1, <1>2, Zenon
<1>4. \A n \in 0 .. Len(schedq) :
        Collected[n] = IF n = 0 THEN <<>>
                       ELSE IF Due(schedq[n])
                            THEN Insert(Collected[n - 1], schedq[n])
                       ELSE Collected[n - 1]
  BY <1>3, Zenon DEF Unfolds
<1>5. 0 \in 0 .. Len(schedq) /\ \A n \in 1 .. Len(schedq) :
        n \in 0 .. Len(schedq) /\ n # 0
  OBVIOUS
<1> QED
  BY <1>4, <1>5, Zenon

\* The frames in schedq are of different numbers, some of which are yet to be
\* acknowledged, and some have been
Scheduled ==
    /\ rseqno \in SeqNo /\ schedq \in Seq(SeqNo)
    /\ \E n \in 1 .. Window : oseqno = (rseqno + n) % Modulus
    /\ \E k \in 0 .. Old : iseqno = (rseqno - k) % Modulus
    /\ \A i, j \in DOMAIN schedq : schedq[i] = schedq[j] => i = j
    /\ \A x \in Unacked : In(x, schedq)

\* The list is in order, with those of the frames seen so far that are due
CollectedRight(n) ==
    /\ Collected[n] \in Seq(SeqNo)
    /\ Ascends(Collected[n])
    /\ \A x : In(x, Collected[n]) <=>
                 \E i \in 1 .. n : schedq[i] = x /\ Due(x)

LEMMA CollectedIsRight ==
    ASSUME Scheduled, NEW n \in 0 .. Len(schedq) PROVE CollectedRight(n)
<1> DEFINE T == {m \in 0 .. Len(schedq) : ~CollectedRight(m)}
<1> SUFFICES ASSUME T # {} PROVE FALSE
  OBVIOUS
<1>1. Len(schedq) \in Nat /\ rseqno \in Int
      /\ DOMAIN schedq = 1 .. Len(schedq)
      /\ \A i \in 1 .. Len(schedq) : schedq[i] \in SeqNo
  <2>1. rseqno \in Int
    BY DEF Scheduled, SeqNo
  <2>2. schedq \in Seq(SeqNo)
    BY DEF Scheduled
  <2> QED
    BY <2>1, <2>2
<1>2. PICK m \in T : \A l \in T : m <= l
  <2>1. T \in SUBSET Nat
    OBVIOUS
  <2> HIDE DEF T
  <2> QED
    BY <2>1, LeastNatural
<1>3. m \in 0 .. Len(schedq) /\ ~CollectedRight(m)
  OBVIOUS
<1>4. CASE m = 0
  <2>1. Collected[0] = <<>>
    BY <1>1, CollectedStep
  <2>2. \A x : ~In(x, <<>>)
    BY DEF In
  <2>3. Ascends(<<>>) /\ <<>> \in Seq(SeqNo)
    BY DEF Ascends
  <2> QED
    BY <1>3, <1>4, <2>1, <2>2, <2>3 DEF CollectedRight
<1>5. CASE m # 0
  <2>1. m \in 1 .. Len(schedq) /\ m - 1 \in 0 .. Len(schedq) /\ m - 1 \notin T
        /\ m \in Int
    BY <1>1, <1>2, <1>3, <1>5
  <2>2. CollectedRight(m - 1)
    BY <2>1
  <2> DEFINE y == schedq[m]
             list == Collected[m - 1]
             list2 == Collected[m]
  <2>3. y \in SeqNo /\ ~In(y, list)
    <3> SUFFICES ASSUME In(y, list) PROVE FALSE
      BY <1>1, <2>1
    <3>1. PICK i \in 1 .. m - 1 : schedq[i] = y
      BY <2>2 DEF CollectedRight
    <3>2. i \in DOMAIN schedq /\ m \in DOMAIN schedq /\ i # m
      BY <1>1, <2>1
    <3> QED
      BY <3>1, <3>2 DEF Scheduled
  <2>4. list2 = IF Due(y) THEN Insert(list, y) ELSE list
    BY <1>1, <2>1, CollectedStep
  <2>5. \A x : (\E i \in 1 .. m : schedq[i] = x /\ Due(x)) <=>
                 (\E i \in 1 .. m - 1 : schedq[i] = x /\ Due(x))
                 \/ (x = y /\ Due(x))
    <3>1. \A i \in Int : i \in 1 .. m <=> i \in 1 .. m - 1 \/ i = m
      BY <2>1
    <3>2. 1 .. m \subseteq Int /\ 1 .. m - 1 \subseteq Int /\ m \in Int
      BY <2>1
    <3> QED
      BY <3>1, <3>2
  <2>6. /\ list \in Seq(SeqNo) /\ Ascends(list)
        /\ \A x : In(x, list) <=> \E i \in 1 .. m - 1 : schedq[i] = x /\ Due(x)
    BY <2>2, Zenon DEF CollectedRight
  <2> HIDE DEF y, list, list2
  <2>7. CASE Due(y)
    <3>1. /\ list2 \in Seq(SeqNo) /\ Ascends(list2)
          /\ \A x : In(x, list2) <=> x = y \/ In(x, list)
      BY <1>1, <2>3, <2>4, <2>6, <2>7, InsertKeepsOrder
    <3>2. \A x : In(x, list2) <=> \E i \in 1 .. m : schedq[i] = x /\ Due(x)
      BY <2>5, <2>6, <2>7, <3>1, Zenon
    <3> QED
      BY <1>3, <3>1, <3>2, Zenon DEF CollectedRight, list2
  <2>8. CASE ~Due(y)
    <3>1. list2 = list
      BY <2>4, <2>8
    <3>2. \A x : In(x, list) <=> \E i \in 1 .. m : schedq[i] = x /\ Due(x)
      BY <2>5, <2>6, <2>8, Zenon
    <3> QED
      BY <1>3, <2>6, <3>1, <3>2, Zenon DEF CollectedRight, list2
  <2> QED
    BY <2>7, <2>8
<1> QED
  BY <1>4, <1>5

-----------------------------------------------------------------------------
(* What is transmitted *)

\* The frames that are due, each once, ascending as ints
Transmitted ==
    Called =>
        /\ wire \in Seq(SeqNo)
        /\ Ascends(wire)
        /\ \A x : In(x, wire) <=> In(x, schedq) /\ Due(x)

\* The remainder of a number less than one turn from zero
LEMMA ModSmall ==
    ASSUME NEW M \in Nat \ {0}, NEW x \in Int
    PROVE  /\ x \in 0 .. M - 1 => x % M = x
           /\ x \in -M .. -1 => x % M = x + M
           /\ x \in M .. M + M - 1 => x % M = x - M
  OBVIOUS

LEMMA ModType ==
    ASSUME NEW M \in Nat \ {0}, NEW x \in Int PROVE x % M \in 0 .. M - 1
  OBVIOUS

\* As many different members of a set as it has are all of them
LEMMA InOneOrder ==
    ASSUME NEW S, IsFiniteSet(S), NEW f \in [1 .. Cardinality(S) -> S],
           \A i, j \in 1 .. Cardinality(S) : f[i] = f[j] => i = j
    PROVE  \A x \in S : \E i \in 1 .. Cardinality(S) : f[i] = x
<1> DEFINE c == Cardinality(S)
           D == 1 .. c
<1>1. c \in Nat
  BY FS_CardinalityType
<1> HIDE DEF c
<1>2. IsFiniteSet(D) /\ Cardinality(D) = c
  BY <1>1, FS_Interval
<1>3. f \in Injection(D, S)
  BY DEF Injection, IsInjective, c
<1> HIDE DEF D
<1>4. Cardinality(D) = Cardinality(S)
  BY <1>2 DEF c
<1>5. f \in Surjection(D, S)
  BY <1>2, <1>3, <1>4, FS_Injection
<1> QED
  BY <1>5 DEF Surjection, D, c

\* A frame in schedq is one of the frames Init puts there
LEMMA InitSchedules == Init => Scheduled
<1> SUFFICES ASSUME Init PROVE Scheduled
  OBVIOUS
<1>1. Modulus \in Nat \ {0} /\ rseqno \in SeqNo /\ rseqno \in Int
  BY NumbersAssumption DEF Init, SeqNo
<1>2. PICK k \in 0 .. Old : schedq \in
        SetToSeqs(Unacked \cup {(rseqno - i) % Modulus : i \in 1 .. k})
  BY DEF Init
<1> DEFINE S == Unacked \cup {(rseqno - i) % Modulus : i \in 1 .. k}
           c == Cardinality(S)
<1>3. S \in SUBSET SeqNo
  <2>1. \A i \in 1 .. k : (rseqno - i) % Modulus \in SeqNo
    <3> TAKE i \in 1 .. k
    <3>1. rseqno - i \in Int
      BY <1>1
    <3> QED
      BY <1>1, <3>1, ModType DEF SeqNo
  <2> QED
    BY <2>1 DEF Unacked
<1>4. IsFiniteSet(S) /\ c \in Nat
  <2>1. IsFiniteSet(SeqNo)
    BY <1>1, FS_Interval DEF SeqNo
  <2> HIDE DEF S
  <2> QED
    BY <1>3, <2>1, FS_Subset, FS_CardinalityType
<1>5. /\ schedq \in [1 .. c -> S]
      /\ \A i, j \in 1 .. c : schedq[i] = schedq[j] => i = j
  BY <1>2 DEF SetToSeqs
<1> HIDE DEF S
<1>6. \A x \in S : \E i \in 1 .. c : schedq[i] = x
  BY <1>4, <1>5, InOneOrder
<1>7. \A x \in S : In(x, schedq)
  BY <1>5, <1>6 DEF In
<1>8. Unacked \subseteq S
  BY DEF S
<1>9. schedq \in Seq(SeqNo)
  BY <1>3, <1>4, <1>5
<1> QED
  BY <1>1, <1>5, <1>7, <1>8, <1>9 DEF Init, Scheduled

LEMMA NextTransmits ==
    ASSUME Scheduled, Transmitted, [Next]_vars
    PROVE  Scheduled' /\ Transmitted'
<1>1. UNCHANGED <<rseqno, oseqno, iseqno, schedq>>
  BY DEF Next, iax_handle_vnak, vars
<1>2. Scheduled'
  BY <1>1 DEF Scheduled, Unacked, Dist, In
<1>3. CASE UNCHANGED vars
  BY <1>2, <1>3 DEF Transmitted, Called, Due, Dist, In, vars, Ascends
<1>4. CASE Next
  <2>1. wire' = Collected[Len(schedq)] /\ Len(schedq) \in Nat
        /\ DOMAIN schedq = 1 .. Len(schedq)
    BY <1>4 DEF Next, iax_handle_vnak, Scheduled
  <2>2. CollectedRight(Len(schedq))
    BY <2>1, CollectedIsRight
  <2>3. /\ wire' \in Seq(SeqNo) /\ Ascends(wire')
        /\ \A x : In(x, wire') <=> In(x, schedq) /\ Due(x)
    BY <2>1, <2>2 DEF CollectedRight, In
  <2>4. \A x : Due(x)' <=> Due(x)
    BY <1>1 DEF Due, Dist
  <2> QED
    BY <1>1, <1>2, <2>3, <2>4 DEF Transmitted, In, Ascends
<1> QED
  BY <1>2, <1>3, <1>4

LEMMA VnakInvariant == Spec => [](Scheduled /\ Transmitted)
<1>1. Init => Transmitted
  BY DEF Init, Transmitted, Called
<1> QED
  BY <1>1, InitSchedules, NextTransmits, PTL DEF Spec

-----------------------------------------------------------------------------
(* Which frames are due *)

\* How far ahead of rseqno the numbers are
LEMMA Distances ==
    ASSUME NEW r \in SeqNo, NEW n \in 0 .. Modulus - 1
    PROVE  /\ Dist(r, (r + n) % Modulus) = n
           /\ n # 0 => Dist(r, (r - n) % Modulus) = Modulus - n
           /\ r <= (r + n) % Modulus => (r + n) % Modulus = r + n
<1>1. Modulus \in Nat \ {0} /\ r \in 0 .. Modulus - 1 /\ r \in Int /\ n \in Int
  BY NumbersAssumption DEF SeqNo
<1>2. /\ r + n < Modulus => (r + n) % Modulus = r + n
      /\ r + n >= Modulus => (r + n) % Modulus = (r + n) - Modulus
  <2>1. /\ r + n \in Int
        /\ r + n < Modulus => r + n \in 0 .. Modulus - 1
        /\ r + n >= Modulus => r + n \in Modulus .. Modulus + Modulus - 1
    BY <1>1
  <2> DEFINE y == r + n
  <2> HIDE DEF y
  <2>2. /\ y \in 0 .. Modulus - 1 => y % Modulus = y
        /\ y \in Modulus .. Modulus + Modulus - 1 => y % Modulus = y - Modulus
    BY <1>1, <2>1, ModSmall DEF y
  <2> QED
    BY <2>1, <2>2, Zenon DEF y
<1>3. /\ r >= n => (r - n) % Modulus = r - n
      /\ r < n => (r - n) % Modulus = (r - n) + Modulus
  <2>1. /\ r - n \in Int
        /\ r >= n => r - n \in 0 .. Modulus - 1
        /\ r < n => r - n \in -Modulus .. -1
    BY <1>1
  <2> DEFINE y == r - n
  <2> HIDE DEF y
  <2>2. /\ y \in 0 .. Modulus - 1 => y % Modulus = y
        /\ y \in -Modulus .. -1 => y % Modulus = y + Modulus
    BY <1>1, <2>1, ModSmall DEF y
  <2> QED
    BY <2>1, <2>2, Zenon DEF y
<1>4. Dist(r, (r + n) % Modulus) = n
  <2>1. CASE r + n < Modulus
    <3>1. ((r + n) % Modulus) - r = n
      BY <1>1, <1>2, <2>1
    <3> QED
      BY <1>1, <3>1, ModSmall DEF Dist
  <2>2. CASE r + n >= Modulus
    <3>1. ((r + n) % Modulus) - r = n - Modulus
          /\ n - Modulus \in -Modulus .. -1 /\ n - Modulus \in Int
      BY <1>1, <1>2, <2>2
    <3>2. (n - Modulus) % Modulus = n
      <4>1. (n - Modulus) % Modulus = (n - Modulus) + Modulus
        BY <1>1, <3>1, ModSmall
      <4>2. (n - Modulus) + Modulus = n
        BY <1>1
      <4> QED
        BY <4>1, <4>2
    <3> QED
      BY <3>1, <3>2 DEF Dist
  <2> QED
    BY <1>1, <2>1, <2>2
<1>5. ASSUME n # 0 PROVE Dist(r, (r - n) % Modulus) = Modulus - n
  <2>1. CASE r >= n
    <3>1. ((r - n) % Modulus) - r = -n /\ -n \in -Modulus .. -1 /\ -n \in Int
      BY <1>1, <1>3, <1>5, <2>1
    <3>2. (-n) % Modulus = -n + Modulus
      BY <1>1, <3>1, ModSmall
    <3> QED
      BY <1>1, <3>1, <3>2 DEF Dist
  <2>2. CASE r < n
    <3>1. ((r - n) % Modulus) - r = Modulus - n
          /\ Modulus - n \in 0 .. Modulus - 1 /\ Modulus - n \in Int
      BY <1>1, <1>3, <1>5, <2>2
    <3> QED
      BY <1>1, <3>1, ModSmall DEF Dist
  <2> QED
    BY <1>1, <2>1, <2>2
<1> QED
  BY <1>1, <1>2, <1>4, <1>5

\* A number is as far ahead as it is greater, or a turn more if it is less
LEMMA DistOf ==
    ASSUME NEW r \in SeqNo, NEW x \in SeqNo
    PROVE  /\ x >= r => Dist(r, x) = x - r
           /\ x < r => Dist(r, x) = x - r + Modulus
           /\ Dist(r, x) \in 0 .. Modulus - 1
<1>1. Modulus \in Nat \ {0} /\ x - r \in Int
      /\ r \in 0 .. Modulus - 1 /\ x \in 0 .. Modulus - 1
  BY NumbersAssumption DEF SeqNo
<1>2. /\ x >= r => x - r \in 0 .. Modulus - 1
      /\ x < r => x - r \in -Modulus .. -1
  BY <1>1
<1> QED
  BY <1>1, <1>2, ModSmall, ModType DEF Dist

\* The unacknowledged frames are due if the VNAK is not stale, and only then
LEMMA UnackedAreDue ==
    ASSUME Scheduled, NEW x \in Unacked PROVE Due(x) <=> iseqno = rseqno
<1>1. PICK n \in 1 .. Window : oseqno = (rseqno + n) % Modulus
  BY DEF Scheduled
<1>2. PICK k \in 0 .. Old : iseqno = (rseqno - k) % Modulus
  BY DEF Scheduled
<1>3. /\ n \in 0 .. Modulus - 1 /\ k \in 0 .. Modulus - 1
      /\ n < Modulus - k /\ Modulus \in Nat \ {0}
      /\ rseqno \in SeqNo /\ rseqno \in 0 .. Modulus - 1 /\ x \in SeqNo
  BY NumbersAssumption DEF Scheduled, SeqNo, Unacked
<1>4. Dist(rseqno, x) < n
  BY <1>1, <1>3, Distances DEF Unacked
<1>5. Dist(rseqno, x) \in 0 .. Modulus - 1
  BY <1>3, DistOf
<1>6. CASE k = 0
  <2>1. rseqno - k = rseqno
    BY <1>3, <1>6
  <2>2. iseqno = rseqno
    BY <1>2, <1>3, <2>1, ModSmall
  <2>3. Dist(rseqno, iseqno) = 0
    BY <1>3, <2>2, DistOf
  <2> QED
    BY <1>5, <2>2, <2>3 DEF Due
<1>7. CASE k # 0
  <2>1. Dist(rseqno, iseqno) = Modulus - k
    BY <1>2, <1>3, <1>7, Distances
  <2>2. Dist(rseqno, rseqno) = 0
    BY <1>3, DistOf
  <2>3. iseqno # rseqno
    BY <1>3, <2>1, <2>2
  <2>4. ~(Modulus - k <= Dist(rseqno, x))
    BY <1>3, <1>4, <1>5
  <2> QED
    BY <2>1, <2>3, <2>4 DEF Due
<1> QED
  BY <1>6, <1>7

-----------------------------------------------------------------------------

\* A VNAK makes iax_handle_vnak send every unacknowledged frame again, once each,
\* and a stale one none of them, in whatever order they are in schedq.
THEOREM VnakResends == Spec => []ResendsUnacked
<1>1. Scheduled /\ Transmitted => ResendsUnacked
  <2> SUFFICES ASSUME Scheduled, Transmitted, Called, NEW x \in Unacked
               PROVE  Cardinality({i \in DOMAIN wire : wire[i] = x})
                          = (IF iseqno = rseqno THEN 1 ELSE 0)
    BY DEF ResendsUnacked
  <2>1. In(x, wire) <=> iseqno = rseqno
    BY UnackedAreDue DEF Transmitted, Scheduled
  <2>2. CASE iseqno = rseqno
    <3>1. PICK i \in DOMAIN wire : wire[i] = x
      BY <2>1, <2>2 DEF In
    <3>2. ASSUME NEW j \in DOMAIN wire, wire[j] = x PROVE j = i
      <4>1. /\ i \in Int /\ j \in Int /\ x \in Int
            /\ \A a, b \in DOMAIN wire : a < b => wire[a] < wire[b]
        <5>1. wire \in Seq(SeqNo) /\ Ascends(wire)
          BY DEF Transmitted
        <5>2. x \in Int
          BY DEF Unacked, SeqNo
        <5> QED
          BY <5>1, <5>2 DEF Ascends
      <4>2. ~(i < j) /\ ~(j < i)
        BY <3>1, <3>2, <4>1
      <4> QED
        BY <4>1, <4>2
    <3>3. {j \in DOMAIN wire : wire[j] = x} = {i}
      BY <3>1, <3>2
    <3> QED
      BY <2>2, <3>3, FS_Singleton
  <2>3. CASE iseqno # rseqno
    <3>1. {i \in DOMAIN wire : wire[i] = x} = {}
      BY <2>1, <2>3 DEF In
    <3> QED
      BY <2>3, <3>1, FS_EmptySet
  <2> QED
    BY <2>2, <2>3
<1> QED
  BY <1>1, VnakInvariant, PTL

\* They are sent in ascending order, unless the window wraps around: the
\* differences the list is ordered by are of ints then what they are of unsigned
\* chars.
THEOREM VnakAscends == Spec => []AscendingUnwrapped
<1>1. Scheduled /\ Transmitted => AscendingUnwrapped
  <2> SUFFICES ASSUME Scheduled, Transmitted, rseqno <= oseqno,
                      NEW i \in DOMAIN wire, NEW j \in DOMAIN wire, i < j,
                      wire[i] \in Unacked, wire[j] \in Unacked
               PROVE  Dist(rseqno, wire[i]) < Dist(rseqno, wire[j])
    BY DEF AscendingUnwrapped, Ascending
  <2>1. wire[i] < wire[j]
    <3>1. Called
      BY DEF Called
    <3> QED
      BY <3>1 DEF Transmitted, Ascends
  <2>2. ASSUME NEW x \in Unacked
        PROVE  x \in Int /\ rseqno \in Int /\ Dist(rseqno, x) = x - rseqno
    <3>1. PICK n \in 1 .. Window : oseqno = (rseqno + n) % Modulus
      BY DEF Scheduled
    <3>2. /\ n \in 0 .. Modulus - 1 /\ Modulus \in Nat \ {0}
          /\ rseqno \in SeqNo /\ rseqno \in 0 .. Modulus - 1
          /\ x \in SeqNo /\ x \in 0 .. Modulus - 1
      BY NumbersAssumption DEF Scheduled, SeqNo, Unacked
    <3>3. oseqno = rseqno + n /\ Dist(rseqno, oseqno) = n
      BY <3>1, <3>2, Distances
    <3>4. oseqno < Modulus
      <4>1. rseqno + n \in Int
        BY <3>2
      <4> QED
        BY <3>1, <3>2, <4>1, ModType
    <3>5. Dist(rseqno, x) < n
      BY <3>3 DEF Unacked
    <3>6. x >= rseqno
      <4> SUFFICES ASSUME x < rseqno PROVE FALSE
        BY <3>2
      <4>1. Dist(rseqno, x) = x - rseqno + Modulus
        BY <3>2, DistOf
      <4> QED
        BY <3>2, <3>3, <3>4, <3>5, <4>1
    <3> QED
      BY <3>2, <3>6, DistOf
  <2> QED
    BY <2>1, <2>2
<1> QED
  BY <1>1, VnakInvariant, PTL

=============================================================================
