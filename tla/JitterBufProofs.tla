-------------------------- MODULE JitterBufProofs --------------------------
(***************************************************************************)
(* Proofs about JitterBuf, for any frames, clocks and settings.            *)
(*                                                                         *)
(* BufInv is the inductive invariant.  Its parts: Sorted is inductive by   *)
(* itself; Apart says that no frame is queued twice, Accounted that the    *)
(* events add up; OrderInv keeps the last voice handed over before what is *)
(* to be played next; StampInv says that last_ts is the latest timestamp.  *)
(* The cached delays have an invariant of their own, by their rank among   *)
(* those of the history.                                                   *)
(***************************************************************************)
EXTENDS JitterBuf, UnwrapProofs, SequenceTheorems, FiniteSetTheorems, TLAPS

\* No frame is queued twice
Apart ==
    \A i, j \in DOMAIN frames : frames[i].data = frames[j].data => i = j

Accounted ==
    /\ Queue \cup handed \cup freed = arrived
    /\ Queue \cap handed = {} /\ Queue \cap freed = {} /\ handed \cap freed = {}

\* What was heard is at least one frame before what is wanted next, or before
\* the silence
OrderInv ==
    IF Silent THEN heard < silence_begin_ts
    ELSE /\ heard <= Wanted - last_voice_ms
         /\ last_voice_ms >= interpl

\* As long as the frames are timely, last_ts is the latest that was stamped
StampInv ==
    timely =>
        /\ \A f \in Stamped : stamp[f] = TS[f] /\ TS[f] <= last_ts
        /\ last_ts \in {0} \cup {TS[f] : f \in Stamped}

BufInv ==
    /\ TypeOK
    /\ Sorted /\ Apart /\ Accounted /\ OnlyVoiceDropped
    /\ OrderInv /\ StampInv

USE DEF session, ring, cache, measured, playing, delays, input, output

-----------------------------------------------------------------------------
(* Lemmas about the operators *)

\* r is s with x before what was the i-th
Inserted(S, s, i, x, r) ==
    /\ r \in Seq(S) /\ Len(r) = Len(s) + 1
    /\ \A j \in 1 .. Len(s) + 1 : r[j] =
         IF j < i THEN s[j] ELSE IF j = i THEN x ELSE s[j - 1]

LEMMA InsertAtProperties ==
    ASSUME NEW S, NEW s \in Seq(S), NEW i \in 1 .. Len(s) + 1, NEW x \in S
    PROVE  Inserted(S, s, i, x, InsertAt(s, i, x))
<1> DEFINE a == SubSeq(s, 1, i - 1)
           b == SubSeq(s, i, Len(s))
<1>1. \A j \in 1 .. Len(s) : s[j] \in S
  BY ElementOfSeq
<1>2. /\ a \in Seq(S) /\ Len(a) = i - 1
      /\ \A j \in 1 .. i - 1 : a[j] = s[j]
  <2>1. \A j \in 1 .. i - 1 : s[j] \in S
    BY <1>1
  <2> QED
    BY <2>1, SubSeqProperties
<1>3. /\ b \in Seq(S) /\ Len(b) = Len(s) - i + 1
      /\ \A j \in 1 .. Len(s) - i + 1 : b[j] = s[i + j - 1]
  <2>1. \A j \in i .. Len(s) : s[j] \in S
    BY <1>1
  <2> QED
    BY <2>1, SubSeqProperties
<1>4. <<x>> \in Seq(S) /\ Len(<<x>>) = 1 /\ <<x>>[1] = x
  OBVIOUS
<1> DEFINE c == a \o <<x>>
<1> HIDE DEF a, b
<1>5. /\ c \in Seq(S) /\ Len(c) = i
      /\ \A j \in 1 .. i : c[j] = IF j < i THEN s[j] ELSE x
  BY <1>2, <1>4, ConcatProperties
<1> HIDE DEF c
<1>6. /\ c \o b \in Seq(S) /\ Len(c \o b) = Len(c) + Len(b)
      /\ \A j \in 1 .. Len(c) + Len(b) : (c \o b)[j] =
           IF j <= Len(c) THEN c[j] ELSE b[j - Len(c)]
  BY <1>3, <1>5, ConcatProperties
<1>7. Len(c) + Len(b) = Len(s) + 1
  BY <1>3, <1>5
<1>8. ASSUME NEW j \in 1 .. Len(s) + 1
      PROVE  (c \o b)[j] = IF j < i THEN s[j] ELSE IF j = i THEN x ELSE s[j - 1]
  BY <1>3, <1>5, <1>6, <1>7
<1>9. InsertAt(s, i, x) = c \o b
  BY DEF InsertAt, a, b, c
<1> QED
  BY <1>6, <1>7, <1>8, <1>9 DEF Inserted

-----------------------------------------------------------------------------
(* What the insertion sorts find *)

\* A set of natural numbers has a least one
LEMMA LeastNatural ==
    ASSUME NEW T \in SUBSET Nat, T # {}
    PROVE  \E n \in T : \A m \in T : n <= m
<1>1. PICK n \in T : \A m \in T : ~(<<m, n>> \in OpToRel(<, Nat))
  BY NatLessThanWellFounded, WFMin, Zenon
<1>2. \A m \in T : ~(m < n)
  BY <1>1 DEF OpToRel
<1> QED
  BY <1>2

\* Of the first C entries of h, those that are at least x, and those beyond it
From(h, C, x) == {i \in 0 .. C - 1 : h[i] >= x}
Beyond(h, C, x) == {i \in 0 .. C - 1 : h[i] > x}

\* x is the n-th greatest of them
Ranks(h, C, n, x) ==
    Cardinality(Beyond(h, C, x)) < n /\ n <= Cardinality(From(h, C, x))

\* Sets of indices are counted
LEMMA IndicesCounted ==
    ASSUME NEW C \in Nat, NEW J \in SUBSET (0 .. C - 1), NEW I \in SUBSET J
    PROVE  /\ Cardinality(I) \in Nat /\ Cardinality(J) \in Nat
           /\ Cardinality(I) <= Cardinality(J) /\ Cardinality(J) <= C
           /\ I # J => Cardinality(I) < Cardinality(J)
<1>1. IsFiniteSet(0 .. C - 1) /\ Cardinality(0 .. C - 1) = C
  BY FS_Interval
<1>2. IsFiniteSet(J) /\ Cardinality(J) <= C
  BY <1>1, FS_Subset
<1>3. /\ IsFiniteSet(I) /\ Cardinality(I) <= Cardinality(J)
      /\ Cardinality(J) = Cardinality(I) => J = I
  BY <1>2, FS_Subset
<1>4. Cardinality(I) \in Nat /\ Cardinality(J) \in Nat
  BY <1>2, <1>3, FS_CardinalityType
<1> QED
  BY <1>2, <1>3, <1>4

\* Among some entries there is a smallest
LEMMA SmallestEntry ==
    ASSUME NEW C \in Nat, NEW h, \A i \in 0 .. C - 1 : h[i] \in Int,
           NEW Q \in SUBSET (0 .. C - 1), Q # {}
    PROVE  \E j \in Q : \A k \in Q : h[j] <= h[k]
<1> DEFINE Below(j) == {k \in Q : h[k] <= h[j]}
           T == {Cardinality(Below(j)) : j \in Q}
<1>1. \A j \in Q : Below(j) \in SUBSET Q
  OBVIOUS
<1>2. \A j \in Q : Cardinality(Below(j)) \in Nat
  BY <1>1, IndicesCounted
<1>3. T \in SUBSET Nat /\ T # {}
  BY <1>2
<1>4. PICK j \in Q : \A k \in Q : Cardinality(Below(j)) <= Cardinality(Below(k))
  <2>1. PICK n \in T : \A m \in T : n <= m
    BY <1>3, LeastNatural
  <2> QED
    BY <2>1
<1>5. ASSUME NEW k \in Q, h[k] < h[j] PROVE FALSE
  <2>1. h[k] \in Int /\ h[j] \in Int /\ \A i \in Q : h[i] \in Int
    OBVIOUS
  <2>2. Below(k) \in SUBSET Below(j) /\ j \in Below(j) /\ j \notin Below(k)
    <3>1. \A i \in Q : h[i] <= h[k] => h[i] <= h[j]
      BY <1>5, <2>1
    <3>2. h[j] <= h[j] /\ ~(h[j] <= h[k])
      BY <1>5, <2>1
    <3> QED
      BY <3>1, <3>2, Zenon
  <2>3. Below(j) \in SUBSET (0 .. C - 1) /\ Below(k) # Below(j)
    BY <2>2
  <2> HIDE DEF Below
  <2>4. /\ Cardinality(Below(k)) < Cardinality(Below(j))
        /\ Cardinality(Below(k)) \in Nat /\ Cardinality(Below(j)) \in Nat
    BY <2>2, <2>3, IndicesCounted
  <2> QED
    BY <1>4, <2>4
<1> QED
  BY <1>5

\* An n-th greatest is an entry, and there are n entries
LEMMA RankIsEntry ==
    ASSUME NEW C \in Nat, NEW h, \A i \in 0 .. C - 1 : h[i] \in Int,
           NEW n \in Nat, NEW x \in Int, Ranks(h, C, n, x)
    PROVE  n \in 1 .. C /\ \E i \in 0 .. C - 1 : h[i] = x
<1>1. Beyond(h, C, x) \in SUBSET From(h, C, x)
  BY DEF From, Beyond
<1>2. From(h, C, x) \in SUBSET (0 .. C - 1)
  BY DEF From
<1>3. /\ Cardinality(Beyond(h, C, x)) \in Nat
      /\ Cardinality(From(h, C, x)) \in Nat /\ Cardinality(From(h, C, x)) <= C
  BY <1>1, <1>2, IndicesCounted
<1>4. From(h, C, x) # Beyond(h, C, x)
  BY <1>3 DEF Ranks
<1>5. \E i \in 0 .. C - 1 : h[i] = x
  BY <1>4 DEF From, Beyond
<1> QED
  BY <1>3, <1>5 DEF Ranks

\* There is but one n-th greatest
LEMMA RankIsUnique ==
    ASSUME NEW C \in Nat, NEW h, \A i \in 0 .. C - 1 : h[i] \in Int,
           NEW n \in Nat, NEW x \in Int, NEW y \in Int,
           Ranks(h, C, n, x), Ranks(h, C, n, y)
    PROVE  x = y
<1>1. ASSUME NEW a \in Int, NEW b \in Int, a < b,
             Ranks(h, C, n, a), Ranks(h, C, n, b)
      PROVE  FALSE
  <2>1. From(h, C, b) \in SUBSET Beyond(h, C, a)
    BY <1>1 DEF From, Beyond
  <2>2. Beyond(h, C, a) \in SUBSET (0 .. C - 1)
    BY DEF Beyond
  <2>3. /\ Cardinality(From(h, C, b)) <= Cardinality(Beyond(h, C, a))
        /\ Cardinality(From(h, C, b)) \in Nat /\ Cardinality(Beyond(h, C, a)) \in Nat
    BY <2>1, <2>2, IndicesCounted
  <2> QED
    BY <1>1, <2>3 DEF Ranks
<1> QED
  BY <1>1

\* There is an n-th greatest of n entries or more
LEMMA RankExists ==
    ASSUME NEW C \in Nat, NEW h, \A i \in 0 .. C - 1 : h[i] \in Int,
           NEW n \in 1 .. C
    PROVE  \E i \in 0 .. C - 1 : Ranks(h, C, n, h[i])
<1>1. \A i \in 0 .. C - 1 : /\ From(h, C, h[i]) \in SUBSET (0 .. C - 1)
                            /\ Beyond(h, C, h[i]) \in SUBSET From(h, C, h[i])
                            /\ i \in From(h, C, h[i]) /\ i \notin Beyond(h, C, h[i])
  BY DEF From, Beyond
<1>2. \A i \in 0 .. C - 1 :
          /\ Cardinality(From(h, C, h[i])) \in Nat
          /\ Cardinality(Beyond(h, C, h[i])) \in Nat
          /\ Cardinality(Beyond(h, C, h[i])) < Cardinality(From(h, C, h[i]))
  BY <1>1, IndicesCounted
<1> DEFINE Enough == {i \in 0 .. C - 1 : Cardinality(From(h, C, h[i])) >= n}
           T == {Cardinality(From(h, C, h[i])) : i \in Enough}
<1>3. Enough # {}
  <2>1. 0 .. C - 1 # {} /\ 0 .. C - 1 \in SUBSET (0 .. C - 1)
    OBVIOUS
  <2>2. PICK i \in 0 .. C - 1 : \A k \in 0 .. C - 1 : h[i] <= h[k]
    BY <2>1, SmallestEntry
  <2>3. From(h, C, h[i]) = 0 .. C - 1
    BY <2>2 DEF From
  <2>4. Cardinality(0 .. C - 1) = C
    BY FS_Interval
  <2> QED
    BY <2>3, <2>4
<1>4. T \in SUBSET Nat /\ T # {}
  BY <1>2, <1>3
<1>5. PICK i \in Enough : \A k \in Enough :
          Cardinality(From(h, C, h[i])) <= Cardinality(From(h, C, h[k]))
  <2>1. PICK m \in T : \A k \in T : m <= k
    BY <1>4, LeastNatural
  <2> QED
    BY <2>1
<1>6. i \in 0 .. C - 1 /\ n <= Cardinality(From(h, C, h[i]))
  OBVIOUS
<1>7. ASSUME Cardinality(Beyond(h, C, h[i])) >= n PROVE FALSE
  <2>1. Beyond(h, C, h[i]) # {}
    BY <1>7, FS_EmptySet
  <2>2. Beyond(h, C, h[i]) \in SUBSET (0 .. C - 1)
    BY <1>1, <1>6
  <2>3. PICK j \in Beyond(h, C, h[i]) : \A k \in Beyond(h, C, h[i]) : h[j] <= h[k]
    BY <2>1, <2>2, SmallestEntry
  <2>4. j \in 0 .. C - 1 /\ From(h, C, h[j]) = Beyond(h, C, h[i])
    BY <1>6, <2>2, <2>3 DEF From, Beyond
  <2>5. j \in Enough
    BY <1>7, <2>4
  <2> QED
    BY <1>2, <1>5, <1>6, <2>4, <2>5
<1>8. Cardinality(Beyond(h, C, h[i])) < n
  BY <1>2, <1>6, <1>7
<1> QED
  BY <1>6, <1>8 DEF Ranks

\* The k greatest stay, if an entry that is less than all of them is replaced
\* by, or only added, one that is not greater than any of them
LEMMA RankKept ==
    ASSUME NEW C \in Nat, NEW D \in Nat, NEW h, NEW g,
           \A i \in 0 .. C - 1 : h[i] \in Int,
           \A i \in 0 .. D - 1 : g[i] \in Int,
           NEW p \in 0 .. D - 1, D = C \/ (D = C + 1 /\ p = C),
           \A i \in 0 .. D - 1 : i # p => g[i] = h[i],
           NEW k \in Nat, NEW m \in Int, Ranks(h, C, k, m),
           g[p] <= m, p < C => h[p] < m,
           NEW n \in 1 .. k, NEW x \in Int, Ranks(h, C, n, x)
    PROVE  Ranks(g, D, n, x)
<1>1. /\ From(h, C, m) \in SUBSET (0 .. C - 1)
      /\ From(h, C, x) \in SUBSET (0 .. C - 1)
      /\ Beyond(h, C, x) \in SUBSET (0 .. C - 1)
      /\ From(g, D, x) \in SUBSET (0 .. D - 1)
      /\ Beyond(g, D, x) \in SUBSET (0 .. D - 1)
  BY DEF From, Beyond
<1>2. x >= m
  <2> SUFFICES ASSUME x < m PROVE FALSE
    OBVIOUS
  <2>1. From(h, C, m) \in SUBSET Beyond(h, C, x)
    BY DEF From, Beyond
  <2>2. /\ Cardinality(From(h, C, m)) <= Cardinality(Beyond(h, C, x))
        /\ Cardinality(From(h, C, m)) \in Nat /\ Cardinality(Beyond(h, C, x)) \in Nat
    BY <1>1, <2>1, IndicesCounted
  <2> QED
    BY <2>2 DEF Ranks
<1>3. Beyond(g, D, x) = Beyond(h, C, x)
  <2>1. ASSUME NEW i \in Beyond(g, D, x) PROVE i \in Beyond(h, C, x)
    <3>1. i \in 0 .. D - 1 /\ g[i] > x
      BY DEF Beyond
    <3>2. i # p
      BY <1>2, <3>1
    <3> QED
      BY <3>1, <3>2 DEF Beyond
  <2>2. ASSUME NEW i \in Beyond(h, C, x) PROVE i \in Beyond(g, D, x)
    <3>1. i \in 0 .. C - 1 /\ h[i] > x
      BY DEF Beyond
    <3>2. i # p
      BY <1>2, <3>1
    <3> QED
      BY <3>1, <3>2 DEF Beyond
  <2> QED
    BY <2>1, <2>2
<1>4. From(h, C, x) \in SUBSET From(g, D, x)
  <2> SUFFICES ASSUME NEW i \in From(h, C, x) PROVE i \in From(g, D, x)
    OBVIOUS
  <2>1. i \in 0 .. C - 1 /\ h[i] >= x
    BY DEF From
  <2>2. i # p
    BY <1>2, <2>1
  <2> QED
    BY <2>1, <2>2 DEF From
<1>5. /\ Cardinality(From(h, C, x)) <= Cardinality(From(g, D, x))
      /\ Cardinality(From(h, C, x)) \in Nat /\ Cardinality(From(g, D, x)) \in Nat
  BY <1>1, <1>4, IndicesCounted
<1> QED
  BY <1>3, <1>5 DEF Ranks

-----------------------------------------------------------------------------
(* Timestamps and the queue *)

LEMMA ReceivedInRange ==
    ASSUME last_ts \in 0 .. IntMod - 1, NEW f \in Frames
    PROVE  Received(f) \in 0 .. IntMod - 1
<1>1. TS[f] \in 0 .. IntMod - 1 /\ TS[f] \in Nat
  BY FramesAssumption, WidthsAssumption
<1>2. ReadMini(TS[f], last_ts) \in 0 .. IntMod - 1
  BY <1>1, ReadMiniInRange
<1> QED
  BY <1>1, <1>2 DEF Received

\* A stamp is an unsigned int
LEMMA StampInRange ==
    ASSUME last_ts \in 0 .. IntMod - 1, NEW f \in Frames
    PROVE  last(f) \in 0 .. IntMod - 1 /\ Stamp(f) \in 0 .. IntMod - 1
<1>1. TS[f] \in 0 .. IntMod - 1 /\ IntMod \in Nat \ {0} /\ HalfMod \in Nat
  BY FramesAssumption, WidthsAssumption
<1>2. \A x \in Int : x % IntMod \in 0 .. IntMod - 1
  BY <1>1
<1>3. Received(f) \in 0 .. IntMod - 1
  BY ReceivedInRange
<1>4. last(f) \in 0 .. IntMod - 1
  BY <1>1 DEF last
<1>5. /\ Received(f) + HalfMod \in Int /\ Received(f) - HalfMod \in Int
  BY <1>1, <1>3
<1>6. Stamp(f) \in {Received(f), (Received(f) + HalfMod) % IntMod,
                    (Received(f) - HalfMod) % IntMod}
  BY DEF Stamp, unwrap_timestamp
<1> QED
  BY <1>2, <1>3, <1>4, <1>5, <1>6

-----------------------------------------------------------------------------
(* The queue *)

\* A frame that is queued comes where Place says: the queue stays sorted, and has
\* one frame more
LEMMA QueuePut ==
    ASSUME TypeOK, Sorted, Apart, resync_offset' \in Int,
           NEW f \in Frames, f \notin Queue, NEW ts \in Int, queue_put(f, ts)
    PROVE  /\ frames' \in Seq(Queued)
           /\ Sorted' /\ Apart' /\ Queue' = Queue \cup {f}
<1> DEFINE t == ts - resync_offset'
           x == [data |-> f, ts |-> t]
<1>1. t \in Int /\ x \in Queued /\ frames \in Seq(Queued)
  <2>1. t \in Int
    OBVIOUS
  <2>2. frames \in Seq(Queued)
    BY DEF TypeOK
  <2> QED
    BY <2>1, <2>2 DEF Queued
<1>2. PICK k \in 0 .. Len(frames) :
        Place(k, t) /\ frames' = InsertAt(frames, k + 1, x)
  BY DEF queue_put
<1>3. x.data = f /\ x.ts = t
  OBVIOUS
<1>4. DOMAIN frames = 1 .. Len(frames) /\ Len(frames) \in Nat
      /\ \A i \in 1 .. Len(frames) : frames[i] \in Queued
  BY <1>1
<1> HIDE DEF t, x
<1>5. /\ frames' \in Seq(Queued) /\ Len(frames') = Len(frames) + 1
      /\ DOMAIN frames' = 1 .. Len(frames) + 1
      /\ \A j \in 1 .. Len(frames) + 1 : frames'[j] =
           IF j < k + 1 THEN frames[j] ELSE IF j = k + 1 THEN x ELSE frames[j - 1]
  <2>1. PICK n \in 1 .. Len(frames) + 1 : n = k + 1
    BY <1>4
  <2>2. frames' = InsertAt(frames, n, x)
    BY <1>2, <2>1
  <2>3. Inserted(Queued, frames, n, x, frames')
    BY <1>1, <2>2, InsertAtProperties
  <2>4. /\ frames' \in Seq(Queued) /\ Len(frames') = Len(frames) + 1
        /\ \A j \in 1 .. Len(frames) + 1 : frames'[j] =
             IF j < n THEN frames[j] ELSE IF j = n THEN x ELSE frames[j - 1]
    BY <2>3 DEF Inserted
  <2>5. DOMAIN frames' = 1 .. Len(frames')
    BY <2>4
  <2> QED
    BY <2>1, <2>4, <2>5
<1>6. \A i \in 1 .. Len(frames) : frames[i].ts \in Int /\ frames[i].data \in Frames
  BY <1>4 DEF Queued
<1>7. /\ \A i \in 1 .. k : frames[i].ts <= t
      /\ \A i \in k + 1 .. Len(frames) : t <= frames[i].ts
  <2>1. CASE k = 0
    <3>1. frames = <<>> \/ t < frames[1].ts
      BY <1>2, <2>1 DEF Place
    <3>2. ASSUME NEW i \in 1 .. Len(frames) PROVE t <= frames[i].ts
      <4>1. 1 \in 1 .. Len(frames) /\ frames # <<>>
        BY <1>4
      <4>2. frames[1].ts <= frames[i].ts
        BY <1>4, <1>6, <4>1 DEF Sorted
      <4> QED
        BY <1>1, <1>6, <3>1, <4>1, <4>2
    <3> QED
      BY <2>1, <3>2
  <2>2. CASE k # 0
    <3>1. k \in 1 .. Len(frames) /\ frames # <<>>
      BY <1>4, <2>2
    <3>2. frames[k].ts <= t
      BY <1>2, <2>2, Zenon DEF Place
    <3>3. \A i \in 1 .. k : frames[i].ts <= frames[k].ts
      BY <1>4, <1>6, <3>1 DEF Sorted
    <3>4. \A i \in k + 1 .. Len(frames) : t < frames[i].ts
      BY <1>2, <2>2, <3>1 DEF Place
    <3>5. \A i \in 1 .. k : i \in 1 .. Len(frames)
      BY <3>1
    <3> QED
      BY <1>1, <1>4, <1>6, <3>1, <3>2, <3>3, <3>4, <3>5
  <2> QED
    BY <2>1, <2>2
<1>8. Sorted'
  <2> SUFFICES ASSUME NEW i \in 1 .. Len(frames) + 1, NEW j \in 1 .. Len(frames) + 1,
                      i < j
               PROVE  frames'[i].ts <= frames'[j].ts
    BY <1>5 DEF Sorted
  <2>1. CASE j < k + 1
    <3>1. frames'[i] = frames[i] /\ frames'[j] = frames[j]
      BY <1>4, <1>5, <2>1
    <3>2. i \in DOMAIN frames /\ j \in DOMAIN frames
      BY <1>4, <2>1
    <3> QED
      BY <3>1, <3>2 DEF Sorted
  <2>2. CASE j = k + 1
    <3>1. frames'[i] = frames[i] /\ i \in 1 .. k /\ frames'[j] = x
      BY <1>4, <1>5, <2>2
    <3> QED
      BY <1>3, <1>7, <3>1
  <2>3. CASE j > k + 1
    <3>1. frames'[j] = frames[j - 1] /\ j - 1 \in k + 1 .. Len(frames)
      BY <1>4, <1>5, <2>3
    <3>2. CASE i < k + 1
      <4>1. frames'[i] = frames[i] /\ i \in 1 .. Len(frames) /\ i < j - 1
        BY <1>4, <1>5, <2>3, <3>2
      <4> QED
        BY <1>4, <3>1, <4>1 DEF Sorted
    <3>3. CASE i = k + 1
      BY <1>3, <1>5, <1>7, <3>1, <3>3
    <3>4. CASE i > k + 1
      <4>1. frames'[i] = frames[i - 1] /\ i - 1 \in 1 .. Len(frames)
        BY <1>4, <1>5, <3>4
      <4>2. i - 1 < j - 1 /\ j - 1 \in 1 .. Len(frames)
        BY <3>1, <1>4
      <4> QED
        BY <1>4, <3>1, <4>1, <4>2 DEF Sorted
    <3> QED
      BY <3>2, <3>3, <3>4
  <2> QED
    BY <1>4, <2>1, <2>2, <2>3
<1> DEFINE old(j) == IF j < k + 1 THEN j ELSE j - 1
<1>9. ASSUME NEW j \in 1 .. Len(frames) + 1, j # k + 1
      PROVE  frames'[j] = frames[old(j)] /\ old(j) \in 1 .. Len(frames)
  BY <1>4, <1>5, <1>9
<1>10. frames'[k + 1] = x /\ k + 1 \in 1 .. Len(frames) + 1
  BY <1>4, <1>5
<1>11. \A i \in 1 .. Len(frames) : frames[i].data # f
  BY <1>4 DEF Queue
<1>12. Apart'
  <2> SUFFICES ASSUME NEW i \in 1 .. Len(frames) + 1, NEW j \in 1 .. Len(frames) + 1,
                      frames'[i].data = frames'[j].data
               PROVE  i = j
    BY <1>5 DEF Apart
  <2>1. CASE i = k + 1 /\ j # k + 1
    BY <1>3, <1>9, <1>10, <1>11, <2>1
  <2>2. CASE j = k + 1 /\ i # k + 1
    BY <1>3, <1>9, <1>10, <1>11, <2>2
  <2>3. CASE i # k + 1 /\ j # k + 1
    <3>1. old(i) = old(j)
      BY <1>4, <1>9, <2>3 DEF Apart
    <3> QED
      BY <2>3, <3>1, <1>4
  <2> QED
    BY <2>1, <2>2, <2>3
<1>13. Queue' = Queue \cup {f}
  <2>1. ASSUME NEW g \in Queue PROVE g \in Queue'
    <3>1. PICK i \in 1 .. Len(frames) : g = frames[i].data
      BY <1>4 DEF Queue
    <3> DEFINE n == IF i < k + 1 THEN i ELSE i + 1
    <3>2. n \in 1 .. Len(frames) + 1 /\ n # k + 1 /\ old(n) = i
      BY <1>4
    <3>3. frames'[n] = frames[i]
      BY <1>9, <3>2
    <3> QED
      BY <1>5, <3>1, <3>2, <3>3 DEF Queue
  <2>2. f \in Queue'
    BY <1>3, <1>5, <1>10 DEF Queue
  <2>3. ASSUME NEW g \in Queue' PROVE g \in Queue \cup {f}
    <3>1. PICK j \in 1 .. Len(frames) + 1 : g = frames'[j].data
      BY <1>5 DEF Queue
    <3>2. CASE j = k + 1
      BY <1>3, <1>10, <3>1, <3>2
    <3>3. CASE j # k + 1
      BY <1>4, <1>9, <3>1, <3>3 DEF Queue
    <3> QED
      BY <3>2, <3>3
  <2> QED
    BY <2>1, <2>2, <2>3
<1> QED
  BY <1>5, <1>8, <1>12, <1>13

\* Taking the head leaves the others
LEMMA QueueGet ==
    ASSUME TypeOK, Sorted, Apart, frames # <<>>, frames' = Tail(frames)
    PROVE  /\ head \in Queued /\ head.data \in Frames /\ head.ts \in Int
           /\ frames' \in Seq(Queued)
           /\ Sorted' /\ Apart'
           /\ head.data \in Queue /\ Queue' = Queue \ {head.data}
<1>1. frames \in Seq(Queued) /\ DOMAIN frames = 1 .. Len(frames)
      /\ Len(frames) \in Nat /\ Len(frames) > 0
  BY DEF TypeOK
<1>2. head \in Queued
  BY <1>1 DEF head
<1>3. head.data \in Frames /\ head.ts \in Int
  BY <1>2 DEF Queued
<1>4. /\ frames' \in Seq(Queued) /\ Len(frames') = Len(frames) - 1
      /\ \A i \in 1 .. Len(frames') : frames'[i] = frames[i + 1]
  BY <1>1, HeadTailProperties
<1>5. DOMAIN frames' = 1 .. Len(frames) - 1
  BY <1>4
<1>6. \A i \in 1 .. Len(frames) - 1 :
        i + 1 \in DOMAIN frames /\ frames'[i] = frames[i + 1]
  BY <1>1, <1>4
<1>7. Sorted'
  BY <1>5, <1>6 DEF Sorted
<1>8. Apart'
  <2> SUFFICES ASSUME NEW i \in 1 .. Len(frames) - 1, NEW j \in 1 .. Len(frames) - 1,
                      frames'[i].data = frames'[j].data
               PROVE  i = j
    BY <1>5 DEF Apart
  <2>1. i + 1 = j + 1
    BY <1>6 DEF Apart
  <2> QED
    BY <2>1
<1>9. 1 \in DOMAIN frames /\ head.data = frames[1].data
  BY <1>1 DEF head
<1>10. head.data \in Queue
  BY <1>9 DEF Queue
<1>11. Queue' = Queue \ {head.data}
  <2>1. ASSUME NEW g \in Queue' PROVE g \in Queue \ {head.data}
    <3>1. PICK i \in 1 .. Len(frames) - 1 : g = frames'[i].data
      BY <1>5 DEF Queue
    <3>2. g = frames[i + 1].data /\ i + 1 \in DOMAIN frames /\ i + 1 # 1
      BY <1>6, <3>1
    <3>3. g # head.data
      BY <1>9, <3>2 DEF Apart
    <3> QED
      BY <3>2, <3>3 DEF Queue
  <2>2. ASSUME NEW g \in Queue \ {head.data} PROVE g \in Queue'
    <3>1. PICK i \in DOMAIN frames : g = frames[i].data
      BY DEF Queue
    <3>2. i # 1
      BY <1>9, <3>1, <2>2
    <3>3. i - 1 \in 1 .. Len(frames) - 1 /\ (i - 1) + 1 = i
      BY <1>1, <3>2
    <3>4. frames'[i - 1] = frames[i]
      BY <1>6, <3>3
    <3> QED
      BY <1>5, <3>1, <3>3, <3>4 DEF Queue
  <2> QED
    BY <2>1, <2>2
<1> QED
  BY <1>2, <1>3, <1>4, <1>7, <1>8, <1>10, <1>11

-----------------------------------------------------------------------------
(* Types and the history *)

LEMMA Settings ==
    /\ JB_HISTORY_SZ \in Nat \ {0} /\ JB_HISTORY_DROPPCT \in Nat
    /\ JB_HISTORY_MAXBUF_SZ \in Nat \ {0}
    /\ target_extra \in Nat /\ resync_threshold \in Nat /\ ShrinkSilent \in Nat
    /\ MaxDiscont \in Nat /\ MaxNow \in Nat
    /\ IntMod \in Nat \ {0}
    /\ interpl \in Nat /\ ms \in Nat /\ interpl >= 1 /\ interpl <= ms
  BY SettingsAssumption, WidthsAssumption, LengthsAssumption

\* What the buffers are calculated of
HistoryTyped ==
    history \in [0 .. JB_HISTORY_SZ - 1 -> Int] /\ hist_ptr \in Nat

\* With the signs changed, the least is the greatest
Negated(h) == [i \in 0 .. JB_HISTORY_SZ - 1 |-> -h[i]]

\* Each entry of MaxBuf, and of MinBuf, is the delay of its rank, if there are
\* enough delays
MaxBufRanked == \A j \in 0 .. JB_HISTORY_MAXBUF_SZ - 1 :
    /\ MaxBuf[j] \in Int
    /\ IF j + 1 <= Count THEN Ranks(history, Count, j + 1, MaxBuf[j])
       ELSE MaxBuf[j] = JB_LONGMIN
MinBufRanked == \A j \in 0 .. JB_HISTORY_MAXBUF_SZ - 1 :
    /\ MinBuf[j] \in Int
    /\ IF j + 1 <= Count THEN Ranks(Negated(history), Count, j + 1, -MinBuf[j])
       ELSE MinBuf[j] = JB_LONGMAX

LEMMA HistoryCounted ==
    ASSUME HistoryTyped
    PROVE  /\ Count \in Nat /\ Count <= JB_HISTORY_SZ
           /\ \A i \in 0 .. Count - 1 :
                 /\ Negated(history)[i] = -history[i]
                 /\ history[i] \in Int /\ Negated(history)[i] \in Int
<1>1. Count \in Nat /\ Count <= JB_HISTORY_SZ
  BY Settings DEF HistoryTyped, Count, Smaller
<1>2. \A i \in 0 .. Count - 1 : i \in 0 .. JB_HISTORY_SZ - 1
  BY <1>1, Settings
<1>3. \A i \in 0 .. JB_HISTORY_SZ - 1 : history[i] \in Int
  BY DEF HistoryTyped
<1>4. \A i \in 0 .. JB_HISTORY_SZ - 1 : Negated(history)[i] = -history[i]
  BY DEF Negated
<1> QED
  BY <1>1, <1>2, <1>3, <1>4

\* Greatest and Least are ranks
LEMMA BothAreRanks ==
    ASSUME HistoryTyped, NEW n, NEW x \in Int
    PROVE  /\ Greatest(n, x) <=> Ranks(history, Count, n, x)
           /\ Least(n, x) <=> Ranks(Negated(history), Count, n, -x)
<1> DEFINE I == 0 .. Count - 1
           same == {i \in I : history[i] = x}
<1>1. \A i \in I : /\ history[i] \in Int
                   /\ Negated(history)[i] = -history[i]
  BY HistoryCounted
<1>2. /\ Beyond(history, Count, x) = {i \in I : history[i] > x}
      /\ From(history, Count, x) = {i \in I : history[i] > x} \cup same
  BY <1>1 DEF From, Beyond
<1>3. /\ Beyond(Negated(history), Count, -x) = {i \in I : history[i] < x}
      /\ From(Negated(history), Count, -x) = {i \in I : history[i] < x} \cup same
  BY <1>1 DEF From, Beyond
<1>4. Greatest(n, x) <=> Ranks(history, Count, n, x)
  BY <1>2, Zenon DEF Greatest, Nth, Ranks
<1>5. Least(n, x) <=> Ranks(Negated(history), Count, n, -x)
  BY <1>3, Zenon DEF Least, Nth, Ranks
<1> QED
  BY <1>4, <1>5

LEMMA MaxBufFound == HistoryTyped => MaxBufRanked
<1> SUFFICES ASSUME HistoryTyped, NEW j \in 0 .. JB_HISTORY_MAXBUF_SZ - 1
             PROVE  /\ MaxBuf[j] \in Int
                    /\ IF j + 1 <= Count
                       THEN Ranks(history, Count, j + 1, MaxBuf[j])
                       ELSE MaxBuf[j] = JB_LONGMIN
  BY DEF MaxBufRanked
<1> DEFINE Found == \E i \in 0 .. Count - 1 : Greatest(j + 1, history[i])
           D == {history[i] : i \in 0 .. Count - 1}
<1>1. /\ Count \in Nat /\ j \in Nat
      /\ \A i \in 0 .. Count - 1 : history[i] \in Int
  BY HistoryCounted, Settings
<1>2. Found <=> j + 1 <= Count
  <2>1. ASSUME NEW i \in 0 .. Count - 1, Greatest(j + 1, history[i])
        PROVE  j + 1 <= Count
    <3>1. Ranks(history, Count, j + 1, history[i])
      BY <1>1, <2>1, BothAreRanks
    <3> QED
      BY <1>1, <3>1, RankIsEntry
  <2>2. ASSUME j + 1 <= Count PROVE Found
    <3>1. j + 1 \in 1 .. Count
      BY <1>1, <2>2
    <3>2. PICK i \in 0 .. Count - 1 : Ranks(history, Count, j + 1, history[i])
      BY <1>1, <3>1, RankExists
    <3> QED
      BY <1>1, <3>2, BothAreRanks
  <2> QED
    BY <2>1, <2>2
<1>3. MaxBuf[j] = IF Found THEN CHOOSE x \in D : Greatest(j + 1, x)
                  ELSE JB_LONGMIN
  BY Zenon DEF MaxBuf
<1>4. CASE Found
  <2>1. \E x \in D : Greatest(j + 1, x)
    BY <1>4
  <2> HIDE DEF D
  <2>2. /\ (CHOOSE x \in D : Greatest(j + 1, x)) \in D
        /\ Greatest(j + 1, CHOOSE x \in D : Greatest(j + 1, x))
    BY <2>1, Zenon
  <2>3. MaxBuf[j] \in D /\ Greatest(j + 1, MaxBuf[j])
    BY <1>3, <1>4, <2>2, Zenon
  <2>4. MaxBuf[j] \in Int
    BY <1>1, <2>3 DEF D
  <2> QED
    BY <1>2, <1>4, <2>3, <2>4, BothAreRanks
<1>5. CASE ~Found
  <2>1. MaxBuf[j] = JB_LONGMIN /\ ~(j + 1 <= Count)
    BY <1>2, <1>3, <1>5
  <2> QED
    BY <2>1, SettingsAssumption
<1> QED
  BY <1>4, <1>5

LEMMA MinBufFound == HistoryTyped => MinBufRanked
<1> SUFFICES ASSUME HistoryTyped, NEW j \in 0 .. JB_HISTORY_MAXBUF_SZ - 1
             PROVE  /\ MinBuf[j] \in Int
                    /\ IF j + 1 <= Count
                       THEN Ranks(Negated(history), Count, j + 1, -MinBuf[j])
                       ELSE MinBuf[j] = JB_LONGMAX
  BY DEF MinBufRanked
<1> DEFINE Found == \E i \in 0 .. Count - 1 : Least(j + 1, history[i])
           D == {history[i] : i \in 0 .. Count - 1}
           g == Negated(history)
<1>1. /\ Count \in Nat /\ j \in Nat
      /\ \A i \in 0 .. Count - 1 :
            history[i] \in Int /\ g[i] \in Int /\ g[i] = -history[i]
  BY HistoryCounted, Settings
<1> HIDE DEF g
<1>2. Found <=> j + 1 <= Count
  <2>1. ASSUME NEW i \in 0 .. Count - 1, Least(j + 1, history[i])
        PROVE  j + 1 <= Count
    <3>1. Ranks(g, Count, j + 1, -history[i]) /\ -history[i] \in Int
      BY <1>1, <2>1, BothAreRanks DEF g
    <3> QED
      BY <1>1, <3>1, RankIsEntry
  <2>2. ASSUME j + 1 <= Count PROVE Found
    <3>1. j + 1 \in 1 .. Count
      BY <1>1, <2>2
    <3>2. PICK i \in 0 .. Count - 1 : Ranks(g, Count, j + 1, g[i])
      BY <1>1, <3>1, RankExists
    <3>3. Ranks(g, Count, j + 1, -history[i])
      BY <1>1, <3>2
    <3> QED
      BY <1>1, <3>3, BothAreRanks DEF g
  <2> QED
    BY <2>1, <2>2
<1>3. MinBuf[j] = IF Found THEN CHOOSE x \in D : Least(j + 1, x)
                  ELSE JB_LONGMAX
  BY Zenon DEF MinBuf
<1>4. CASE Found
  <2>1. \E x \in D : Least(j + 1, x)
    BY <1>4
  <2> HIDE DEF D
  <2>2. /\ (CHOOSE x \in D : Least(j + 1, x)) \in D
        /\ Least(j + 1, CHOOSE x \in D : Least(j + 1, x))
    BY <2>1, Zenon
  <2>3. MinBuf[j] \in D /\ Least(j + 1, MinBuf[j])
    BY <1>3, <1>4, <2>2, Zenon
  <2>4. MinBuf[j] \in Int
    BY <1>1, <2>3 DEF D
  <2> QED
    BY <1>2, <1>4, <2>3, <2>4, BothAreRanks DEF g
<1>5. CASE ~Found
  <2>1. MinBuf[j] = JB_LONGMAX /\ ~(j + 1 <= Count)
    BY <1>2, <1>3, <1>5
  <2> QED
    BY <2>1, SettingsAssumption
<1> QED
  BY <1>4, <1>5

\* The same, in the next state
LEMMA BuffersFoundNext == HistoryTyped' => MaxBufRanked' /\ MinBufRanked'
  BY MaxBufFound, MinBufFound, PTL

\* Record leaves the ranks that the buffers hold, if it replaces or adds a delay
\* that "doesn't change them"
LEMMA UntouchedKeepsBuffers ==
    ASSUME TypeOK, CacheFresh, NEW d \in Int, Untouched(d),
           Record(hist_ptr, d), HistoryTyped'
    PROVE  hist_maxbuf = MaxBuf' /\ hist_minbuf = MinBuf'
<1> DEFINE S == JB_HISTORY_SZ
           K == JB_HISTORY_MAXBUF_SZ
           p == hist_ptr % S
<1>1. HistoryTyped
  BY DEF TypeOK, HistoryTyped
<1>2. MaxBufRanked /\ MinBufRanked /\ MaxBufRanked' /\ MinBufRanked'
  BY <1>1, MaxBufFound, MinBufFound, BuffersFoundNext
<1>3. hist_maxbuf = MaxBuf /\ hist_minbuf = MinBuf
  BY DEF CacheFresh, Untouched
<1>4. /\ hist_ptr + 1 >= S
      /\ d >= MinBuf[K - 1] /\ d <= MaxBuf[K - 1]
      /\ history[p] > MinBuf[K - 1] /\ history[p] < MaxBuf[K - 1]
  BY <1>3, Zenon DEF Untouched
<1>5. S \in Nat \ {0} /\ K \in Nat \ {0}
  BY Settings
\* Where the delay goes
<1>6. /\ Count \in Nat /\ Count' = S /\ hist_ptr \in Nat
      /\ p \in 0 .. S - 1
      /\ S = Count \/ (S = Count + 1 /\ p = Count)
  <2>1. hist_ptr \in Nat /\ hist_ptr' = hist_ptr + 1
    BY DEF TypeOK, Record
  <2>2. Count' = S
    BY <1>4, <1>5, <2>1 DEF Count, Smaller
  <2>3. p \in 0 .. S - 1
    BY <1>5, <2>1
  <2>4. CASE hist_ptr >= S
    BY <1>5, <2>1, <2>2, <2>3, <2>4 DEF Count, Smaller
  <2>5. CASE hist_ptr < S
    <3>1. hist_ptr = S - 1 /\ hist_ptr \in 0 .. S - 1
      BY <1>4, <1>5, <2>1, <2>5
    <3>2. p = hist_ptr
      BY <1>5, <3>1, ModSmall
    <3>3. Count = S - 1
      BY <1>5, <3>1 DEF Count, Smaller
    <3> QED
      BY <1>5, <2>1, <2>2, <2>3, <3>1, <3>2, <3>3
  <2> QED
    BY <1>5, <2>1, <2>4, <2>5
<1>7. \A i \in 0 .. S - 1 :
          /\ history'[i] = IF i = p THEN d ELSE history[i]
          /\ Negated(history')[i] = IF i = p THEN -d ELSE Negated(history)[i]
          /\ history[i] \in Int /\ history'[i] \in Int
          /\ Negated(history)[i] = -history[i]
          /\ Negated(history')[i] \in Int /\ Negated(history)[i] \in Int
  <2>1. /\ history \in [0 .. S - 1 -> Int] /\ p \in 0 .. S - 1
        /\ history' = [history EXCEPT ![p] = d]
    BY <1>1, <1>6 DEF HistoryTyped, Record
  <2> HIDE DEF p
  <2>2. \A i \in 0 .. S - 1 : history'[i] = IF i = p THEN d ELSE history[i]
    BY <2>1
  <2>3. \A i \in 0 .. S - 1 : /\ Negated(history)[i] = -history[i]
                             /\ Negated(history')[i] = -history'[i]
    BY DEF Negated
  <2>4. \A i \in 0 .. S - 1 : history[i] \in Int /\ history'[i] \in Int
    BY <2>1, <2>2
  <2> TAKE i \in 0 .. S - 1
  <2>5. Negated(history)[i] = -history[i] /\ Negated(history')[i] = -history'[i]
    BY <2>3
  <2>6. history'[i] = IF i = p THEN d ELSE history[i]
    BY <2>2
  <2>7. Negated(history')[i] = IF i = p THEN -d ELSE Negated(history)[i]
    BY <2>5, <2>6
  <2>8. history[i] \in Int /\ history'[i] \in Int
    BY <2>4
  <2>9. -history[i] \in Int /\ -history'[i] \in Int
    BY <2>8
  <2> QED
    BY <2>5, <2>6, <2>7, <2>8, <2>9
<1> HIDE DEF S, K, p
\* There are enough delays, for JB_LONGMIN is less than JB_LONGMAX
<1>8. K <= Count
  <2> SUFFICES ASSUME ~(K <= Count) PROVE FALSE
    OBVIOUS
  <2>1. K - 1 \in 0 .. K - 1 /\ ~((K - 1) + 1 <= Count)
    BY <1>5, <1>6
  <2>2. MaxBuf[K - 1] = JB_LONGMIN /\ MinBuf[K - 1] = JB_LONGMAX
    BY <1>2, <2>1 DEF MaxBufRanked, MinBufRanked, K
  <2> QED
    BY <1>4, <2>2, SettingsAssumption
<1>9. K - 1 \in 0 .. K - 1 /\ (K - 1) + 1 = K
  BY <1>5
<1>10. /\ MaxBuf[K - 1] \in Int /\ Ranks(history, Count, K, MaxBuf[K - 1])
       /\ MinBuf[K - 1] \in Int
       /\ Ranks(Negated(history), Count, K, -MinBuf[K - 1])
  BY <1>2, <1>8, <1>9 DEF MaxBufRanked, MinBufRanked, K
<1>11. \A i \in 0 .. Count - 1 : i \in 0 .. S - 1
  BY <1>5, <1>6
<1>12. ASSUME NEW j \in 0 .. K - 1 PROVE MaxBuf[j] = MaxBuf'[j]
  <2> DEFINE g == history
             k == history'
             m == MaxBuf[K - 1]
             x == MaxBuf[j]
             y == MaxBuf'[j]
  <2>1. j + 1 \in 1 .. K /\ j + 1 <= Count /\ j + 1 <= S
    BY <1>5, <1>6, <1>8
  <2>2. x \in Int /\ Ranks(g, Count, j + 1, x)
    BY <1>2, <2>1 DEF MaxBufRanked, K
  <2>3. y \in Int /\ Ranks(k, S, j + 1, y)
    BY <1>2, <1>6, <2>1 DEF MaxBufRanked, K
  <2>4. k[p] <= m /\ g[p] < m /\ m \in Int
    BY <1>4, <1>6, <1>7, <1>10
  <2>5. /\ Ranks(g, Count, K, m)
        /\ \A i \in 0 .. S - 1 : /\ k[i] \in Int /\ g[i] \in Int
                                 /\ i # p => k[i] = g[i]
    BY <1>7, <1>10
  <2> HIDE DEF g, k, m, x, y
  <2>6. Ranks(k, S, j + 1, x)
    BY <1>5, <1>6, <1>11, <2>1, <2>2, <2>4, <2>5, RankKept
  <2>7. x = y
    BY <1>5, <2>1, <2>2, <2>3, <2>5, <2>6, RankIsUnique
  <2> QED
    BY <2>7 DEF x, y
<1>13. ASSUME NEW j \in 0 .. K - 1 PROVE MinBuf[j] = MinBuf'[j]
  <2> DEFINE g == Negated(history)
             k == Negated(history')
             m == -MinBuf[K - 1]
             x == -MinBuf[j]
             y == -MinBuf'[j]
  <2>1. j + 1 \in 1 .. K /\ j + 1 <= Count /\ j + 1 <= S
    BY <1>5, <1>6, <1>8
  <2>2. MinBuf[j] \in Int /\ x \in Int /\ Ranks(g, Count, j + 1, x)
    BY <1>2, <2>1 DEF MinBufRanked, K
  <2>3. MinBuf'[j] \in Int /\ y \in Int /\ Ranks(k, S, j + 1, y)
    BY <1>2, <1>6, <2>1 DEF MinBufRanked, K
  <2>4. k[p] <= m /\ g[p] < m /\ m \in Int
    BY <1>4, <1>6, <1>7, <1>10
  <2>5. /\ Ranks(g, Count, K, m)
        /\ \A i \in 0 .. S - 1 : /\ k[i] \in Int /\ g[i] \in Int
                                 /\ i # p => k[i] = g[i]
    BY <1>7, <1>10
  <2> HIDE DEF g, k, m, x, y
  <2>6. Ranks(k, S, j + 1, x)
    BY <1>5, <1>6, <1>11, <2>1, <2>2, <2>4, <2>5, RankKept
  <2>7. x = y
    BY <1>5, <2>1, <2>2, <2>3, <2>5, <2>6, RankIsUnique
  <2> QED
    BY <2>2, <2>3, <2>7 DEF x, y
<1> QED
  BY <1>3, <1>12, <1>13, Zenon DEF MaxBuf, MinBuf, K

\* The buffers are calculated of delays, and filled up with JB_LONGMIN and
\* JB_LONGMAX; what is taken of them is an entry of theirs
LEMMA HistoryIsTyped ==
    ASSUME TypeOK, history_get
    PROVE  /\ hist_maxbuf' \in [0 .. JB_HISTORY_MAXBUF_SZ - 1 -> Int]
           /\ hist_minbuf' \in [0 .. JB_HISTORY_MAXBUF_SZ - 1 -> Int]
           /\ hist_maxbuf_valid' \in BOOLEAN
           /\ min' \in Int /\ jitter' \in Int
<1> DEFINE Worst == 0 .. JB_HISTORY_MAXBUF_SZ - 1
<1>1. /\ hist_maxbuf \in [Worst -> Int] /\ hist_minbuf \in [Worst -> Int]
      /\ hist_maxbuf_valid \in BOOLEAN
      /\ history \in [0 .. JB_HISTORY_SZ - 1 -> Int] /\ hist_ptr \in Nat
  BY DEF TypeOK
<1>2. Count \in Nat /\ Count <= JB_HISTORY_SZ
  BY <1>1, Settings DEF Count, Smaller
<1>3. \A i \in 0 .. Count - 1 : history[i] \in Int
  BY <1>1, <1>2, Settings
<1>4. {history[i] : i \in 0 .. Count - 1} \subseteq Int
  BY <1>3
<1>5. JB_LONGMIN \in Int /\ JB_LONGMAX \in Int
  BY SettingsAssumption
<1>6. MaxBuf \in [Worst -> Int]
  <2>1. ASSUME NEW j \in Worst
        PROVE  (IF \E i \in 0 .. Count - 1 : Greatest(j + 1, history[i])
                THEN CHOOSE x \in {history[i] : i \in 0 .. Count - 1} :
                       Greatest(j + 1, x)
                ELSE JB_LONGMIN) \in Int
    <3>1. CASE \E i \in 0 .. Count - 1 : Greatest(j + 1, history[i])
      <4>1. \E x \in {history[i] : i \in 0 .. Count - 1} : Greatest(j + 1, x)
        BY <3>1
      <4>2. (CHOOSE x \in {history[i] : i \in 0 .. Count - 1} :
               Greatest(j + 1, x)) \in {history[i] : i \in 0 .. Count - 1}
        BY <4>1, Zenon
      <4> QED
        BY <1>4, <3>1, <4>2, Zenon
    <3>2. CASE ~\E i \in 0 .. Count - 1 : Greatest(j + 1, history[i])
      BY <1>5, <3>2
    <3> QED
      BY <3>1, <3>2
  <2> QED
    BY <2>1, Zenon DEF MaxBuf
<1>7. MinBuf \in [Worst -> Int]
  <2>1. ASSUME NEW j \in Worst
        PROVE  (IF \E i \in 0 .. Count - 1 : Least(j + 1, history[i])
                THEN CHOOSE x \in {history[i] : i \in 0 .. Count - 1} :
                       Least(j + 1, x)
                ELSE JB_LONGMAX) \in Int
    <3>1. CASE \E i \in 0 .. Count - 1 : Least(j + 1, history[i])
      <4>1. \E x \in {history[i] : i \in 0 .. Count - 1} : Least(j + 1, x)
        BY <3>1
      <4>2. (CHOOSE x \in {history[i] : i \in 0 .. Count - 1} :
               Least(j + 1, x)) \in {history[i] : i \in 0 .. Count - 1}
        BY <4>1, Zenon
      <4> QED
        BY <1>4, <3>1, <4>2, Zenon
    <3>2. CASE ~\E i \in 0 .. Count - 1 : Least(j + 1, history[i])
      BY <1>5, <3>2
    <3> QED
      BY <3>1, <3>2
  <2> QED
    BY <2>1, Zenon DEF MinBuf
<1> HIDE DEF Worst
<1>8. /\ hist_maxbuf' \in [Worst -> Int] /\ hist_minbuf' \in [Worst -> Int]
      /\ hist_maxbuf_valid' \in BOOLEAN
  BY <1>1, <1>6, <1>7 DEF history_get, history_calc_maxbuf
<1>9. PICK index \in Worst :
        /\ min' = hist_minbuf'[index]
        /\ jitter' = hist_maxbuf'[index] - hist_minbuf'[index]
  <2> DEFINE index == Smaller((Count * JB_HISTORY_DROPPCT) \div 100,
                              JB_HISTORY_MAXBUF_SZ - 1)
  <2>1. Count * JB_HISTORY_DROPPCT \in Nat
    BY <1>2, Settings
  <2>2. (Count * JB_HISTORY_DROPPCT) \div 100 \in Nat
    BY <2>1
  <2>3. index \in Worst
    BY <2>2, Settings DEF Smaller, Worst
  <2>4. /\ min' = hist_minbuf'[index]
        /\ jitter' = hist_maxbuf'[index] - hist_minbuf'[index]
    BY DEF history_get
  <2> QED
    BY <2>3, <2>4
<1> QED
  BY <1>8, <1>9 DEF Worst

\* history_put
LEMMA MeasureIsTyped ==
    ASSUME TypeOK, NEW ts \in Int, Measure(ts)
    PROVE  /\ history' \in [0 .. JB_HISTORY_SZ - 1 -> Int] /\ hist_ptr' \in Nat
           /\ hist_maxbuf_valid' \in BOOLEAN
           /\ last_delay' \in Int /\ resync_offset' \in Int
           /\ cnt_delay_discont' \in 0 .. MaxDiscont
<1>1. /\ history \in [0 .. JB_HISTORY_SZ - 1 -> Int] /\ hist_ptr \in Nat
      /\ hist_maxbuf_valid \in BOOLEAN
      /\ last_delay \in Int /\ resync_offset \in Int
      /\ cnt_delay_discont \in 0 .. MaxDiscont /\ now \in Nat
  BY DEF TypeOK
<1>2. ASSUME NEW p \in Nat, NEW d \in Int, Record(p, d)
      PROVE  history' \in [0 .. JB_HISTORY_SZ - 1 -> Int] /\ hist_ptr' \in Nat
  <2>1. history' = [history EXCEPT ![p % JB_HISTORY_SZ] = d] /\ hist_ptr' = p + 1
    BY <1>2 DEF Record
  <2>2. [history EXCEPT ![p % JB_HISTORY_SZ] = d] \in [0 .. JB_HISTORY_SZ - 1 -> Int]
    BY <1>1, Zenon
  <2> QED
    BY <2>1, <2>2
<1>3. Delay(ts) \in Int
  BY <1>1 DEF Delay
<1>4. \A d : Untouched(d) \in BOOLEAN
  BY DEF Untouched
<1>5. 0 \in 0 .. MaxDiscont
  BY Settings
<1> QED
  <2>1. CASE UNCHANGED <<ring, hist_maxbuf_valid, delays>>
    BY <1>1, <2>1
  <2>2. CASE /\ last_delay' = Delay(ts) /\ cnt_delay_discont' = 0
             /\ Record(hist_ptr, Delay(ts))
             /\ hist_maxbuf_valid' = Untouched(Delay(ts))
             /\ UNCHANGED resync_offset
    BY <1>1, <1>2, <1>3, <1>4, <1>5, <2>2
  <2>3. CASE /\ last_delay' = 0 /\ cnt_delay_discont' = 0
             /\ resync_offset' = ts - now
             /\ Record(0, 0)
             /\ hist_maxbuf_valid' = FALSE
    <3>1. history' \in [0 .. JB_HISTORY_SZ - 1 -> Int] /\ hist_ptr' \in Nat
      BY <1>2, <2>3
    <3> QED
      <4>1. ts - now \in Int /\ 0 \in Int
        BY <1>1
      <4> QED
        BY <1>5, <2>3, <3>1, <4>1, Zenon
  <2> QED
    BY <2>1, <2>2, <2>3 DEF Measure

-----------------------------------------------------------------------------
(* Timestamps *)

\* A frame near the latest gets back the timestamp it was sent with
LEMMA NearIsRight ==
    ASSUME last_ts \in 0 .. IntMod - 1, NEW f \in Frames,
           TS[f] - last_ts < HalfMod - Jump, last_ts - TS[f] < HalfMod - Jump
    PROVE  Stamp(f) = TS[f]
<1>1. /\ HalfMod \in Nat \ {0} /\ Jump \in 1 .. HalfMod - 1
      /\ HalfMod <= 2 * Jump /\ IntMod \in Nat \ {0}
  BY WidthsAssumption
<1>2. TS[f] \in 0 .. IntMod - 1 /\ TS[f] \in Nat /\ last_ts \in Nat
  BY <1>1, FramesAssumption
<1>3. CASE f \in Full
  <2>1. Received(f) = TS[f]
    BY <1>3 DEF Received
  <2>2. last(f) \in Nat /\ TS[f] - last(f) <= Jump /\ last(f) - TS[f] <= Jump
    BY <1>1, <1>2 DEF last
  <2> QED
    BY <1>2, <2>1, <2>2, FullIsRight DEF Stamp
<1>4. CASE f \notin Full
  <2>1. last(f) = last_ts /\ Received(f) = ReadMini(TS[f], last_ts)
    BY <1>4, FramesAssumption DEF last, Received
  <2> QED
    BY <1>2, <2>1, ReadMiniIsRight DEF Stamp
<1> QED
  BY <1>3, <1>4

\* Stamping a frame
LEMMA StampsStep ==
    ASSUME TypeOK, StampInv, NEW f \in Frames, Stamps(f)
    PROVE  /\ last_ts' \in 0 .. IntMod - 1 /\ voiceformat' \in BOOLEAN
           /\ stamp' \in [Frames -> -1 .. IntMod - 1] /\ timely' \in BOOLEAN
           /\ StampInv'
<1>1. /\ last_ts \in 0 .. IntMod - 1 /\ voiceformat \in BOOLEAN
      /\ stamp \in [Frames -> -1 .. IntMod - 1] /\ timely \in BOOLEAN
  BY DEF TypeOK
<1>2. /\ stamp' = [stamp EXCEPT ![f] = Stamp(f)]
      /\ timely' = (timely /\ Close(f))
      /\ last_ts' = Bigger(last(f), Stamp(f))
      /\ voiceformat' = (voiceformat \/ Type[f] = "voice")
  BY DEF Stamps
<1>3. last(f) \in 0 .. IntMod - 1 /\ Stamp(f) \in 0 .. IntMod - 1
  BY <1>1, StampInRange
<1>4. /\ voiceformat' \in BOOLEAN /\ timely' \in BOOLEAN
  BY <1>2, Zenon
<1>5. last_ts' \in 0 .. IntMod - 1
  BY <1>2, <1>3 DEF Bigger
<1>6. stamp' \in [Frames -> -1 .. IntMod - 1]
  <2>1. Stamp(f) \in -1 .. IntMod - 1
    BY <1>3, Settings
  <2> QED
    BY <1>1, <1>2, <2>1, Zenon
<1>7. ASSUME timely' PROVE timely /\ Close(f)
  BY <1>2, <1>7, Zenon
<1>8. \A g \in Frames : TS[g] \in 0 .. IntMod - 1 /\ TS[g] \in Nat
  BY FramesAssumption, Settings
<1>9. Stamped' = Stamped \cup {f}
  <2>1. stamp'[f] # -1
    BY <1>1, <1>2, <1>3, Settings
  <2>2. \A g \in Frames \ {f} : stamp'[g] = stamp[g]
    BY <1>1, <1>2
  <2> QED
    BY <2>1, <2>2 DEF Stamped
<1>10. ASSUME timely'
       PROVE  /\ \A g \in Stamped' : stamp'[g] = TS[g] /\ TS[g] <= last_ts'
              /\ last_ts' \in {0} \cup {TS[g] : g \in Stamped'}
  <2>1. /\ \A g \in Stamped : stamp[g] = TS[g] /\ TS[g] <= last_ts
        /\ last_ts \in {0} \cup {TS[g] : g \in Stamped}
    BY <1>7, <1>10 DEF StampInv
  <2>2. PICK t \in {0} \cup {TS[g] : g \in Stamped} :
          /\ \A g \in Stamped : TS[g] <= t
          /\ TS[f] - t < HalfMod - Jump /\ t - TS[f] < HalfMod - Jump
    BY <1>7, <1>10 DEF Close
  <2>3. Stamped \subseteq Frames
    BY DEF Stamped
  <2>4. t = last_ts
    <3>1. t \in Nat /\ last_ts \in Nat
      BY <1>1, <1>8, <2>2, <2>3
    <3>2. t <= last_ts
      BY <2>1, <2>2, <3>1
    <3>3. last_ts <= t
      BY <2>1, <2>2, <3>1
    <3> QED
      BY <3>1, <3>2, <3>3
  <2>5. Stamp(f) = TS[f]
    BY <1>1, <2>2, <2>4, NearIsRight
  <2>6. /\ last_ts' \in {last_ts, TS[f]} /\ last_ts' >= last_ts
        /\ last_ts' >= TS[f]
    BY <1>1, <1>2, <1>8, <2>5 DEF Bigger, last
  <2>7. ASSUME NEW g \in Stamped' PROVE stamp'[g] = TS[g] /\ TS[g] <= last_ts'
    <3>1. CASE g = f
      BY <1>1, <1>2, <2>5, <2>6, <3>1
    <3>2. CASE g # f
      <4>1. g \in Stamped /\ g \in Frames
        BY <1>9, <2>3, <2>7, <3>2
      <4>2. stamp'[g] = stamp[g] /\ TS[g] <= last_ts
        BY <1>1, <1>2, <2>1, <3>2, <4>1
      <4>3. TS[g] \in Nat /\ last_ts \in Nat /\ last_ts' \in Nat
        BY <1>1, <1>5, <1>8, <4>1
      <4> QED
        BY <2>1, <2>6, <4>1, <4>2, <4>3
    <3> QED
      BY <3>1, <3>2
  <2>8. last_ts' \in {0} \cup {TS[g] : g \in Stamped'}
    BY <1>9, <2>1, <2>6
  <2> QED
    BY <2>7, <2>8
<1> QED
  BY <1>4, <1>5, <1>6, <1>10 DEF StampInv

-----------------------------------------------------------------------------
(* Frames arrive *)

\* An arriving frame is not queued, and its event was neither handed over nor
\* freed
LEMMA Unknown ==
    ASSUME BufInv, NEW f, Arrives(f)
    PROVE  /\ f \in Frames /\ f \notin Queue /\ f \notin handed /\ f \notin freed
           /\ arrived' = arrived \cup {f} /\ arrived' \subseteq Frames
  BY DEF BufInv, TypeOK, Accounted, Arrives

LEMMA PlayingUnchanged ==
    ASSUME BufInv, UNCHANGED <<playing, heard>>
    PROVE  OrderInv'
  BY DEF BufInv, OrderInv, Silent, Wanted

LEMMA QueueUnchanged ==
    ASSUME BufInv, UNCHANGED frames
    PROVE  frames' \in Seq(Queued) /\ Sorted' /\ Apart' /\ Queue' = Queue
  BY DEF BufInv, TypeOK, Sorted, Apart, Queue

\* Only a voice frame is freed when it arrives
LEMMA FreedOnArrival ==
    ASSUME BufInv, NEW f, Arrives(f), Type[f] = "voice",
           freed' = freed \cup {f}, UNCHANGED <<frames, handed>>
    PROVE  /\ freed' \subseteq Frames
           /\ Sorted' /\ Apart' /\ Accounted' /\ OnlyVoiceDropped'
<1>1. f \in Frames /\ f \notin Queue /\ f \notin handed /\ f \notin freed
      /\ arrived' = arrived \cup {f}
  BY Unknown
<1>2. Sorted' /\ Apart' /\ Queue' = Queue
  BY QueueUnchanged
<1>3. freed' \subseteq Frames
  BY <1>1 DEF BufInv, TypeOK
<1>4. Accounted'
  BY <1>1, <1>2 DEF BufInv, Accounted
<1>5. OnlyVoiceDropped'
  BY DEF BufInv, OnlyVoiceDropped
<1> QED
  BY <1>2, <1>3, <1>4, <1>5

LEMMA ArriveTooSoonStep ==
    ASSUME BufInv, NEW f, ArriveTooSoon(f)
    PROVE  BufInv'
<1>1. Arrives(f) /\ f \in Frames \ Full /\ freed' = freed \cup {f}
      /\ UNCHANGED <<frames, handed, playing, heard, session, stamp, timely>>
  BY DEF ArriveTooSoon, Arrives
<1>2. Type[f] = "voice"
  BY <1>1, FramesAssumption
<1>3. /\ freed' \subseteq Frames
      /\ Sorted' /\ Apart' /\ Accounted' /\ OnlyVoiceDropped'
  BY <1>1, <1>2, FreedOnArrival
<1>4. arrived' \subseteq Frames
  BY <1>1, Unknown
<1>5. OrderInv'
  BY <1>1, PlayingUnchanged
<1>6. StampInv'
  BY <1>1 DEF BufInv, StampInv, Stamped
<1>7. TypeOK'
  BY <1>3, <1>4 DEF BufInv, TypeOK, ArriveTooSoon
<1> QED
  BY <1>3, <1>5, <1>6, <1>7 DEF BufInv

LEMMA ArriveRefusedStep ==
    ASSUME BufInv, NEW f, ArriveRefused(f)
    PROVE  BufInv'
<1>1. /\ Arrives(f) /\ Stamps(f) /\ Type[f] = "voice" /\ freed' = freed \cup {f}
      /\ cnt_delay_discont < MaxDiscont
      /\ cnt_delay_discont' = cnt_delay_discont + 1
      /\ UNCHANGED <<now, ring, cache, frames, measured, target, playing,
                     last_delay, resync_offset, handed, heard>>
  BY DEF ArriveRefused
<1>2. f \in Frames /\ arrived' \subseteq Frames
  BY <1>1, Unknown
<1>3. /\ freed' \subseteq Frames
      /\ Sorted' /\ Apart' /\ Accounted' /\ OnlyVoiceDropped'
  BY <1>1, FreedOnArrival
<1>4. OrderInv'
  BY <1>1, PlayingUnchanged
<1>5. /\ last_ts' \in 0 .. IntMod - 1 /\ voiceformat' \in BOOLEAN
      /\ stamp' \in [Frames -> -1 .. IntMod - 1] /\ timely' \in BOOLEAN
      /\ StampInv'
  BY <1>1, <1>2, StampsStep DEF BufInv
<1>6. cnt_delay_discont' \in 0 .. MaxDiscont
  BY <1>1, Settings DEF BufInv, TypeOK
<1>7. TypeOK'
  BY <1>1, <1>2, <1>3, <1>5, <1>6 DEF BufInv, TypeOK
<1> QED
  BY <1>3, <1>4, <1>5, <1>7 DEF BufInv

LEMMA ArriveQueuedStep ==
    ASSUME BufInv, NEW f, ArriveQueued(f)
    PROVE  BufInv'
<1>1. /\ Arrives(f) /\ Stamps(f) /\ queue_put(f, Stamp(f))
      /\ UNCHANGED <<now, hist_maxbuf, hist_minbuf, measured, target, playing,
                     output>>
  BY DEF ArriveQueued
<1>2. /\ f \in Frames /\ arrived' \subseteq Frames
      /\ f \notin Queue /\ f \notin handed /\ f \notin freed
      /\ arrived' = arrived \cup {f}
  BY <1>1, Unknown
<1>3. /\ last_ts' \in 0 .. IntMod - 1 /\ voiceformat' \in BOOLEAN
      /\ stamp' \in [Frames -> -1 .. IntMod - 1] /\ timely' \in BOOLEAN
      /\ StampInv'
  BY <1>1, <1>2, StampsStep DEF BufInv
<1>4. Stamp(f) \in Int
  BY <1>2, StampInRange, Settings DEF BufInv, TypeOK
<1>5. /\ history' \in [0 .. JB_HISTORY_SZ - 1 -> Int] /\ hist_ptr' \in Nat
      /\ hist_maxbuf_valid' \in BOOLEAN
      /\ last_delay' \in Int /\ resync_offset' \in Int
      /\ cnt_delay_discont' \in 0 .. MaxDiscont
  <2>1. CASE Measure(Stamp(f))
    BY <1>4, <2>1, MeasureIsTyped DEF BufInv
  <2>2. CASE UNCHANGED <<ring, hist_maxbuf_valid, delays>>
    BY <2>2 DEF BufInv, TypeOK
  <2> QED
    BY <2>1, <2>2 DEF ArriveQueued
<1>6. /\ frames' \in Seq(Queued)
      /\ Sorted' /\ Apart' /\ Queue' = Queue \cup {f}
  BY <1>1, <1>2, <1>4, <1>5, QueuePut DEF BufInv
<1>7. Accounted'
  BY <1>1, <1>2, <1>6 DEF BufInv, Accounted
<1>8. OnlyVoiceDropped'
  BY <1>1 DEF BufInv, OnlyVoiceDropped
<1>9. OrderInv'
  BY <1>1, PlayingUnchanged
<1>10. TypeOK'
  BY <1>1, <1>2, <1>3, <1>5, <1>6 DEF BufInv, TypeOK
<1> QED
  BY <1>3, <1>6, <1>7, <1>8, <1>9, <1>10 DEF BufInv

-----------------------------------------------------------------------------
(* jb_get *)

Moves ==
    \/ Grow \/ GetOther \/ GetEarly \/ GetLate
    \/ ShrinkByVoice \/ GetVoice \/ Shrink \/ Interpolate
    \/ SilentNone \/ SilentOther \/ SilentLate \/ SilentVoice

\* What a step of jb_get does to the queue and the events: nothing, or it hands
\* over the head, or it throws away a voice that is the head
LEMMA WhatMoves ==
    ASSUME Moves
    PROVE  \/ Nothing
           \/ frames # <<>> /\ HandOver
           \/ frames # <<>> /\ IsVoice /\ Drop
  BY DEF Moves, Grow, GetOther, GetEarly, GetLate, ShrinkByVoice, GetVoice, Shrink,
     Interpolate, SilentNone, SilentOther, SilentLate, SilentVoice, Get, GetSilent,
     queue_get

LEMMA EventsStep ==
    ASSUME BufInv, Moves, UNCHANGED arrived
    PROVE  /\ frames' \in Seq(Queued)
           /\ handed' \subseteq Frames /\ freed' \subseteq Frames
           /\ Sorted' /\ Apart' /\ Accounted' /\ OnlyVoiceDropped'
<1>1. CASE Nothing
  <2>1. UNCHANGED <<frames, handed, freed>>
    BY <1>1 DEF Nothing
  <2>2. Sorted' /\ Apart' /\ Queue' = Queue
    BY <2>1, QueueUnchanged
  <2> QED
    BY <2>1, <2>2 DEF BufInv, TypeOK, Accounted, OnlyVoiceDropped
<1>2. CASE frames # <<>> /\ HandOver
  <2>1. /\ frames' = Tail(frames) /\ handed' = handed \cup {head.data}
        /\ UNCHANGED freed
    BY <1>2 DEF HandOver
  <2>2. /\ head.data \in Frames /\ frames' \in Seq(Queued)
        /\ Sorted' /\ Apart'
        /\ head.data \in Queue /\ Queue' = Queue \ {head.data}
    BY <1>2, <2>1, QueueGet DEF BufInv
  <2> QED
    BY <2>1, <2>2 DEF BufInv, TypeOK, Accounted, OnlyVoiceDropped
<1>3. CASE frames # <<>> /\ IsVoice /\ Drop
  <2>1. /\ frames' = Tail(frames) /\ freed' = freed \cup {head.data}
        /\ UNCHANGED handed
    BY <1>3 DEF Drop
  <2>2. /\ head.data \in Frames /\ frames' \in Seq(Queued)
        /\ Sorted' /\ Apart'
        /\ head.data \in Queue /\ Queue' = Queue \ {head.data}
    BY <1>3, <2>1, QueueGet DEF BufInv
  <2>3. OnlyVoiceDropped'
    BY <1>3, <2>1 DEF BufInv, OnlyVoiceDropped, IsVoice
  <2> QED
    BY <2>1, <2>2, <2>3 DEF BufInv, TypeOK, Accounted
<1> QED
  BY <1>1, <1>2, <1>3, WhatMoves

Playing ==
    /\ current \in Int /\ next_voice_ts \in Int /\ silence_begin_ts \in Int
    /\ heard \in Int
    /\ last_voice_ms \in 0 .. ms
    /\ last_adjustment \in 0 .. MaxNow

\* A voice that is handed over is later than the one before; and what is to be
\* played next stays later than what was played
LEMMA PlayingStep ==
    ASSUME BufInv, Moves, target' \in Int
    PROVE  /\ Playing' /\ OrderInv'
           /\ \A f \in handed' \ handed : Type[f] = "voice" => head.ts > heard
<1>1. /\ current \in Int /\ next_voice_ts \in Int /\ silence_begin_ts \in Int
      /\ heard \in Int /\ last_voice_ms \in 0 .. ms
      /\ last_adjustment \in 0 .. MaxNow
      /\ now \in 0 .. MaxNow
  BY DEF BufInv, TypeOK
<1>2. interpl \in Nat /\ ms \in Nat /\ interpl >= 1 /\ interpl <= ms
  BY Settings
<1>3. OrderInv
  BY DEF BufInv
<1>4. /\ Silent => heard < silence_begin_ts
      /\ ~Silent => /\ heard <= next_voice_ts - current - last_voice_ms
                    /\ last_voice_ms >= interpl
  BY <1>3 DEF OrderInv, Wanted
<1>5. frames # <<>> => head.ts \in Int
  <2>1. frames \in Seq(Queued)
    BY DEF BufInv, TypeOK
  <2>2. frames # <<>> => head \in Queued
    BY <2>1 DEF head
  <2> QED
    BY <2>2 DEF Queued
<1>6. Silent <=> silence_begin_ts # 0
  BY DEF Silent
<1>7. ASSUME Playing',
             /\ silence_begin_ts' # 0 => heard' < silence_begin_ts'
             /\ silence_begin_ts' = 0 =>
                  /\ heard' <= next_voice_ts' - current' - last_voice_ms'
                  /\ last_voice_ms' >= interpl
      PROVE  OrderInv'
  BY <1>7 DEF OrderInv, Silent, Wanted, Playing
<1>8. /\ Nothing => handed' = handed /\ heard' = heard
      /\ Drop => handed' = handed /\ heard' = heard
  BY DEF Nothing, Drop
<1>9. ASSUME frames # <<>>, IsVoice, HandOver
      PROVE  heard' = head.ts /\ heard' \in Int
  BY <1>5, <1>9 DEF HandOver, IsVoice
<1>10. ASSUME HandOver, NEW f \in handed' \ handed, Type[f] = "voice"
       PROVE  IsVoice
  BY <1>10 DEF HandOver, IsVoice
<1>11. now \in Int /\ now \in 0 .. MaxNow /\ 0 \in 0 .. MaxNow
  BY <1>1, Settings
<1>12. CASE Grow
  <2>1. Nothing /\ ~Silent /\ current' = current + interpl
        /\ next_voice_ts' = next_voice_ts + interpl
        /\ last_voice_ms' = interpl /\ last_adjustment' = now
        /\ UNCHANGED silence_begin_ts
    BY <1>12 DEF Grow
  <2>2. Playing'
    BY <1>1, <1>2, <1>8, <2>1 DEF Playing
  <2> QED
    BY <1>1, <1>2, <1>4, <1>6, <1>7, <1>8, <2>1, <2>2
<1>13. CASE GetOther
  <2>1. /\ frames # <<>> /\ HandOver /\ ~Silent /\ ~IsVoice
        /\ silence_begin_ts' =
             IF Type[head.data] = "silence" THEN head.ts ELSE silence_begin_ts
        /\ UNCHANGED <<current, next_voice_ts, last_voice_ms, last_adjustment>>
    BY <1>13 DEF GetOther, Get, queue_get
  <2>2. CASE Type[head.data] = "silence"
    <3>1. heard' = Smaller(heard, head.ts - 1) /\ silence_begin_ts' = head.ts
      BY <2>1, <2>2 DEF HandOver
    <3>2. heard' \in Int /\ heard' <= heard /\ heard' < head.ts /\ head.ts \in Int
      BY <1>1, <1>5, <2>1, <3>1 DEF Smaller
    <3>3. Playing'
      BY <1>1, <2>1, <3>1, <3>2 DEF Playing
    <3> QED
      BY <1>1, <1>4, <1>7, <1>10, <2>1, <3>1, <3>2, <3>3
  <2>3. CASE Type[head.data] # "silence"
    <3>1. heard' = heard /\ silence_begin_ts' = silence_begin_ts
      BY <2>1, <2>3 DEF HandOver
    <3>2. Playing'
      BY <1>1, <2>1, <3>1 DEF Playing
    <3> QED
      BY <1>1, <1>4, <1>6, <1>7, <1>10, <2>1, <3>1, <3>2
  <2> QED
    BY <2>2, <2>3
<1>14. CASE GetEarly
  <2>1. /\ frames # <<>> /\ HandOver /\ ~Silent /\ IsVoice
        /\ head.ts > next_voice_ts - current - last_voice_ms
        /\ next_voice_ts' = head.ts + current + ms
        /\ UNCHANGED <<current, last_voice_ms, silence_begin_ts, last_adjustment>>
    BY <1>14 DEF GetEarly, Get, queue_get, Wanted
  <2>2. heard' = head.ts /\ head.ts \in Int
    BY <1>5, <1>9, <2>1
  <2>3. Playing'
    BY <1>1, <1>2, <2>1, <2>2 DEF Playing
  <2> QED
    BY <1>1, <1>2, <1>4, <1>6, <1>7, <2>1, <2>2, <2>3
<1>15. CASE GetLate
  <2>1. Drop /\ UNCHANGED playing
    BY <1>15 DEF GetLate
  <2>2. Playing'
    BY <1>1, <1>8, <2>1 DEF Playing
  <2> QED
    BY <1>1, <1>4, <1>6, <1>7, <1>8, <2>1, <2>2
<1>16. CASE ShrinkByVoice
  <2>1. Drop /\ ~Silent /\ current' = current - ms /\ last_voice_ms' = ms
        /\ last_adjustment' = now /\ UNCHANGED <<next_voice_ts, silence_begin_ts>>
    BY <1>16 DEF ShrinkByVoice, Get
  <2>2. Playing'
    BY <1>1, <1>2, <1>8, <2>1 DEF Playing
  <2> QED
    BY <1>1, <1>2, <1>4, <1>6, <1>7, <1>8, <2>1, <2>2
<1>17. CASE GetVoice
  <2>1. /\ frames # <<>> /\ HandOver /\ ~Silent /\ IsVoice
        /\ head.ts = next_voice_ts - current
        /\ next_voice_ts' = next_voice_ts + ms /\ last_voice_ms' = ms
        /\ UNCHANGED <<current, silence_begin_ts, last_adjustment>>
    BY <1>17 DEF GetVoice, Get, queue_get, Wanted
  <2>2. heard' = head.ts /\ head.ts \in Int
    BY <1>5, <1>9, <2>1
  <2>3. Playing'
    BY <1>1, <1>2, <2>1, <2>2 DEF Playing
  <2> QED
    BY <1>1, <1>2, <1>4, <1>6, <1>7, <2>1, <2>2, <2>3
<1>18. CASE Shrink
  <2>1. Nothing /\ ~Silent /\ current' = current - last_voice_ms
        /\ last_adjustment' = now
        /\ UNCHANGED <<next_voice_ts, last_voice_ms, silence_begin_ts>>
    BY <1>18 DEF Shrink, Get
  <2>2. Playing'
    BY <1>1, <1>2, <1>8, <2>1 DEF Playing
  <2> QED
    BY <1>1, <1>2, <1>4, <1>6, <1>7, <1>8, <2>1, <2>2
<1>19. CASE Interpolate
  <2>1. Nothing /\ ~Silent /\ next_voice_ts' = next_voice_ts + interpl
        /\ last_voice_ms' = interpl
        /\ UNCHANGED <<current, silence_begin_ts, last_adjustment>>
    BY <1>19 DEF Interpolate, Get
  <2>2. Playing'
    BY <1>1, <1>2, <1>8, <2>1 DEF Playing
  <2> QED
    BY <1>1, <1>2, <1>4, <1>6, <1>7, <1>8, <2>1, <2>2
<1>20. ASSUME Silent, SilentStays,
              last_adjustment' = IF Shrinks THEN now ELSE last_adjustment,
              heard' = heard
       PROVE  Playing' /\ OrderInv'
  <2>1. /\ current' = current - ShrunkBy /\ ShrunkBy \in Int
        /\ UNCHANGED <<next_voice_ts, last_voice_ms, silence_begin_ts>>
    BY <1>2, <1>20 DEF SilentStays, ShrunkBy
  <2>2. Playing'
    BY <1>1, <1>20, <2>1 DEF Playing
  <2> QED
    BY <1>4, <1>6, <1>7, <1>20, <2>1, <2>2
<1>21. CASE SilentNone
  BY <1>8, <1>20, <1>21 DEF SilentNone, GetSilent
<1>22. CASE SilentOther
  <2>1. Silent /\ HandOver /\ ~IsVoice /\ heard' = heard
    BY <1>22 DEF SilentOther, GetSilent, HandOver
  <2> QED
    BY <1>10, <1>20, <1>22, <2>1 DEF SilentOther, GetSilent
<1>23. CASE SilentLate
  BY <1>8, <1>20, <1>23 DEF SilentLate, GetSilent
<1>24. CASE SilentVoice
  <2>1. /\ Silent /\ frames # <<>> /\ IsVoice /\ HandOver
        /\ head.ts >= silence_begin_ts
        /\ current' = target' /\ next_voice_ts' = head.ts + target' + ms
        /\ last_voice_ms' = ms /\ silence_begin_ts' = 0
        /\ last_adjustment' = IF Shrinks THEN now ELSE last_adjustment
    BY <1>24 DEF SilentVoice, GetSilent, queue_get
  <2>2. heard' = head.ts /\ head.ts \in Int
    BY <1>5, <1>9, <2>1
  <2>3. Playing'
    BY <1>1, <1>2, <2>1, <2>2 DEF Playing
  <2> QED
    BY <1>1, <1>2, <1>4, <1>7, <2>1, <2>2, <2>3
<1> QED
  BY <1>12, <1>13, <1>14, <1>15, <1>16, <1>17, <1>18, <1>19, <1>21, <1>22, <1>23,
     <1>24 DEF Moves

LEMMA jb_getStep ==
    ASSUME BufInv, jb_get
    PROVE  /\ BufInv'
           /\ \A f \in handed' \ handed : Type[f] = "voice" => head.ts > heard
<1>1. /\ history_get /\ target' = jitter' + min' + target_extra /\ Moves
      /\ UNCHANGED <<now, session, ring, delays, input>>
  BY DEF jb_get, Moves
<1>2. /\ hist_maxbuf' \in [0 .. JB_HISTORY_MAXBUF_SZ - 1 -> Int]
      /\ hist_minbuf' \in [0 .. JB_HISTORY_MAXBUF_SZ - 1 -> Int]
      /\ hist_maxbuf_valid' \in BOOLEAN
      /\ min' \in Int /\ jitter' \in Int
  BY <1>1, HistoryIsTyped DEF BufInv
<1>3. target' \in Int
  BY <1>1, <1>2, Settings
<1>4. /\ frames' \in Seq(Queued)
      /\ handed' \subseteq Frames /\ freed' \subseteq Frames
      /\ Sorted' /\ Apart' /\ Accounted' /\ OnlyVoiceDropped'
  BY <1>1, EventsStep
<1>5. /\ Playing' /\ OrderInv'
      /\ \A f \in handed' \ handed : Type[f] = "voice" => head.ts > heard
  BY <1>1, <1>3, PlayingStep
<1>6. StampInv'
  BY <1>1 DEF BufInv, StampInv, Stamped
<1>7. TypeOK'
  BY <1>1, <1>2, <1>3, <1>4, <1>5 DEF BufInv, TypeOK, Playing
<1> QED
  BY <1>4, <1>5, <1>6, <1>7 DEF BufInv

LEMMA jb_getinfoStep ==
    ASSUME BufInv, jb_getinfo
    PROVE  BufInv'
<1>1. /\ history_get
      /\ UNCHANGED <<now, session, ring, frames, target, playing, delays, input,
                     output>>
  BY DEF jb_getinfo
<1>2. /\ hist_maxbuf' \in [0 .. JB_HISTORY_MAXBUF_SZ - 1 -> Int]
      /\ hist_minbuf' \in [0 .. JB_HISTORY_MAXBUF_SZ - 1 -> Int]
      /\ hist_maxbuf_valid' \in BOOLEAN
      /\ min' \in Int /\ jitter' \in Int
  BY <1>1, HistoryIsTyped DEF BufInv
<1>3. Sorted' /\ Apart' /\ Queue' = Queue
  BY <1>1, QueueUnchanged
<1>4. Accounted' /\ OnlyVoiceDropped'
  BY <1>1, <1>3 DEF BufInv, Accounted, OnlyVoiceDropped
<1>5. OrderInv'
  BY <1>1, PlayingUnchanged
<1>6. StampInv'
  BY <1>1 DEF BufInv, StampInv, Stamped
<1>7. TypeOK'
  BY <1>1, <1>2 DEF BufInv, TypeOK
<1> QED
  BY <1>3, <1>4, <1>5, <1>6, <1>7 DEF BufInv

\* Nothing but the clock changes
LEMMA TickStep ==
    ASSUME BufInv, Tick \/ UNCHANGED vars
    PROVE  BufInv'
<1>1. UNCHANGED <<session, ring, cache, frames, measured, target, playing,
                  delays, input, output>>
  BY DEF Tick, vars
<1>2. now' \in 0 .. MaxNow
  <2>1. now \in 0 .. MaxNow /\ MaxNow \in Nat
    BY Settings DEF BufInv, TypeOK
  <2>2. now' = now \/ (now < MaxNow /\ now' = now + 1)
    BY DEF Tick, vars
  <2> QED
    BY <2>1, <2>2
<1>3. Sorted' /\ Apart' /\ Queue' = Queue
  BY <1>1, QueueUnchanged
<1>4. Accounted' /\ OnlyVoiceDropped'
  BY <1>1, <1>3 DEF BufInv, Accounted, OnlyVoiceDropped
<1>5. OrderInv'
  BY <1>1, PlayingUnchanged
<1>6. StampInv'
  BY <1>1 DEF BufInv, StampInv, Stamped
<1>7. TypeOK'
  BY <1>1, <1>2 DEF BufInv, TypeOK
<1> QED
  BY <1>3, <1>4, <1>5, <1>6, <1>7 DEF BufInv

-----------------------------------------------------------------------------
(* The invariant *)

LEMMA InitIsInv == Init => BufInv
<1> SUFFICES ASSUME Init PROVE BufInv
  OBVIOUS
<1>1. /\ 0 \in 0 .. MaxNow /\ 0 \in 0 .. IntMod - 1 /\ 0 \in 0 .. ms
      /\ 0 \in 0 .. MaxDiscont /\ target_extra \in Int
      /\ -1 \in -1 .. IntMod - 1
  BY Settings
<1>2. frames \in Seq(Queued) /\ frames = <<>> /\ DOMAIN frames = {}
  BY DEF Init
<1>3. TypeOK
  <2>1. /\ now \in 0 .. MaxNow
        /\ last_ts \in 0 .. IntMod - 1 /\ voiceformat \in BOOLEAN
        /\ last_voice_ms \in 0 .. ms /\ last_adjustment \in 0 .. MaxNow
        /\ cnt_delay_discont \in 0 .. MaxDiscont
    BY <1>1 DEF Init
  <2>2. /\ history \in [0 .. JB_HISTORY_SZ - 1 -> Int] /\ hist_ptr \in Nat
        /\ hist_maxbuf \in [0 .. JB_HISTORY_MAXBUF_SZ - 1 -> Int]
        /\ hist_minbuf \in [0 .. JB_HISTORY_MAXBUF_SZ - 1 -> Int]
        /\ hist_maxbuf_valid \in BOOLEAN
    <3>1. 0 \in Int /\ 0 \in Nat
      OBVIOUS
    <3> QED
      BY <3>1, Zenon DEF Init
  <2>3. {jitter, min, current, target, next_voice_ts, silence_begin_ts,
         last_delay, resync_offset, heard} \subseteq Int
    BY <1>1 DEF Init
  <2>4. stamp \in [Frames -> -1 .. IntMod - 1] /\ timely \in BOOLEAN
    BY <1>1 DEF Init
  <2>5. arrived \subseteq Frames /\ handed \subseteq Frames /\ freed \subseteq Frames
    BY DEF Init
  <2> QED
    BY <1>2, <2>1, <2>2, <2>3, <2>4, <2>5 DEF TypeOK
<1>4. Sorted /\ Apart
  BY <1>2 DEF Sorted, Apart
<1>5. Queue = {}
  BY <1>2 DEF Queue
<1>6. Accounted /\ OnlyVoiceDropped
  BY <1>5 DEF Init, Accounted, OnlyVoiceDropped
<1>7. OrderInv
  BY DEF Init, OrderInv, Silent
<1>8. StampInv
  BY DEF Init, StampInv, Stamped
<1> QED
  BY <1>3, <1>4, <1>6, <1>7, <1>8 DEF BufInv

LEMMA NextIsInv ==
    ASSUME BufInv, [Next]_vars
    PROVE  BufInv'
  BY ArriveTooSoonStep, ArriveQueuedStep, ArriveRefusedStep, jb_getStep,
     jb_getinfoStep, TickStep DEF Next

\* Whatever is in the queue is there once
LEMMA QueueCounted ==
    ASSUME TypeOK, Apart
    PROVE  Cardinality(Queue) = Len(frames)
<1>1. DOMAIN frames = 1 .. Len(frames) /\ Len(frames) \in Nat
  BY DEF TypeOK
<1> DEFINE b == [i \in 1 .. Len(frames) |-> frames[i].data]
<1>2. b \in Bijection(1 .. Len(frames), Queue)
  <2>1. b \in [1 .. Len(frames) -> Queue]
    BY <1>1 DEF Queue
  <2>2. \A i, j \in 1 .. Len(frames) : b[i] = b[j] => i = j
    BY <1>1 DEF Apart
  <2>3. \A q \in Queue : \E i \in 1 .. Len(frames) : b[i] = q
    BY <1>1 DEF Queue
  <2> QED
    BY <2>1, <2>2, <2>3 DEF Bijection, Injection, Surjection, IsInjective
<1>3. ExistsBijection(1 .. Len(frames), Queue)
  BY <1>2 DEF ExistsBijection
<1> QED
  BY <1>1, <1>3, FS_CountingElements

LEMMA Invariance == Spec => []BufInv
<1>1. BufInv /\ [Next]_vars => BufInv'
  BY NextIsInv
<1> QED
  BY <1>1, InitIsInv, PTL DEF Spec

\* The buffers are said to be valid only when they are those of the history
LEMMA FreshStep ==
    ASSUME BufInv, BufInv', CacheFresh, [Next]_vars
    PROVE  CacheFresh'
<1>1. TypeOK /\ HistoryTyped'
  BY DEF BufInv, TypeOK, HistoryTyped
<1>0. ASSUME UNCHANGED ring PROVE MaxBuf' = MaxBuf /\ MinBuf' = MinBuf
  BY <1>0 DEF MaxBuf, MinBuf, Greatest, Least, Nth, Count
<1>2. ASSUME UNCHANGED <<ring, cache>> PROVE CacheFresh'
  BY <1>0, <1>2 DEF CacheFresh
<1>3. ASSUME UNCHANGED ring, history_get PROVE CacheFresh'
  <2>1. MaxBuf' = MaxBuf /\ MinBuf' = MinBuf
    BY <1>0, <1>3
  <2>2. history_calc_maxbuf
    BY <1>3 DEF history_get
  <2>3. CASE UNCHANGED cache
    BY <2>3, <1>2, <1>3
  <2>4. CASE hist_maxbuf' = MaxBuf /\ hist_minbuf' = MinBuf
    BY <2>1, <2>4 DEF CacheFresh
  <2> QED
    BY <2>2, <2>3, <2>4 DEF history_calc_maxbuf
<1>4. ASSUME NEW f \in Frames, ArriveQueued(f) PROVE CacheFresh'
  <2>1. UNCHANGED <<hist_maxbuf, hist_minbuf>>
    BY <1>4 DEF ArriveQueued
  <2>2. CASE UNCHANGED <<ring, hist_maxbuf_valid, delays>>
    BY <1>2, <2>1, <2>2
  <2>3. CASE Measure(Stamp(f))
    <3> DEFINE d == Delay(Stamp(f))
    <3>1. d \in Int
      <4>1. Stamp(f) \in Int /\ now \in Int /\ resync_offset \in Int
        BY <1>1, StampInRange, Settings DEF TypeOK
      <4> QED
        BY <4>1 DEF Delay
    <3> HIDE DEF d
    <3>2. CASE Record(hist_ptr, d) /\ hist_maxbuf_valid' = Untouched(d)
      <4>1. CASE Untouched(d)
        BY <1>1, <2>1, <3>1, <3>2, <4>1, UntouchedKeepsBuffers DEF CacheFresh
      <4>2. CASE ~Untouched(d)
        BY <3>2, <4>2 DEF CacheFresh
      <4> QED
        BY <4>1, <4>2
    <3>3. CASE hist_maxbuf_valid' = FALSE
      BY <3>3 DEF CacheFresh
    <3> QED
      BY <2>2, <2>3, <3>2, <3>3 DEF Measure, d
  <2> QED
    BY <1>4, <2>2, <2>3 DEF ArriveQueued
<1>5. CASE jb_get \/ jb_getinfo
  BY <1>3, <1>5 DEF jb_get, jb_getinfo
<1>6. CASE Tick \/ UNCHANGED vars
  BY <1>2, <1>6 DEF Tick, vars
<1>7. ASSUME NEW f \in Frames, ArriveTooSoon(f) \/ ArriveRefused(f)
      PROVE  CacheFresh'
  BY <1>2, <1>7 DEF ArriveTooSoon, ArriveRefused
<1> QED
  BY <1>4, <1>5, <1>6, <1>7 DEF Next

-----------------------------------------------------------------------------
(* Theorems *)

\* The stamps stay unsigned ints, the delays that do not fit are counted up to
\* the limit of history_put, and what is in the queue is of frames of the peer.
THEOREM TypeCorrect == Spec => []TypeOK
<1>1. BufInv => TypeOK
  BY DEF BufInv
<1> QED
  BY <1>1, Invariance, PTL

\* jb_put keeps the queue in the order of the timestamps, whatever the delays and
\* however often history_put resynchronizes.
THEOREM QueueSorted == Spec => []Sorted
<1>1. BufInv => Sorted
  BY DEF BufInv
<1> QED
  BY <1>1, Invariance, PTL

\* The events that schedule_delivery allocates are each queued once, handed to
\* the application by iax_get_event, or freed.
THEOREM EventsAccounted == Spec => []EachOnce
<1>1. BufInv => EachOnce
  BY QueueCounted DEF BufInv, EachOnce, Accounted
<1> QED
  BY <1>1, Invariance, PTL

\* schedule_delivery and iax_get_event free without delivering it only what is
\* voice: no hanging up is lost in the jitter buffer.
THEOREM ControlSurvives == Spec => []OnlyVoiceDropped
<1>1. BufInv => OnlyVoiceDropped
  BY DEF BufInv
<1> QED
  BY <1>1, Invariance, PTL

\* jb_get hands over no voice that is not later than the voice before, across
\* growing, shrinking, interpolation, silence and resynchronization.
THEOREM VoiceOrdered == Spec => VoiceInOrder
<1>1. BufInv /\ [Next]_vars =>
        [\A f \in handed' \ handed : Type[f] = "voice" => head.ts > heard]_vars
  <2> SUFFICES ASSUME BufInv, [Next]_vars
               PROVE  \A f \in handed' \ handed : Type[f] = "voice" => head.ts > heard
    OBVIOUS
  <2>1. CASE jb_get
    BY <2>1, jb_getStep
  <2>2. CASE ~jb_get
    <3>1. handed' = handed
      BY <2>2 DEF Next, ArriveTooSoon, ArriveQueued, ArriveRefused, jb_getinfo, Tick,
         vars
    <3> QED
      BY <3>1
  <2> QED
    BY <2>1, <2>2
<1> QED
  BY <1>1, Invariance, PTL DEF Spec, VoiceInOrder

\* unwrap_timestamp gives mini frames their whole timestamp back.
THEOREM StampsReconstructed == Spec => []StampsRight
<1>1. BufInv => StampsRight
  BY DEF BufInv, StampInv, StampsRight
<1> QED
  BY <1>1, Invariance, PTL

\* As long as hist_maxbuf_valid says so, hist_maxbuf and hist_minbuf hold the
\* longest and shortest delays of the history: history_put need not calculate
\* them again for a delay between the worst of both, in the place of another,
\* and jb_get and jb_getinfo work with no stale jitter.
THEOREM BuffersStayFresh == Spec => []CacheFresh
<1>1. Init => CacheFresh
  BY DEF Init, CacheFresh
<1>2. BufInv /\ BufInv' /\ CacheFresh /\ [Next]_vars => CacheFresh'
  BY FreshStep
<1> QED
  BY <1>1, <1>2, Invariance, PTL DEF Spec

=============================================================================
