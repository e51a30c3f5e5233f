---------------------------- MODULE UnwrapProofs ----------------------------
(***************************************************************************)
(* What unwrap_timestamp makes of a timestamp near the latest, for any     *)
(* widths.                                                                 *)
(***************************************************************************)
EXTENDS Unwrap, TLAPS

\* Every integer is a whole number of turns around the counter and a remainder;
\* the remainder is what 16 or 32 bits hold.
LEMMA DivMod ==
    ASSUME NEW M \in Nat \ {0}, NEW x \in Int
    PROVE  \E q \in Int, r \in 0 .. M - 1 : x = M * q + r /\ x % M = r
  <1>1. x = M * (x \div M) + (x % M) /\ (x \div M) \in Int /\ x % M \in 0 .. M - 1
    OBVIOUS
  <1> QED BY <1>1

\* The remainder does not depend on how often the counter wrapped around.
LEMMA ModUnique ==
    ASSUME NEW M \in Nat \ {0}, NEW q \in Int, NEW r \in 0 .. M - 1
    PROVE  (M * q + r) % M = r
  OBVIOUS

\* The remainder of a number less than one turn from zero, and of one turn.
LEMMA ModSmall ==
    ASSUME NEW M \in Nat \ {0}, NEW x \in Int
    PROVE  /\ x \in 0 .. M - 1 => x % M = x
           /\ x \in -M .. -1 => x % M = x + M
           /\ x = M => x % M = 0
  OBVIOUS

\* A timestamp is its block and its place in it
LEMMA BlockAndRest ==
    ASSUME NEW x \in Nat
    PROVE  /\ Block(x) \in Nat /\ x % HalfMod \in 0 .. HalfMod - 1
           /\ x = HalfMod * Block(x) + (x % HalfMod)
<1>1. x % HalfMod \in 0 .. HalfMod - 1 /\ x \div HalfMod \in Int
  BY WidthsAssumption
<1>2. x = HalfMod * (x \div HalfMod) + (x % HalfMod)
  BY WidthsAssumption
<1>3. x \div HalfMod >= 0
  BY WidthsAssumption, <1>2
<1> QED
  BY <1>1, <1>2, <1>3 DEF Block

\* The blocks of timestamps less than a block apart are the same or next to each
\* other
LEMMA NextTurn ==
    ASSUME NEW H \in Nat \ {0}, NEW p \in Nat, NEW q \in Nat,
           NEW r \in 0 .. H - 1, NEW s \in 0 .. H - 1,
           (H * p + r) - (H * q + s) < H
    PROVE  p - q <= 1
<1> SUFFICES ASSUME p - q >= 2 PROVE FALSE
  OBVIOUS
<1>1. H * (p - q) >= H * 2 /\ H * (p - q) = H * p - H * q
  OBVIOUS
<1> QED
  BY <1>1

LEMMA SameBlock ==
    ASSUME NEW H \in Nat \ {0}, NEW p \in Nat, NEW q \in Nat,
           NEW r \in 0 .. H - 1, NEW s \in 0 .. H - 1, H * p + r = H * q + s
    PROVE  p = q
<1>1. H * (p - q) = s - r
  OBVIOUS
<1>2. CASE p - q >= 1
  <2>1. H * (p - q) >= H
    BY <1>2
  <2> QED
    BY <1>1, <2>1
<1>3. CASE p - q <= -1
  <2>1. H * (p - q) <= -H
    BY <1>3
  <2> QED
    BY <1>1, <2>1
<1> QED
  BY <1>2, <1>3

LEMMA BlocksApart ==
    ASSUME NEW x \in Nat, NEW y \in Nat, x - y < HalfMod, y - x < HalfMod
    PROVE  Block(x) - Block(y) \in {-1, 0, 1}
<1>1. PICK p \in Nat, r \in 0 .. HalfMod - 1 : p = Block(x) /\ x = HalfMod * p + r
  BY BlockAndRest
<1>2. PICK q \in Nat, s \in 0 .. HalfMod - 1 : q = Block(y) /\ y = HalfMod * q + s
  BY BlockAndRest
<1>3. p - q <= 1 /\ q - p <= 1
  BY <1>1, <1>2, NextTurn, WidthsAssumption
<1> QED
  BY <1>1, <1>2, <1>3

\* What is read in a mini frame has the block of last_ts, so it is in range
LEMMA SameTurn ==
    ASSUME NEW H \in Nat \ {0}, NEW n \in Int, NEW b \in Nat,
           NEW r \in 0 .. H - 1, NEW t \in 0 .. H - 1, H * b + r < H * n
    PROVE  b * H + t \in 0 .. (H * n) - 1
<1>1. b < n
  <2> SUFFICES ASSUME b >= n PROVE FALSE
    OBVIOUS
  <2>1. H * b >= H * n
    OBVIOUS
  <2> QED
    BY <2>1
<1>2. H * (b + 1) <= H * n /\ H * (b + 1) = b * H + H /\ b * H \in Nat
  BY <1>1
<1>3. t \in Nat /\ t < H /\ H * n \in Int
  OBVIOUS
<1> QED
  BY <1>2, <1>3

LEMMA ReadMiniInRange ==
    ASSUME NEW ts \in Nat, NEW last \in 0 .. IntMod - 1
    PROVE  ReadMini(ts, last) \in 0 .. IntMod - 1
<1>1. last \in Nat
      /\ HalfMod \in Nat \ {0} /\ IntMod \in Nat /\ IntMod % HalfMod = 0
  BY WidthsAssumption
<1>2. PICK b \in Nat, r \in 0 .. HalfMod - 1 :
        b = Block(last) /\ last = HalfMod * b + r
  BY <1>1, BlockAndRest
<1>3. PICK t \in 0 .. HalfMod - 1 : t = ts % HalfMod
  BY <1>1, BlockAndRest
<1>4. PICK n \in Int : IntMod = HalfMod * n
  <2>1. PICK n \in Int, d \in 0 .. HalfMod - 1 :
          IntMod = HalfMod * n + d /\ IntMod % HalfMod = d
    <3>1. HalfMod \in Nat \ {0} /\ IntMod \in Int
      BY <1>1
    <3> QED
      BY <3>1, DivMod, Zenon
  <2>2. d = 0
    BY <1>1, <2>1
  <2> QED
    BY <1>1, <2>1, <2>2
<1>5. b * HalfMod + t \in 0 .. IntMod - 1
  <2>1. HalfMod * b + r < HalfMod * n
    <3>1. last < IntMod
      BY <1>1
    <3> QED
      BY <1>2, <1>4, <3>1, Zenon
  <2>2. b * HalfMod + t \in 0 .. (HalfMod * n) - 1
    BY <1>1, <2>1, SameTurn
  <2> QED
    BY <1>4, <2>2
<1> QED
  BY <1>1, <1>2, <1>3, <1>5 DEF ReadMini

\* A whole timestamp not more than Jump away is left alone
LEMMA FullIsRight ==
    ASSUME NEW ts \in Nat, NEW last \in Nat, ts - last <= Jump, last - ts <= Jump
    PROVE  unwrap_timestamp(ts, last) = ts
  BY WidthsAssumption DEF unwrap_timestamp

\* The lower half of one less than HalfMod - Jump away is given its upper half:
\* that of the latest timestamp, or the next, or the one before
LEMMA ReadMiniIsRight ==
    ASSUME NEW ts \in 0 .. IntMod - 1, NEW last \in 0 .. IntMod - 1,
           ts - last < HalfMod - Jump, last - ts < HalfMod - Jump
    PROVE  unwrap_timestamp(ReadMini(ts, last), last) = ts
<1>1. /\ HalfMod \in Nat \ {0} /\ Jump \in 1 .. HalfMod - 1
      /\ HalfMod <= 2 * Jump /\ IntMod \in Nat \ {0}
  BY WidthsAssumption
<1>2. ts \in Nat /\ last \in Nat
  BY <1>1
<1>3. PICK b \in Nat, r \in 0 .. HalfMod - 1 :
        b = Block(last) /\ last = HalfMod * b + r
  BY <1>2, BlockAndRest
<1>4. PICK c \in Nat, s \in 0 .. HalfMod - 1 :
        c = Block(ts) /\ ts = HalfMod * c + s /\ s = ts % HalfMod
  BY <1>2, BlockAndRest
<1>5. c - b \in {-1, 0, 1}
  BY <1>1, <1>2, <1>3, <1>4, BlocksApart
<1>6. ReadMini(ts, last) = b * HalfMod + s
  BY <1>3, <1>4 DEF ReadMini
<1>7. Block(ReadMini(ts, last)) = b
  <2>1. b * HalfMod = HalfMod * b /\ b * HalfMod \in Nat
    BY <1>1
  <2>2. b * HalfMod + s \in Nat
    BY <2>1
  <2>3. PICK d \in Nat, t \in 0 .. HalfMod - 1 :
          d = Block(b * HalfMod + s) /\ b * HalfMod + s = HalfMod * d + t
    BY <2>2, BlockAndRest
  <2>4. HalfMod * d + t = HalfMod * b + s
    BY <2>1, <2>3
  <2>5. d = b
    BY <1>1, <2>4, SameBlock
  <2> QED
    BY <1>6, <2>3, <2>5
<1>8. ts % IntMod = ts
  BY <1>1
<1> DEFINE x == b * HalfMod + s
           y == b * HalfMod
<1>9. x \in Nat /\ x = y + s /\ y \in Nat /\ last = y + r
  BY <1>1, <1>3
<1> DEFINE result == unwrap_timestamp(ReadMini(ts, last), last)
<1>10. result = IF x - last < -Jump THEN (x + HalfMod) % IntMod
                ELSE IF x - last > Jump THEN (x - HalfMod) % IntMod ELSE x
  BY <1>3, <1>6, <1>7 DEF unwrap_timestamp
<1>11. /\ c = b => ts = y + s
       /\ c = b + 1 => ts = (y + HalfMod) + s
       /\ c = b - 1 => ts = (y - HalfMod) + s
  BY <1>1, <1>4
<1> HIDE DEF x, y, result
<1>12. CASE c = b
  BY <1>1, <1>2, <1>9, <1>10, <1>11, <1>12 DEF result
<1>13. CASE c = b + 1
  <2>1. ts = x + HalfMod
    BY <1>1, <1>9, <1>11, <1>13
  <2>2. x - last < -Jump
    BY <1>1, <1>2, <1>9, <2>1
  <2> QED
    BY <1>8, <1>10, <2>1, <2>2 DEF result
<1>14. CASE c = b - 1
  <2>1. ts = x - HalfMod
    BY <1>1, <1>9, <1>11, <1>14
  <2>2. x - last > Jump /\ ~(x - last < -Jump)
    BY <1>1, <1>2, <1>9, <2>1
  <2> QED
    BY <1>8, <1>10, <2>1, <2>2 DEF result
<1> QED
  BY <1>5, <1>12, <1>13, <1>14

=============================================================================
