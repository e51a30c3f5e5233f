-------------------------- MODULE SendVoiceProofs --------------------------
(***************************************************************************)
(* Proofs about SendVoice, for any length of frames, any window, and any   *)
(* pace of the sound card.                                                 *)
(***************************************************************************)
EXTENDS SendVoice, UnwrapProofs

\* The session's clock never falls behind the prediction by more than Damp frames:
\* from there on it moves by a whole frame for each frame sent.
Follows == nextpred <= elapsed + (Damp * Frame)

\* The last voice is before what is predicted; in a row of voice it is one frame
\* before, and the last thing sent.  The clock does not come back to 0, where a
\* frame is refused.
SpokenBefore ==
    /\ spoken = -1 \/ (spoken + Frame <= nextpred /\ elapsed > 0)
    /\ notsilenttx => nextpred = lastsent + Frame

\* Nothing was sent far ahead of the clock.  The clock may move back, but not
\* behind the prediction.
PeerNotAhead ==
    /\ lastsent <= elapsed + Window + Gap
    /\ last_ts <= elapsed + (2 * Window) + (2 * Gap)
    /\ notsilenttx =>
         \/ last_ts <= nextpred + (2 * Window) + (2 * Gap)
         \/ last_ts <= elapsed + Window + (2 * Gap)

\* The peer has the last ping or something later
PeerNotBehind ==
    /\ lastsent <= last_ts
    /\ elapsed - last_ts <= PingEvery - next_ping

SendInv ==
    /\ TypeOK /\ Understood
    /\ elapsed <= MaxElapsed
    /\ Follows /\ SpokenBefore /\ PeerNotAhead /\ PeerNotBehind

-----------------------------------------------------------------------------
(* The arithmetic of calc_timestamp *)

LEMMA Lengths ==
    /\ Frame \in Nat \ {0} /\ Gap \in Nat \ {0} /\ Window \in Nat
    /\ Damp * Frame \in Nat /\ 2 * Frame <= Damp * Frame
    /\ Damp * Frame <= Window
<1>1. Frame \in Nat \ {0} /\ Gap \in Nat \ {0} /\ Window \in Nat
      /\ Damp \in Nat /\ Damp >= 2 /\ Damp * Frame <= Window
  BY FrameAssumption
<1>2. Damp * Frame >= 2 * Frame /\ Damp * Frame \in Nat
  BY <1>1
<1> QED
  BY <1>1, <1>2

\* A quotient of a natural number is between it and 0
LEMMA QuotientSmall ==
    ASSUME NEW D \in Nat \ {0}, NEW q \in Int, NEW r \in 0 .. D - 1,
           NEW n \in Nat, n = D * q + r
    PROVE  q \in Nat /\ q <= n
<1>1. q >= 0
  <2> SUFFICES ASSUME q <= -1 PROVE FALSE
    OBVIOUS
  <2>1. D * q <= -D
    OBVIOUS
  <2> QED
    BY <2>1
<1>2. D * q >= q
  BY <1>1
<1> QED
  BY <1>1, <1>2

\* add_ms moves the clock towards the prediction, and not past it
LEMMA QuotientBetween ==
    ASSUME NEW x \in Int
    PROVE  /\ Quotient(x) \in Int
           /\ x >= 0 => 0 <= Quotient(x) /\ Quotient(x) <= x
           /\ x <= 0 => x <= Quotient(x) /\ Quotient(x) <= 0
<1>1. \A n \in Nat : n \div Damp \in Nat /\ n \div Damp <= n
  <2> SUFFICES ASSUME NEW n \in Nat PROVE n \div Damp \in Nat /\ n \div Damp <= n
    OBVIOUS
  <2>1. Damp \in Nat \ {0}
    BY FrameAssumption
  <2>2. PICK q \in Int, r \in 0 .. Damp - 1 : n = Damp * q + r /\ q = n \div Damp
    BY <2>1
  <2> QED
    BY <2>1, <2>2, QuotientSmall
<1>2. CASE x >= 0
  BY <1>1, <1>2 DEF Quotient
<1>3. CASE x < 0
  <2>1. -x \in Nat
    BY <1>3
  <2>2. (-x) \div Damp \in Nat /\ (-x) \div Damp <= -x
    BY <1>1, <2>1
  <2> QED
    BY <1>3, <2>2 DEF Quotient
<1> QED
  BY <1>2, <1>3

\* n, by which the clock is behind, grows by a frame and shrinks by a part of
\* itself: it does not grow beyond Damp frames.
LEMMA LagBounded ==
    ASSUME NEW n \in Nat, n <= Damp * Frame
    PROVE  n + Frame - (n \div Damp) <= Damp * Frame
<1>1. Damp \in Nat \ {0, 1} /\ Frame \in Nat \ {0}
  BY FrameAssumption
<1>2. PICK k \in Int, r \in 0 .. Damp - 1 : n = Damp * k + r /\ k = n \div Damp
  BY <1>1
<1>3. CASE k >= Frame
  BY <1>1, <1>2, <1>3
<1>4. CASE k <= Frame - 1
  <2>1. (Damp - 1) * k <= (Damp - 1) * (Frame - 1)
    BY <1>1, <1>4
  <2>2. (Damp - 1) * k = Damp * k - k
    BY <1>1
  <2>3. (Damp - 1) * (Frame - 1) = Damp * Frame - Damp - Frame + 1
    BY <1>1
  <2>4. Damp * k \in Int /\ Damp * Frame \in Int
    BY <1>1
  <2> QED
    BY <1>1, <1>2, <2>1, <2>2, <2>3, <2>4
<1> QED
  BY <1>1, <1>2, <1>3, <1>4

\* A frame behind, it moves
LEMMA QuotientMoves ==
    ASSUME NEW n \in Nat, n >= Frame
    PROVE  n \div Damp >= 1
<1>1. Damp \in Nat \ {0, 1} /\ Frame \in Nat \ {0} /\ Damp <= Frame
  BY FrameAssumption
<1>2. PICK k \in Int, r \in 0 .. Damp - 1 : n = Damp * k + r /\ k = n \div Damp
  BY <1>1
<1>3. CASE k <= 0
  <2>1. Damp * k <= 0 /\ Damp * k \in Int
    BY <1>1, <1>3
  <2> QED
    BY <1>1, <1>2, <2>1
<1> QED
  BY <1>2, <1>3

\* The first multiple of Frame is 0
LEMMA WholeSmall ==
    ASSUME NEW x \in Nat, Whole(x), x < Frame
    PROVE  x = 0
<1>1. Frame \in Nat \ {0}
  BY Lengths
<1>2. x = Frame * 0 + x /\ x \in 0 .. Frame - 1
  BY <1>1
<1>3. (Frame * 0 + x) % Frame = x
  BY <1>1, <1>2, ModUnique
<1> QED
  BY <1>2, <1>3 DEF Whole

LEMMA NextWhole ==
    ASSUME NEW x \in Nat, Whole(x)
    PROVE  Whole(x + Frame)
<1>1. Frame \in Nat \ {0} /\ x \in Int
  BY Lengths
<1>2. PICK q \in Int, r \in 0 .. Frame - 1 : x = Frame * q + r /\ x % Frame = r
  BY <1>1, DivMod, Zenon
<1>3. r = 0
  BY <1>2 DEF Whole
<1>4. x + Frame = Frame * (q + 1) + 0 /\ q + 1 \in Int /\ 0 \in 0 .. Frame - 1
  BY <1>1, <1>2, <1>3
<1>5. (Frame * (q + 1) + 0) % Frame = 0
  BY <1>1, <1>4, ModUnique
<1> QED
  BY <1>4, <1>5 DEF Whole

\* The end of a silence is less than a frame after the clock
LEMMA RoundedUp ==
    ASSUME elapsed \in Nat, NEW v, v = ((elapsed + Frame - 1) \div Frame) * Frame
    PROVE  v \in Nat /\ Whole(v) /\ elapsed <= v /\ v < elapsed + Frame
<1>1. Frame \in Nat \ {0} /\ elapsed + Frame - 1 \in Int
  BY Lengths
<1>2. PICK q \in Int, r \in 0 .. Frame - 1 :
        /\ elapsed + Frame - 1 = Frame * q + r
        /\ q = (elapsed + Frame - 1) \div Frame
  BY <1>1
<1>3. v = Frame * q + 0 /\ Frame * q \in Int /\ v \in Int
  <2>1. v = q * Frame
    BY <1>2, Zenon
  <2> QED
    BY <1>1, <2>1
<1>4. elapsed <= v /\ v < elapsed + Frame
  <2>1. Frame * q + r \in Int /\ v = (elapsed + Frame - 1) - r
    BY <1>1, <1>2, <1>3
  <2> QED
    BY <1>1, <2>1
<1>5. 0 \in 0 .. Frame - 1
  BY <1>1
<1>6. (Frame * q + 0) % Frame = 0
  BY <1>1, <1>5, ModUnique
<1> QED
  BY <1>3, <1>4, <1>6 DEF Whole

\* What calc_timestamp returns for voice, and where the clock is after it: a
\* prediction is kept to, unless the clock is far ahead of it.
LEMMA VoiceCalc ==
    ASSUME SendInv
    PROVE  /\ ElapsedAfter \in Nat /\ VoiceStamp \in Nat /\ Whole(VoiceStamp)
           /\ VoiceStamp <= ElapsedAfter + Window
           /\ VoiceStamp + Frame <= ElapsedAfter + (Damp * Frame)
           /\ \/ /\ Predicted /\ VoiceStamp = nextpred
                 /\ elapsed <= nextpred
                 /\ elapsed <= ElapsedAfter /\ ElapsedAfter <= nextpred
                 /\ ElapsedAfter > 0 /\ nextpred > 0
              \/ /\ Predicted /\ VoiceStamp = nextpred
                 /\ nextpred <= elapsed /\ elapsed <= nextpred + Window
                 /\ nextpred <= ElapsedAfter /\ ElapsedAfter <= elapsed
                 /\ nextpred > 0
              \/ /\ ~Predicted /\ ElapsedAfter = elapsed
                 /\ elapsed <= VoiceStamp /\ VoiceStamp < elapsed + Frame
                 /\ elapsed = 0 => VoiceStamp = 0
                 /\ notsilenttx => nextpred + Window < elapsed
<1>1. /\ elapsed \in Nat /\ nextpred \in Nat /\ Whole(nextpred) /\ lastsent \in Nat
      /\ nextpred <= elapsed + (Damp * Frame)
      /\ notsilenttx => nextpred >= Frame
      /\ notsilenttx \in BOOLEAN
  BY Lengths DEF SendInv, TypeOK, Follows, SpokenBefore
<1>2. CASE Predicted
  <2>1. /\ nextpred # 0 /\ VoiceStamp = nextpred
        /\ elapsed <= nextpred + Window
        /\ ElapsedAfter = elapsed - Quotient(elapsed - nextpred)
    BY <1>1, <1>2, Lengths
    DEF Predicted, VoiceStamp, ElapsedAfter, Distance, Bigger
  <2>2. elapsed - nextpred \in Int
    BY <1>1
  <2>3. CASE elapsed >= nextpred
    <3>1. /\ Quotient(elapsed - nextpred) \in Int
          /\ Quotient(elapsed - nextpred) >= 0
          /\ Quotient(elapsed - nextpred) <= elapsed - nextpred
      BY <1>1, <2>2, <2>3, QuotientBetween
    <3> QED
      BY <1>1, <1>2, <2>1, <2>3, <3>1, Lengths
  <2>4. CASE elapsed < nextpred
    <3>1. /\ Quotient(elapsed - nextpred) \in Int
          /\ Quotient(elapsed - nextpred) <= 0
          /\ elapsed - nextpred <= Quotient(elapsed - nextpred)
      BY <1>1, <2>2, <2>4, QuotientBetween
    <3>2. /\ nextpred - elapsed \in Nat
          /\ -(elapsed - nextpred) = nextpred - elapsed
      BY <1>1, <2>4
    <3>3. Quotient(elapsed - nextpred) = -((nextpred - elapsed) \div Damp)
      BY <1>1, <2>2, <2>4, <3>2 DEF Quotient
    <3> DEFINE k == (nextpred - elapsed) \div Damp
    <3>4. k \in Int /\ ElapsedAfter = elapsed + k
      <4>1. k \in Int
        BY <3>2, FrameAssumption
      <4> HIDE DEF k
      <4>2. Quotient(elapsed - nextpred) = -k
        BY <3>3 DEF k
      <4> QED
        BY <1>1, <2>1, <4>1, <4>2
    <3>5. (nextpred - elapsed) + Frame - k <= Damp * Frame
      BY <1>1, <3>2, LagBounded, Lengths
    <3>7. nextpred - elapsed >= Frame => k >= 1
      BY <3>2, QuotientMoves
    <3> HIDE DEF k
    <3>8. ElapsedAfter > 0
      BY <1>1, <2>1, <3>4, <3>5, <3>7, <1>2, <2>4, <3>1, Lengths DEF Predicted
    <3>6. VoiceStamp + Frame <= ElapsedAfter + (Damp * Frame)
      BY <1>1, <2>1, <3>4, <3>5, Lengths
    <3> QED
      BY <1>1, <1>2, <2>1, <2>4, <3>1, <3>6, <3>8, Lengths
  <2> QED
    BY <1>1, <2>3, <2>4
<1>3. CASE ~Predicted
  <2>1. /\ VoiceStamp = ((elapsed + Frame - 1) \div Frame) * Frame
        /\ ElapsedAfter = elapsed
    BY <1>3 DEF VoiceStamp, ElapsedAfter
  <2>2. /\ VoiceStamp \in Nat /\ Whole(VoiceStamp)
        /\ elapsed <= VoiceStamp /\ VoiceStamp < elapsed + Frame
    BY <1>1, <2>1, RoundedUp
  <2>3. notsilenttx => nextpred + Window < elapsed
    BY <1>1, <1>3, Lengths DEF Predicted, Distance, Bigger
  <2>4. elapsed = 0 => VoiceStamp = 0
    BY <2>2, WholeSmall, Lengths
  <2> QED
    BY <1>1, <1>3, <2>1, <2>2, <2>3, <2>4, Lengths
<1> QED
  BY <1>2, <1>3

-----------------------------------------------------------------------------
(* What the peer makes of it *)

\* A timestamp sent when the peer has seen one less than HalfMod - Jump away is
\* understood, whether it is sent whole or by half.
LEMMA NearIsUnderstood ==
    ASSUME SendInv, NEW ts \in Nat, NEW read, ts < IntMod, last_ts < IntMod,
           read \in {ts, ReadMini(ts, last_ts)}, Stamped(ts, read),
           ts - last_ts < HalfMod - Jump, last_ts - ts < HalfMod - Jump
    PROVE  understood' = TRUE /\ last_ts' = Bigger(last_ts, ts)
<1>1. last_ts \in Nat /\ understood = TRUE
  BY DEF SendInv, TypeOK, Understood
<1>2. IntMod \in Nat /\ Jump \in Nat /\ HalfMod - Jump <= Jump /\ HalfMod \in Nat
  BY WidthsAssumption
<1>3. unwrap_timestamp(read, last_ts) = ts
  <2>1. CASE read = ts
    BY <1>1, <1>2, <2>1, FullIsRight
  <2>2. CASE read = ReadMini(ts, last_ts)
    <3>1. ts \in 0 .. IntMod - 1 /\ last_ts \in 0 .. IntMod - 1
      BY <1>1, <1>2
    <3> QED
      BY <2>2, <3>1, ReadMiniIsRight
  <2> QED
    BY <2>1, <2>2
<1> QED
  BY <1>1, <1>3 DEF Stamped

\* The bounds of a run, as far as the steps need them
LEMMA Bounds ==
    /\ HalfMod \in Nat /\ Jump \in Nat /\ IntMod \in Nat
    /\ MaxElapsed \in Nat /\ PingEvery \in Nat /\ Late \in Nat
    /\ FirstPing \in 0 .. PingEvery
    /\ PingEvery + Late + Frame < HalfMod - Jump
    /\ 3 * Window + 3 * Gap < HalfMod - Jump
    /\ MaxElapsed + (3 * Window) + (3 * Gap) < IntMod
  BY WidthsAssumption, PingAssumption, EndAssumption

\* The numbers of a state in which the invariant holds
LEMMA Numbers ==
    ASSUME SendInv
    PROVE  /\ elapsed \in Nat /\ lastsent \in Nat /\ nextpred \in Nat
           /\ last_ts \in Nat /\ spoken \in Nat \cup {-1}
           /\ next_ping \in Int /\ -Late <= next_ping /\ next_ping <= PingEvery
           /\ elapsed <= MaxElapsed /\ last_ts < IntMod
           /\ elapsed - last_ts <= PingEvery + Late
  BY Bounds, Lengths DEF SendInv, TypeOK, PeerNotAhead, PeerNotBehind

\* Voice is sent near what the peer has seen: not more than a frame after the
\* last thing sent, or the clock, which the pings follow
LEMMA VoiceIsNear ==
    ASSUME SendInv, VoiceStamp <= MaxElapsed
    PROVE  /\ VoiceStamp < IntMod
           /\ VoiceStamp - last_ts < HalfMod - Jump
           /\ last_ts - VoiceStamp < HalfMod - Jump
<1>1. VoiceStamp \in Nat
  BY VoiceCalc
<1>2. /\ lastsent <= last_ts
      /\ last_ts <= elapsed + (2 * Window) + (2 * Gap)
      /\ Predicted => nextpred = lastsent + Frame
  BY DEF SendInv, PeerNotAhead, PeerNotBehind, SpokenBefore, Predicted
<1>3. elapsed - Window <= VoiceStamp
      /\ (VoiceStamp <= elapsed + Frame - 1 \/ VoiceStamp <= lastsent + Frame)
  BY <1>1, <1>2, VoiceCalc, Numbers, Lengths
<1> QED
  BY <1>1, <1>2, <1>3, Numbers, Lengths, Bounds

-----------------------------------------------------------------------------
(* The steps *)

LEMMA VoiceStep ==
    ASSUME SendInv, Voice
    PROVE  SendInv'
<1>1. /\ VoiceStamp <= MaxElapsed
      /\ tx_silent' = FALSE /\ elapsed' = ElapsedAfter /\ lastsent' = VoiceStamp
      /\ nextpred' = VoiceStamp + Frame /\ notsilenttx' = TRUE
      /\ next_ping' = next_ping
  BY DEF Voice
<1>2. /\ svoiceformat' \in BOOLEAN
      /\ \/ spoken' = VoiceStamp /\ VoiceStamp # 0
         \/ spoken' = spoken /\ VoiceStamp = 0
      /\ last_ts' = Bigger(last_ts, VoiceStamp) /\ understood' = TRUE
  <2>1. svoiceformat \in BOOLEAN /\ understood = TRUE /\ last_ts \in Nat
    BY DEF SendInv, TypeOK, Understood
  <2>2. CASE VoiceStamp = 0 /\ UNCHANGED <<svoiceformat, peer, spoken>>
    BY <2>1, <2>2 DEF peer, Bigger
  <2>3. CASE /\ VoiceStamp # 0
             /\ Stamped(VoiceStamp, IF Mini(VoiceStamp)
                                    THEN ReadMini(VoiceStamp, last_ts)
                                    ELSE VoiceStamp)
             /\ svoiceformat' = TRUE /\ spoken' = VoiceStamp
    <3>1. VoiceStamp \in Nat /\ last_ts < IntMod
      BY VoiceCalc, Numbers
    <3>2. understood' = TRUE /\ last_ts' = Bigger(last_ts, VoiceStamp)
      BY <1>1, <2>3, <3>1, VoiceIsNear, NearIsUnderstood
    <3> QED
      BY <2>3, <3>2
  <2> QED
    BY <2>2, <2>3 DEF Voice, SendVoiceFrame
<1>3. /\ last_ts' \in Nat /\ VoiceStamp <= last_ts' /\ last_ts <= last_ts'
      /\ last_ts' = VoiceStamp \/ last_ts' = last_ts
  BY <1>2, VoiceCalc, Numbers DEF Bigger
<1>4. TypeOK'
  <2>1. nextpred' \in Nat /\ Whole(VoiceStamp + Frame)
    BY <1>1, VoiceCalc, NextWhole, Lengths
  <2>2. spoken' \in Nat \cup {-1} /\ (spoken' # -1 => Whole(spoken'))
    BY <1>2, VoiceCalc DEF SendInv, TypeOK, Whole
  <2> QED
    BY <1>1, <1>2, <1>3, <2>1, <2>2, VoiceCalc DEF SendInv, TypeOK, Whole
<1>5. elapsed' <= MaxElapsed
  BY <1>1, VoiceCalc, Numbers, Bounds, Lengths
<1>6. Follows'
  BY <1>1, VoiceCalc DEF Follows
<1>7. SpokenBefore'
  <2>1. spoken = -1 \/ elapsed > 0
    BY DEF SendInv, SpokenBefore
  <2>2. VoiceStamp # 0 => elapsed' > 0
    BY <1>1, VoiceCalc, Numbers
  <2>3. VoiceStamp = 0 => spoken = -1
    BY <2>1, VoiceCalc, Numbers
  <2>4. spoken' = -1 \/ (spoken' = VoiceStamp /\ elapsed' > 0)
    BY <1>2, <2>2, <2>3
  <2>5. nextpred' = VoiceStamp + Frame /\ lastsent' = VoiceStamp
    BY <1>1
  <2>6. VoiceStamp \in Nat /\ VoiceStamp + Frame <= VoiceStamp + Frame
    BY VoiceCalc, Lengths
  <2>7. spoken' = -1 \/ (spoken' + Frame <= nextpred' /\ elapsed' > 0)
    BY <2>4, <2>5, <2>6
  <2> QED
    BY <2>5, <2>7 DEF SpokenBefore
<1>8. PeerNotAhead'
  <2>1. /\ last_ts <= elapsed + (2 * Window) + (2 * Gap)
        /\ notsilenttx =>
             \/ last_ts <= nextpred + (2 * Window) + (2 * Gap)
             \/ last_ts <= elapsed + Window + (2 * Gap)
        /\ Predicted => notsilenttx
    BY DEF SendInv, PeerNotAhead, Predicted
  <2>2. lastsent' <= elapsed' + Window + Gap
    BY <1>1, VoiceCalc, Lengths
  <2>3. last_ts <= elapsed' + (2 * Window) + (2 * Gap)
    BY <1>1, <2>1, VoiceCalc, Numbers, Lengths
  <2>4. last_ts <= nextpred' + (2 * Window) + (2 * Gap)
    BY <1>1, <2>1, VoiceCalc, Numbers, Lengths
  <2>5. last_ts' <= elapsed' + (2 * Window) + (2 * Gap)
    BY <1>1, <1>3, <2>3, VoiceCalc, Numbers, Lengths
  <2>6. last_ts' <= nextpred' + (2 * Window) + (2 * Gap)
    BY <1>1, <1>3, <2>4, VoiceCalc, Numbers, Lengths
  <2> QED
    BY <2>2, <2>5, <2>6 DEF PeerNotAhead
<1>9. PeerNotBehind'
  <2>1. elapsed - last_ts <= PingEvery - next_ping
    BY DEF SendInv, PeerNotBehind
  <2> QED
    BY <1>1, <1>3, <2>1, VoiceCalc, Numbers, Bounds DEF PeerNotBehind
<1> QED
  BY <1>2, <1>4, <1>5, <1>6, <1>7, <1>8, <1>9 DEF SendInv, Understood

LEMMA SilenceStep ==
    ASSUME SendInv, Silence
    PROVE  SendInv'
<1>1. /\ tx_silent' = TRUE /\ notsilenttx' = FALSE /\ lastsent' = NoiseStamp
      /\ Stamped(NoiseStamp, NoiseStamp)
      /\ UNCHANGED <<elapsed, nextpred, svoiceformat, next_ping, spoken>>
  BY DEF Silence
<1>2. /\ NoiseStamp \in Nat
      /\ NoiseStamp <= elapsed + Window + Gap /\ elapsed - Window <= NoiseStamp
      /\ NoiseStamp <= lastsent + Gap \/ NoiseStamp = elapsed
  BY Numbers, Lengths DEF NoiseStamp, Distance, Bigger
<1>3. /\ lastsent <= last_ts
      /\ last_ts <= elapsed + (2 * Window) + (2 * Gap)
      /\ elapsed - last_ts <= PingEvery - next_ping
  BY DEF SendInv, PeerNotAhead, PeerNotBehind
<1>4. /\ NoiseStamp < IntMod
      /\ NoiseStamp - last_ts < HalfMod - Jump
      /\ last_ts - NoiseStamp < HalfMod - Jump
  BY <1>2, <1>3, Numbers, Lengths, Bounds
<1>5. understood' = TRUE /\ last_ts' = Bigger(last_ts, NoiseStamp)
  BY <1>1, <1>2, <1>4, Numbers, NearIsUnderstood
<1>6. /\ last_ts' \in Nat /\ NoiseStamp <= last_ts' /\ last_ts <= last_ts'
      /\ last_ts' = NoiseStamp \/ last_ts' = last_ts
  BY <1>2, <1>5, Numbers DEF Bigger
<1>7. TypeOK'
  BY <1>1, <1>2, <1>5, <1>6 DEF SendInv, TypeOK, Whole
<1>8. elapsed' <= MaxElapsed /\ Follows' /\ SpokenBefore'
  BY <1>1 DEF SendInv, Follows, SpokenBefore
<1>9. PeerNotAhead'
  <2>1. /\ lastsent' <= elapsed' + Window + Gap
        /\ last_ts' <= elapsed' + (2 * Window) + (2 * Gap)
    BY <1>1, <1>2, <1>3, <1>6, Numbers, Lengths
  <2> QED
    BY <1>1, <2>1 DEF PeerNotAhead
<1>10. PeerNotBehind'
  BY <1>1, <1>3, <1>6, Numbers, Bounds DEF PeerNotBehind
<1> QED
  BY <1>5, <1>7, <1>8, <1>9, <1>10 DEF SendInv, Understood

\* A frame of type IAX brings the peer up to the clock
LEMMA GenuineStep ==
    ASSUME SendInv, Genuine, next_ping' \in {next_ping, PingEvery}
    PROVE  SendInv'
<1>1. /\ last_ts' = Bigger(last_ts, GenuineStamp)
      /\ UNCHANGED <<elapsed, lastsent, nextpred, notsilenttx, svoiceformat,
                     tx_silent, spoken, understood>>
  BY DEF Genuine, stamps
<1>2. /\ GenuineStamp \in Nat /\ elapsed <= GenuineStamp
      /\ GenuineStamp = elapsed \/ GenuineStamp = lastsent + Gap
  BY Numbers, Lengths DEF GenuineStamp
<1>3. /\ lastsent <= last_ts /\ lastsent <= elapsed + Window + Gap
      /\ last_ts <= elapsed + (2 * Window) + (2 * Gap)
      /\ notsilenttx =>
           \/ last_ts <= nextpred + (2 * Window) + (2 * Gap)
           \/ last_ts <= elapsed + Window + (2 * Gap)
      /\ elapsed - last_ts <= PingEvery - next_ping
  BY DEF SendInv, PeerNotAhead, PeerNotBehind
<1>4. /\ last_ts' \in Nat /\ elapsed <= last_ts' /\ last_ts <= last_ts'
      /\ last_ts' = GenuineStamp \/ last_ts' = last_ts
  BY <1>1, <1>2, Numbers DEF Bigger
<1>5. GenuineStamp <= elapsed + Window + (2 * Gap)
  BY <1>2, <1>3, Numbers, Lengths
<1>6. TypeOK'
  <2>1. next_ping' \in -Late .. PingEvery
    BY Bounds DEF SendInv, TypeOK
  <2> QED
    BY <1>1, <1>4, <2>1 DEF SendInv, TypeOK, Whole
<1>7. elapsed' <= MaxElapsed /\ Follows' /\ SpokenBefore' /\ Understood'
  BY <1>1 DEF SendInv, Follows, SpokenBefore, Understood
<1>8. PeerNotAhead'
  <2>1. last_ts' <= elapsed + (2 * Window) + (2 * Gap)
    BY <1>3, <1>4, <1>5, Numbers, Lengths
  <2>2. notsilenttx =>
           \/ last_ts' <= nextpred + (2 * Window) + (2 * Gap)
           \/ last_ts' <= elapsed + Window + (2 * Gap)
    BY <1>3, <1>4, <1>5
  <2> QED
    BY <1>1, <1>3, <2>1, <2>2 DEF PeerNotAhead
<1>9. PeerNotBehind'
  BY <1>1, <1>3, <1>4, Numbers, Bounds DEF PeerNotBehind
<1> QED
  BY <1>6, <1>7, <1>8, <1>9 DEF SendInv

LEMMA TickStep ==
    ASSUME SendInv, Tick
    PROVE  SendInv'
<1>1. /\ elapsed < MaxElapsed /\ next_ping > -Late
      /\ elapsed' = elapsed + 1 /\ next_ping' = next_ping - 1
      /\ UNCHANGED <<lastsent, nextpred, notsilenttx, svoiceformat, tx_silent,
                     last_ts, spoken, understood>>
  BY DEF Tick, stamps, peer
<1>2. TypeOK'
  <2>1. elapsed' \in Nat /\ next_ping' \in -Late .. PingEvery
    BY <1>1, Numbers, Bounds
  <2> QED
    BY <1>1, <2>1 DEF SendInv, TypeOK, Whole
<1>3. elapsed' <= MaxElapsed /\ Understood'
  BY <1>1, Numbers, Bounds DEF SendInv, Understood
<1>4. Follows' /\ SpokenBefore'
  BY <1>1, Numbers, Lengths DEF SendInv, Follows, SpokenBefore
<1>5. PeerNotAhead'
  BY <1>1, Numbers, Lengths DEF SendInv, PeerNotAhead
<1>6. PeerNotBehind'
  BY <1>1, Numbers, Bounds DEF SendInv, PeerNotBehind
<1> QED
  BY <1>2, <1>3, <1>4, <1>5, <1>6 DEF SendInv

LEMMA StillStep ==
    ASSUME SendInv, UNCHANGED <<elapsed, stamps, next_ping, peer, spoken>>,
           tx_silent' \in BOOLEAN
    PROVE  SendInv'
BY DEF stamps, peer, SendInv, TypeOK, Whole, Understood, Follows, SpokenBefore,
       PeerNotAhead, PeerNotBehind

LEMMA InitInv == Init => SendInv
<1> SUFFICES ASSUME Init PROVE SendInv
  OBVIOUS
<1>1. 0 % Frame = 0
  <2>1. Frame \in Nat \ {0} /\ 0 \in 0 .. Frame - 1 /\ Frame * 0 + 0 = 0
    BY Lengths
  <2> QED
    BY <2>1, ModUnique
<1>2. TypeOK
  <2>1. nextpred \in Nat /\ Whole(nextpred)
    BY <1>1 DEF Init, Whole
  <2>2. spoken \in Nat \cup {-1} /\ (spoken # -1 => Whole(spoken))
    BY DEF Init
  <2>3. next_ping \in -Late .. PingEvery
    BY Bounds DEF Init
  <2> QED
    BY <2>1, <2>2, <2>3, Lengths DEF Init, TypeOK
<1>3. elapsed <= MaxElapsed /\ Follows /\ SpokenBefore /\ Understood
  BY Lengths, Bounds DEF Init, Follows, SpokenBefore, Understood
<1>4. PeerNotAhead
  BY Lengths DEF Init, PeerNotAhead
<1>5. PeerNotBehind
  BY Lengths, Bounds DEF Init, PeerNotBehind
<1> QED
  BY <1>2, <1>3, <1>4, <1>5 DEF SendInv

LEMMA NextInv == SendInv /\ [Next]_vars => SendInv'
<1> SUFFICES ASSUME SendInv, [Next]_vars PROVE SendInv'
  OBVIOUS
<1>1. CASE Voice
  BY <1>1, VoiceStep
<1>2. CASE VoiceUnsent
  BY <1>2, StillStep DEF VoiceUnsent
<1>3. CASE Silence
  BY <1>3, SilenceStep
<1>4. CASE Ping
  BY <1>4, GenuineStep DEF Ping
<1>5. CASE Command
  BY <1>5, GenuineStep DEF Command
<1>6. CASE Tick
  BY <1>6, TickStep
<1>7. CASE UNCHANGED vars
  <2>1. tx_silent \in BOOLEAN
    BY DEF SendInv, TypeOK
  <2> QED
    BY <1>7, <2>1, StillStep DEF vars
<1> QED
  BY <1>1, <1>2, <1>3, <1>4, <1>5, <1>6, <1>7 DEF Next

LEMMA InvHolds == Spec => []SendInv
BY InitInv, NextInv, PTL DEF Spec

\* The clock of the session, the prediction and the timestamps keep their types:
\* what calc_timestamp predicts is always a whole number of frames.
THEOREM TypeCorrect == Spec => []TypeOK
<1>1. SendInv => TypeOK
  BY DEF SendInv
<1> QED
  BY <1>1, InvHolds, PTL

\* The peer comes to the timestamp each voice and comfort noise frame was sent with
\* (iax_send, unwrap_timestamp), although of most voice it gets the lower half.
THEOREM PeerUnderstands == Spec => []Understood
<1>1. SendInv => Understood
  BY DEF SendInv
<1> QED
  BY <1>1, InvHolds, PTL

LEMMA VoiceGoesOn ==
    ASSUME SendInv, Voice
    PROVE  IF notsilenttx THEN spoken' > spoken
           ELSE spoken' > spoken - (Damp * Frame)
<1>1. /\ spoken = -1 \/ (spoken + Frame <= nextpred /\ elapsed > 0)
      /\ notsilenttx \in BOOLEAN
      /\ nextpred <= elapsed + (Damp * Frame)
  BY DEF SendInv, TypeOK, SpokenBefore, Follows
<1>2. spoken' = VoiceStamp \/ (spoken' = spoken /\ VoiceStamp = 0)
  BY DEF Voice, SendVoiceFrame
<1>3. VoiceStamp = 0 => spoken = -1 /\ ~Predicted
  BY <1>1, VoiceCalc, Numbers
<1>4. CASE notsilenttx
  <2>1. VoiceStamp \in Nat /\ nextpred <= VoiceStamp /\ VoiceStamp > 0
    BY <1>4, VoiceCalc, Numbers, Lengths
  <2>2. spoken' = VoiceStamp /\ spoken < VoiceStamp
    BY <1>1, <1>2, <2>1, Numbers, Lengths
  <2> QED
    BY <1>4, <2>1, <2>2
<1>5. CASE ~notsilenttx
  <2>1. ~Predicted
    BY <1>5 DEF Predicted
  <2> QED
    BY <1>1, <1>2, <1>3, <1>5, <2>1, VoiceCalc, Numbers, Lengths
<1> QED
  BY <1>1, <1>4, <1>5

\* Each voice of a row has a later timestamp than the one before, whatever the pace
\* of the sound card, and the first after comfort noise is less than Damp frames
\* back: what calc_timestamp makes of its prediction.
THEOREM VoiceGoesForward == Spec => VoiceForward
<1>1. SendInv /\ [Next]_vars =>
        [Voice => IF notsilenttx THEN spoken' > spoken
                  ELSE spoken' > spoken - (Damp * Frame)]_vars
  BY VoiceGoesOn
<1> QED
  BY <1>1, InvHolds, PTL DEF Spec, VoiceForward

=============================================================================
