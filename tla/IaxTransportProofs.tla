------------------------- MODULE IaxTransportProofs -------------------------
(***************************************************************************)
(* Proofs about IaxTransport for any number of frames, any window and      *)
(* number of retries, and any modulus the window fits in.                  *)
(***************************************************************************)
EXTENDS IaxTransport, SequenceTheorems, TLAPS

-----------------------------------------------------------------------------
(* Counters that wrap: what remainders modulo M tell about the numbers they *)
(* stand for                                                                *)

\* Every integer is a whole number of turns around the counter and a remainder;
\* the remainder is what an unsigned char of iax_session holds.
LEMMA DivMod ==
    ASSUME NEW M \in Nat \ {0}, NEW x \in Int
    PROVE  \E q \in Int, r \in 0 .. M - 1 : x = M * q + r /\ x % M = r
  <1>1. x = M * (x \div M) + (x % M) /\ (x \div M) \in Int /\ x % M \in 0 .. M - 1
    OBVIOUS
  <1> QED BY <1>1

\* The remainder does not depend on how often the counter wrapped around.
LEMMA ModUnique ==
    ASSUME NEW M \in Nat \ {0}, NEW q \in Int, NEW r \in 0 .. M - 1
    PROVE  (M * q + r) % M = r
  OBVIOUS

\* The remainder of the differences the code computes: between two numbers less
\* than one turn apart, in either order, and of exactly one turn.
LEMMA ModSmall ==
    ASSUME NEW M \in Nat \ {0}, NEW x \in Int
    PROVE  /\ x \in 0 .. M - 1 => x % M = x
           /\ x \in -M .. -1 => x % M = x + M
           /\ x = M => x % M = 0
  OBVIOUS

\* Two numbers with the same counter value that are less than a turn apart are
\* equal: why comparing iseqno with oseqno identifies a frame.
LEMMA ModEqual ==
    ASSUME NEW M \in Nat \ {0}, NEW x \in Int, NEW y \in Int,
           x % M = y % M, x - y < M, y - x < M
    PROVE  x = y
  <1>1. x = M * (x \div M) + (x % M) /\ y = M * (y \div M) + (y % M) OBVIOUS
  <1>2. (x \div M) \in Int /\ (y \div M) \in Int OBVIOUS
  <1>3. x - y = M * ((x \div M) - (y \div M)) BY <1>1, <1>2
  <1>4. (x \div M) - (y \div M) = 0 BY <1>2, <1>3
  <1> QED BY <1>3, <1>4

\* Counting with a wrapping counter (oseqno++, iseqno++) is counting.
LEMMA ModSucc ==
    ASSUME NEW M \in Nat \ {0}, NEW x \in Int
    PROVE  ((x % M) + 1) % M = (x + 1) % M
  <1>1. PICK q \in Int, r \in 0 .. M - 1 : x = M * q + r /\ x % M = r
    BY DivMod
  <1>2. CASE r + 1 < M
    <2>1. x + 1 = M * q + (r + 1) /\ r + 1 \in 0 .. M - 1 BY <1>1, <1>2
    <2>2. (x + 1) % M = r + 1 BY <2>1, ModUnique
    <2> QED BY <1>1, <2>1, <2>2, ModSmall
  <1>3. CASE r + 1 = M
    <2>1. q + 1 \in Int /\ 0 \in 0 .. M - 1 /\ M * (q + 1) = M * q + M OBVIOUS
    <2>2. x + 1 = M * (q + 1) + 0 BY <1>1, <1>3, <2>1
    <2>3. (x + 1) % M = 0 BY <2>1, <2>2, ModUnique
    <2> QED BY <1>1, <1>3, <2>3, ModSmall
  <1> QED BY <1>2, <1>3

\* The (unsigned char) difference of two counters is that of the numbers.
LEMMA ModDiff ==
    ASSUME NEW M \in Nat \ {0}, NEW x \in Int, NEW y \in Int
    PROVE  ((x % M) - (y % M)) % M = (x - y) % M
  <1>1. PICK i \in Int, r \in 0 .. M - 1 : x = M * i + r /\ x % M = r
    BY DivMod
  <1>2. PICK j \in Int, s \in 0 .. M - 1 : y = M * j + s /\ y % M = s
    BY DivMod
  <1>3. M * (i - j) = M * i - M * j /\ M * (i - j - 1) = M * i - M * j - M
    OBVIOUS
  <1>4. CASE r >= s
    <2>1. x - y = M * (i - j) + (r - s) /\ r - s \in 0 .. M - 1 /\ i - j \in Int
      BY <1>1, <1>2, <1>3, <1>4
    <2>2. (x - y) % M = r - s BY <2>1, ModUnique
    <2> QED BY <1>1, <1>2, <2>1, <2>2, ModSmall
  <1>5. CASE r < s
    <2>1. x - y = M * (i - j - 1) + (r - s + M) /\ r - s + M \in 0 .. M - 1
          /\ i - j - 1 \in Int /\ r - s \in -M .. -1 /\ r - s \in Int
      BY <1>1, <1>2, <1>3, <1>5
    <2>2. PICK k \in Int, t \in 0 .. M - 1 : x - y = M * k + t /\ t = r - s + M
      BY <2>1
    <2>3. (M * k + t) % M = t BY ModUnique
    <2>4. (r - s) % M = r - s + M BY <2>1, ModSmall
    <2> QED BY <1>1, <1>2, <2>2, <2>3, <2>4
  <1> QED BY <1>4, <1>5

-----------------------------------------------------------------------------
(* The two peers, sequence numbers *)

\* Other is an involution on the two peers.
LEMMA OtherPeer ==
    ASSUME NEW p \in Peers
    PROVE  /\ Other(p) \in Peers /\ Other(p) # p /\ Other(Other(p)) = p
           /\ \A q \in Peers : q = p \/ q = Other(p)
  <1>1. PICK x, y \in Peers : x # y /\ Peers = {x, y} BY PeersAssumption
  <1>2. \A q \in Peers : \E r \in Peers : r # q BY <1>1
  <1>3. \A q \in Peers : Other(q) \in Peers /\ Other(q) # q BY <1>2 DEF Other
  <1> QED BY <1>1, <1>3

\* An unsigned char is one of the SeqMod sequence numbers.
LEMMA ByteType ==
    ASSUME NEW x \in Int
    PROVE  Byte(x) \in SeqNo /\ Byte(x) \in Nat
  <1>1. SeqMod \in Nat \ {0} BY NumbersAssumption
  <1> QED BY <1>1, DivMod DEF Byte, SeqNo

\* oseqno++ and iseqno++ count frames.
LEMMA ByteSucc ==
    ASSUME NEW x \in Int
    PROVE  Byte(Byte(x) + 1) = Byte(x + 1)
  <1>1. SeqMod \in Nat \ {0} BY NumbersAssumption
  <1> QED BY <1>1, ModSucc DEF Byte

\* Equal sequence numbers less than a turn apart are the same frame's.
LEMMA ByteEqual ==
    ASSUME NEW x \in Int, NEW y \in Int, Byte(x) = Byte(y),
           x - y < SeqMod, y - x < SeqMod
    PROVE  x = y
  <1>1. SeqMod \in Nat \ {0} BY NumbersAssumption
  <1> QED BY <1>1, ModEqual DEF Byte

\* The distance of two sequence numbers less than a turn apart.
LEMMA DistBytes ==
    ASSUME NEW x \in Int, NEW y \in Int
    PROVE  /\ x <= y /\ y - x < SeqMod => Dist(Byte(x), Byte(y)) = y - x
           /\ y < x /\ x - y <= SeqMod => Dist(Byte(x), Byte(y)) = y - x + SeqMod
  <1>1. SeqMod \in Nat \ {0} BY NumbersAssumption
  <1>2. Dist(Byte(x), Byte(y)) = Byte(y - x) BY <1>1, ModDiff DEF Dist, Byte
  <1>3. y - x \in Int /\ y - x + SeqMod \in Int BY <1>1
  <1>4. x <= y /\ y - x < SeqMod => Byte(y - x) = y - x
    BY <1>1, <1>3, ModSmall DEF Byte
  <1>5. y < x /\ x - y <= SeqMod => Byte(y - x) = y - x + SeqMod
    BY <1>1, <1>3, ModSmall DEF Byte
  <1> QED BY <1>2, <1>4, <1>5

-----------------------------------------------------------------------------
(* Type correctness *)

\* The numbers the counters stand for are natural numbers.
LEMMA Lengths ==
    ASSUME TypeOK
    PROVE  /\ \A p \in Peers : /\ Sent(p) \in Nat /\ Accepted(p) \in Nat
                               /\ acked[p] \in Nat
           /\ SeqMod \in Nat /\ Window \in Nat
           /\ 1 <= Window /\ Window + 1 < SeqMod
  BY NumbersAssumption DEF TypeOK, Sent, Accepted

\* The same of the next state.
LEMMA LengthsNext ==
    ASSUME TypeOK'
    PROVE  \A p \in Peers : /\ Sent(p)' \in Nat /\ Accepted(p)' \in Nat
                            /\ acked'[p] \in Nat
  BY DEF TypeOK, Sent, Accepted

\* What sendto puts on the wire for a queued frame is a packet of its sender.
LEMMA OnWireType ==
    ASSUME NEW p \in Peers, NEW f \in Frame
    PROVE  OnWire(p, f) \in Packet
  BY DEF Frame, Packet, OnWire

\* Marking frames as sent (retries = -1) leaves them frames.
LEMMA CancelType ==
    ASSUME NEW F \in SUBSET Frame
    PROVE  Cancel(F) \in SUBSET Frame
  <1>1. -1 \in -1 .. MaxRetries BY NumbersAssumption
  <1> QED BY <1>1 DEF Cancel, Frame

\* iax_send builds a frame.
LEMMA NewFrameType ==
    ASSUME TypeOK, NEW p \in Peers, NEW e \in SeqNo, NEW g \in Nat
    PROVE  NewFrame(p, e, g) \in Frame
  <1>1. MaxRetries \in -1 .. MaxRetries BY NumbersAssumption
  <1>2. Sent(p) + 1 \in Nat BY Lengths
  <1> QED BY <1>1, <1>2 DEF TypeOK, NewFrame, Frame

\* An ACK or a VNAK is a packet.
LEMMA ImmediateType ==
    ASSUME NEW p \in Peers, NEW k \in {"ack", "vnak"}, NEW s \in SeqNo,
           NEW e \in SeqNo, NEW g \in Nat
    PROVE  Immediate(p, k, s, e, g) \in Packet
  BY DEF Immediate, Packet

\* What is on the network after a transmission was there or was transmitted.
LEMMA XmitSub ==
    ASSUME NEW ms, NEW ps, Xmit(ms, ps)
    PROVE  net' \subseteq ms \cup ps
  BY DEF Xmit

\* Sending counts the frame and appends its payload.
LEMMA SendReliableType ==
    ASSUME TypeOK, NEW p \in Peers, NEW x \in AllPayloads, NEW f \in Frame,
           SendReliable(p, x, f)
    PROVE  /\ oseqno' \in [Peers -> SeqNo] /\ aseqno' \in [Peers -> SeqNo]
           /\ sent' \in [Peers -> Seq(AllPayloads)]
  <1>1. Byte(oseqno[p] + 1) \in SeqNo
    <2>1. oseqno[p] + 1 \in Int BY DEF TypeOK, SeqNo
    <2> QED BY <2>1, ByteType
  <1>2. f.iseqno \in SeqNo BY DEF Frame
  <1>3. Append(sent[p], x) \in Seq(AllPayloads) BY DEF TypeOK
  <1> QED BY <1>1, <1>2, <1>3 DEF TypeOK, SendReliable

\* Cancelling what a datagram acknowledges leaves schedq a set of frames.
LEMMA AfterAckType ==
    ASSUME TypeOK, NEW p \in Peers, NEW m \in Packet
    PROVE  /\ AckedFrames(p, m) \in SUBSET schedq[p]
           /\ AfterAck(p, m) \in SUBSET Frame
  <1>1. AckedFrames(p, m) \in SUBSET schedq[p] BY DEF AckedFrames
  <1>2. schedq[p] \in SUBSET Frame BY DEF TypeOK
  <1> QED BY <1>1, <1>2, CancelType DEF AfterAck

\* Noting an acknowledgement keeps rseqno a sequence number.
LEMMA NoteAckType ==
    ASSUME TypeOK, NEW p \in Peers, NEW m \in Packet, NoteAck(p, m)
    PROVE  rseqno' \in [Peers -> SeqNo] /\ acked' \in [Peers -> Nat]
  <1>1. m.iseqno \in SeqNo /\ rseqno[p] \in SeqNo /\ acked[p] \in Nat
    BY DEF TypeOK, Packet
  <1>2. Dist(rseqno[p], m.iseqno) \in Nat BY <1>1, ByteType DEF Dist, SeqNo
  <1>3. acked[p] + Dist(rseqno[p], m.iseqno) \in Nat BY <1>1, <1>2
  <1> QED BY <1>1, <1>3 DEF TypeOK, NoteAck

\* send_command keeps the types.
LEMMA SendType ==
    ASSUME TypeOK, NEW p \in Peers, NEW x \in AllPayloads, Send(p, x)
    PROVE  TypeOK'
  <1> DEFINE f == NewFrame(p, iseqno[p], Accepted(p))
  <1>1. f \in Frame BY NewFrameType, Lengths DEF TypeOK
  <1>2. OnWire(p, f) \in Packet BY <1>1, OnWireType
  <1>3. SendReliable(p, x, f) /\ schedq' = [schedq EXCEPT ![p] = @ \cup {f}]
        /\ Xmit(net, {OnWire(p, f)})
        /\ UNCHANGED <<rseqno, iseqno, alive, delivered, acked>>
    BY DEF Send
  <1> HIDE DEF f
  <1>4. oseqno' \in [Peers -> SeqNo] /\ aseqno' \in [Peers -> SeqNo]
        /\ sent' \in [Peers -> Seq(AllPayloads)]
    BY <1>1, <1>3, SendReliableType
  <1>5. schedq' \in [Peers -> SUBSET Frame] BY <1>1, <1>3 DEF TypeOK
  <1>6. net' \in SUBSET Packet BY <1>2, <1>3, XmitSub DEF TypeOK
  <1> QED BY <1>3, <1>4, <1>5, <1>6 DEF TypeOK

\* send_command_final keeps the types.
LEMMA SendFinalType ==
    ASSUME TypeOK, NEW p \in Peers, NEW F \in SUBSET Frame, SendFinal(p, F)
    PROVE  TypeOK'
  <1> DEFINE f == NewFrame(p, iseqno[p], Accepted(p))
  <1>1. f \in Frame BY NewFrameType, Lengths DEF TypeOK
  <1>2. OnWire(p, f) \in Packet BY <1>1, OnWireType
  <1>3. Hangup \in AllPayloads BY DEF AllPayloads
  <1>4. /\ SendReliable(p, Hangup, f)
        /\ \/ /\ schedq' = [schedq EXCEPT ![p] = Cancel(F \cup {f})]
              /\ alive' = [alive EXCEPT ![p] = FALSE]
              /\ Xmit(net, {OnWire(p, f)})
           \/ /\ schedq' = [schedq EXCEPT ![p] = F \cup {f}]
              /\ UNCHANGED <<alive, net>>
        /\ UNCHANGED <<rseqno, iseqno, delivered, acked>>
    BY DEF SendFinal
  <1> HIDE DEF f
  <1>5. oseqno' \in [Peers -> SeqNo] /\ aseqno' \in [Peers -> SeqNo]
        /\ sent' \in [Peers -> Seq(AllPayloads)]
    BY <1>1, <1>3, <1>4, SendReliableType
  <1>6. F \cup {f} \in SUBSET Frame /\ Cancel(F \cup {f}) \in SUBSET Frame
    BY <1>1, CancelType
  <1>7. schedq' \in [Peers -> SUBSET Frame] BY <1>4, <1>6 DEF TypeOK
  <1>8. net' \in SUBSET Packet BY <1>2, <1>4, XmitSub DEF TypeOK
  <1>9. alive' \in [Peers -> BOOLEAN] BY <1>4 DEF TypeOK
  <1> QED BY <1>4, <1>5, <1>7, <1>8, <1>9 DEF TypeOK

\* The timers keep the types.
LEMMA TimerType ==
    ASSUME TypeOK, NEW p \in Peers,
           \/ Reap(p) \/ Retransmit(p) \/ Timeout(p)
           \/ TimeoutUnheard(p) \/ EndFinal(p)
    PROVE  TypeOK'
  <1>1. CASE Reap(p) BY <1>1 DEF Reap, TypeOK, session, history
  <1>2. CASE Retransmit(p)
    <2>1. PICK f \in schedq[p] :
             /\ f.retries > 0
             /\ schedq' = [schedq EXCEPT ![p] =
                              (@ \ {f}) \cup {[f EXCEPT !.retries = @ - 1]}]
             /\ Xmit(net, {OnWire(p, f)})
             /\ UNCHANGED <<session, history>>
      BY <1>2 DEF Retransmit
    <2>2. f \in Frame BY DEF TypeOK
    <2>3. f.retries - 1 \in -1 .. MaxRetries
      BY <2>1, <2>2, NumbersAssumption DEF Frame
    <2>4. [f EXCEPT !.retries = @ - 1] \in Frame BY <2>2, <2>3 DEF Frame
    <2>5. schedq' \in [Peers -> SUBSET Frame] BY <2>1, <2>4 DEF TypeOK
    <2>6. OnWire(p, f) \in Packet BY <2>2, OnWireType
    <2>7. net' \in SUBSET Packet BY <2>1, <2>6, XmitSub DEF TypeOK
    <2> QED BY <2>1, <2>5, <2>7 DEF TypeOK, session, history
  <1>3. CASE Timeout(p)
    <2>1. PICK f \in schedq[p] : SendFinal(p, schedq[p] \ {f})
      BY <1>3 DEF Timeout
    <2>2. schedq[p] \ {f} \in SUBSET Frame BY DEF TypeOK
    <2> QED BY <2>1, <2>2, SendFinalType
  <1>4. CASE TimeoutUnheard(p)
    BY <1>4 DEF TimeoutUnheard, TypeOK, session, history
  <1>5. CASE EndFinal(p)
    <2>1. PICK f \in schedq[p] :
             schedq' = [schedq EXCEPT ![p] = Cancel(@ \ {f})]
      BY <1>5 DEF EndFinal
    <2>2. Cancel(schedq[p] \ {f}) \in SUBSET Frame BY CancelType DEF TypeOK
    <2>3. schedq' \in [Peers -> SUBSET Frame] BY <2>1, <2>2 DEF TypeOK
    <2>4. alive' \in [Peers -> BOOLEAN] BY <1>5 DEF EndFinal, TypeOK
    <2> QED BY <1>5, <2>3, <2>4 DEF EndFinal, TypeOK, history
  <1> QED BY <1>1, <1>2, <1>3, <1>4, <1>5

\* The part of receiving a datagram that every handler shares.
LEMMA ReceiveType ==
    ASSUME TypeOK, NEW p \in Peers, NEW m \in net, NEW ms \in Consume(m),
           NEW ps \in SUBSET Packet, NoteAck(p, m), Xmit(ms, ps)
    PROVE  /\ rseqno' \in [Peers -> SeqNo] /\ acked' \in [Peers -> Nat]
           /\ AfterAck(p, m) \in SUBSET Frame /\ net' \in SUBSET Packet
           /\ [schedq EXCEPT ![p] = AfterAck(p, m)] \in [Peers -> SUBSET Frame]
           /\ [aseqno EXCEPT ![p] = iseqno[p]] \in [Peers -> SeqNo]
  <1>1. m \in Packet BY DEF TypeOK
  <1>2. ms \subseteq Packet BY DEF TypeOK, Consume
  <1>3. net' \in SUBSET Packet BY <1>2, XmitSub
  <1>4. AfterAck(p, m) \in SUBSET Frame BY <1>1, AfterAckType
  <1>5. [schedq EXCEPT ![p] = AfterAck(p, m)] \in [Peers -> SUBSET Frame]
    BY <1>4 DEF TypeOK
  <1>6. [aseqno EXCEPT ![p] = iseqno[p]] \in [Peers -> SeqNo] BY DEF TypeOK
  <1> QED BY <1>1, <1>3, <1>4, <1>5, <1>6, NoteAckType

\* "Already ack'd iax frames": at most one ACK packet.
LEMMA FinalAckType ==
    ASSUME TypeOK, NEW p \in Peers, NEW m \in Packet
    PROVE  FinalAck(p, m) \in SUBSET Packet
  <1>1. m.iseqno \in SeqNo /\ iseqno[p] \in SeqNo /\ Accepted(p) \in Nat
    BY Lengths DEF TypeOK, Packet
  <1>2. Immediate(p, "ack", m.iseqno, iseqno[p], Accepted(p)) \in Packet
    BY <1>1, ImmediateType
  <1> QED BY <1>2 DEF FinalAck

\* iax_header_to_event keeps the types.
LEMMA HandlerType ==
    ASSUME TypeOK, NEW p \in Peers, NEW m \in net, m.src = Other(p),
           \/ RecvAck(p, m) \/ RecvVnak(p, m) \/ RecvInOrder(p, m)
           \/ RecvAndReply(p, m) \/ RecvOutOfOrder(p, m)
    PROVE  TypeOK'
  <1> USE DEF vars, session, history
  <1>1. m \in Packet /\ m.iseqno \in SeqNo BY DEF TypeOK, Packet
  <1>2. Accepted(p) \in Nat /\ Accepted(p) + 1 \in Nat /\ iseqno[p] \in SeqNo
    BY Lengths DEF TypeOK
  <1>3. Byte(iseqno[p] + 1) \in SeqNo
    <2>1. iseqno[p] + 1 \in Int BY <1>2 DEF SeqNo
    <2> QED BY <2>1, ByteType
  <1>4. [iseqno EXCEPT ![p] = Byte(iseqno[p] + 1)] \in [Peers -> SeqNo]
    BY <1>3 DEF TypeOK
  <1>5. [delivered EXCEPT ![p] = Append(delivered[p], m.n)] \in [Peers -> Seq(Nat)]
    BY <1>1 DEF TypeOK, Packet
  <1>6. CASE RecvAck(p, m)
    <2>1. PICK ms \in Consume(m) : Xmit(ms, FinalAck(p, m)) BY <1>6 DEF RecvAck
    <2> QED BY <1>1, <1>6, <2>1, FinalAckType, ReceiveType DEF RecvAck, TypeOK
  <1>7. CASE RecvVnak(p, m)
    <2> DEFINE ps == {OnWire(p, f) : f \in Missing(p, m)} \cup FinalAck(p, m)
    <2>1. Missing(p, m) \in SUBSET Frame BY DEF Missing, TypeOK
    <2>2. ps \in SUBSET Packet BY <1>1, <2>1, FinalAckType, OnWireType
    <2>3. PICK ms \in Consume(m) : Xmit(ms, ps) BY <1>7 DEF RecvVnak
    <2> HIDE DEF ps
    <2> QED BY <1>7, <2>2, <2>3, ReceiveType DEF RecvVnak, TypeOK
  <1>8. CASE RecvInOrder(p, m)
    <2> DEFINE e == Byte(iseqno[p] + 1)
               ack == sent[m.src][m.n] \notin Quiet /\ aseqno[p] # e
               ps == IF ack
                     THEN {Immediate(p, "ack", m.iseqno, e, Accepted(p) + 1)}
                     ELSE {}
    <2>1. ps \in SUBSET Packet BY <1>1, <1>2, <1>3, ImmediateType
    <2>2. PICK ms \in Consume(m) : Xmit(ms, ps) BY <1>8 DEF RecvInOrder
    <2>3. aseqno' = [aseqno EXCEPT ![p] = IF ack THEN e ELSE @]
      BY <1>8 DEF RecvInOrder
    <2>4. aseqno' \in [Peers -> SeqNo] BY <1>3, <2>3 DEF TypeOK
    <2> HIDE DEF ps, ack, e
    <2> QED BY <1>4, <1>5, <1>8, <2>1, <2>2, <2>4, ReceiveType
            DEF RecvInOrder, TypeOK
  <1>9. CASE RecvAndReply(p, m)
    <2> DEFINE f == NewFrame(p, Byte(iseqno[p] + 1), Accepted(p) + 1)
    <2>1. f \in Frame BY <1>2, <1>3, NewFrameType
    <2>2. {OnWire(p, f)} \in SUBSET Packet BY <2>1, OnWireType
    <2>3. PICK ms \in Consume(m) : Xmit(ms, {OnWire(p, f)})
      BY <1>9 DEF RecvAndReply
    <2>4. PICK y \in Payloads : SendReliable(p, y, f) BY <1>9 DEF RecvAndReply
    <2>5. schedq' = [schedq EXCEPT ![p] = AfterAck(p, m) \cup {f}]
          /\ NoteAck(p, m) /\ UNCHANGED alive
          /\ iseqno' = [iseqno EXCEPT ![p] = Byte(iseqno[p] + 1)]
          /\ delivered' = [delivered EXCEPT ![p] = Append(@, m.n)]
      BY <1>9 DEF RecvAndReply
    <2> HIDE DEF f
    <2>6. oseqno' \in [Peers -> SeqNo] /\ aseqno' \in [Peers -> SeqNo]
          /\ sent' \in [Peers -> Seq(AllPayloads)]
      BY <2>1, <2>4, SendReliableType DEF AllPayloads
    <2>7. AfterAck(p, m) \cup {f} \in SUBSET Frame BY <1>1, <2>1, AfterAckType
    <2>8. schedq' \in [Peers -> SUBSET Frame] BY <2>5, <2>7 DEF TypeOK
    <2> QED BY <1>4, <1>5, <2>2, <2>3, <2>5, <2>6, <2>8, ReceiveType DEF TypeOK
  <1>10. CASE RecvOutOfOrder(p, m)
    <2> DEFINE seen == Dist(m.oseqno, iseqno[p]) < SeqMod \div 2
               kind == IF seen THEN "ack" ELSE "vnak"
               seqno == IF seen THEN m.iseqno ELSE iseqno[p]
               i == Immediate(p, kind, seqno, iseqno[p], Accepted(p))
    <2>1. {i} \in SUBSET Packet BY <1>1, <1>2, ImmediateType
    <2>2. PICK ms \in Consume(m) : Xmit(ms, {i}) BY <1>10 DEF RecvOutOfOrder
    <2> HIDE DEF i
    <2> QED BY <1>10, <2>1, <2>2, ReceiveType DEF RecvOutOfOrder, TypeOK
  <1> QED BY <1>6, <1>7, <1>8, <1>9, <1>10

\* No step of the transport breaks a type.
LEMMA TypeStep ==
    ASSUME TypeOK, [Next]_vars
    PROVE  TypeOK'
  <1>1. CASE Lose BY <1>1 DEF Lose, TypeOK, session, history
  <1>2. ASSUME NEW p \in Peers, AppSend(p) \/ SendPing(p)
        PROVE  TypeOK'
    <2>1. \E x \in AllPayloads : Send(p, x)
      BY <1>2 DEF AppSend, SendPing, AllPayloads
    <2> QED BY <2>1, SendType
  <1>3. ASSUME NEW p \in Peers, AppHangup(p)
        PROVE  TypeOK'
    <2>1. schedq[p] \in SUBSET Frame BY DEF TypeOK
    <2> QED BY <1>3, <2>1, SendFinalType DEF AppHangup
  <1>4. ASSUME NEW p \in Peers,
               \/ Reap(p) \/ Retransmit(p) \/ Timeout(p)
               \/ TimeoutUnheard(p) \/ EndFinal(p)
        PROVE  TypeOK'
    BY <1>4, TimerType
  <1>5. ASSUME NEW p \in Peers, Receive(p)
        PROVE  TypeOK'
    BY <1>5, HandlerType DEF Receive
  <1>6. ASSUME NEW p \in Peers, Disconnect(p)
        PROVE  TypeOK'
    <2>1. Cancel(schedq[p]) \in SUBSET Frame BY CancelType DEF TypeOK
    <2>2. schedq' \in [Peers -> SUBSET Frame]
      BY <1>6, <2>1 DEF Disconnect, TypeOK
    <2>3. UNCHANGED <<oseqno, rseqno, iseqno, aseqno, net, sent, delivered, acked>>
          /\ alive' = [alive EXCEPT ![p] = FALSE]
      BY <1>6 DEF Disconnect, history
    <2> QED BY <2>2, <2>3 DEF TypeOK
  <1>7. CASE UNCHANGED vars BY <1>7 DEF vars, session, history, TypeOK
  <1> QED BY <1>1, <1>2, <1>3, <1>4, <1>5, <1>6, <1>7 DEF Next

\* The initial state is well typed.
LEMMA TypeInit ==
    ASSUME Init
    PROVE  TypeOK
  <1>1. 0 \in SeqNo BY NumbersAssumption DEF SeqNo
  <1> QED BY <1>1 DEF Init, TypeOK

\* Every variable of the transport keeps its type: in particular the counters of
\* iax_session stay within an unsigned char and retries between -1 and maxretries.
THEOREM TypeCorrect == Spec => []TypeOK
  BY TypeInit, TypeStep, PTL DEF Spec

-----------------------------------------------------------------------------
(* Sequence numbers.  A frame keeps its numbers while its retries change. *)

Same(f, g) ==
    /\ f.n = g.n /\ f.a = g.a
    /\ f.oseqno = g.oseqno /\ f.iseqno = g.iseqno

\* A frame that agrees with the history still does after any step: it is only
\* when its number or its acknowledgement could become ambiguous that its
\* session, or the other one, does not number another frame.
LEMMA Survive ==
    ASSUME TypeOK, TypeOK', SeqNosAgree, NEW p \in Peers,
           \A r \in Peers : Accepted(r) <= Accepted(r)',
           \A r \in Peers : r # p => Sent(r)' = Sent(r),
           \/ Sent(p)' = Sent(p)
           \/ Sent(p)' = Sent(p) + 1 /\ \E limit \in Nat : Fresh(p, limit)
    PROVE  /\ \A r \in Peers : \A f \in schedq[r] :
                 AckAgrees(r, f)' /\ NumberAgrees(r, f)'
           /\ \A m \in net : AckAgrees(m.src, m)'
                             /\ (m.type = "data" => NumberAgrees(m.src, m)')
  <1> DEFINE q == Other(p)
  <1>a. /\ q \in Peers /\ q # p /\ Other(q) = p
        /\ \A r \in Peers : r = p \/ r = q
    BY OtherPeer
  <1>b. /\ \A r \in Peers : Sent(r) \in Nat /\ Accepted(r) \in Nat
        /\ \A r \in Peers : Sent(r)' \in Nat /\ Accepted(r)' \in Nat
        /\ SeqMod \in Nat
    BY Lengths, LengthsNext
  <1>c. Sent(q)' = Sent(q) BY <1>a
  <1>1. ASSUME NEW r \in Peers, NEW f \in schedq[r]
        PROVE  AckAgrees(r, f)' /\ NumberAgrees(r, f)'
    <2>1. AckAgrees(r, f) /\ NumberAgrees(r, f)
      BY DEF SeqNosAgree, FramesAgree
    <2>2. f.n \in Nat /\ f.a \in Nat BY DEF TypeOK, Frame
    <2>3. CASE r = p
      BY <2>1, <2>2, <2>3, <1>a, <1>b, <1>c DEF AckAgrees, NumberAgrees, Fresh
    <2>4. CASE r = Other(p)
      BY <2>1, <2>2, <2>4, <1>a, <1>b, <1>c DEF AckAgrees, NumberAgrees, Fresh
    <2> QED BY <2>3, <2>4, OtherPeer
  <1>2. ASSUME NEW m \in net
        PROVE  AckAgrees(m.src, m)' /\ (m.type = "data" => NumberAgrees(m.src, m)')
    <2>1. AckAgrees(m.src, m) /\ (m.type = "data" => NumberAgrees(m.src, m))
      BY DEF SeqNosAgree, PacketsAgree
    <2>2. m.n \in Nat /\ m.a \in Nat /\ m.src \in Peers BY DEF TypeOK, Packet
    <2>3. CASE m.src = p
      BY <2>1, <2>2, <2>3, <1>a, <1>b, <1>c DEF AckAgrees, NumberAgrees, Fresh
    <2>4. CASE m.src = Other(p)
      BY <2>1, <2>2, <2>4, <1>a, <1>b, <1>c DEF AckAgrees, NumberAgrees, Fresh
    <2> QED BY <2>2, <2>3, <2>4, OtherPeer
  <1> QED BY <1>1, <1>2

\* Numbers are all that agreement is about.
LEMMA SameAgrees ==
    ASSUME NEW p \in Peers, NEW f, NEW g, Same(f, g)
    PROVE  /\ AckAgrees(p, g)' => AckAgrees(p, f)'
           /\ NumberAgrees(p, g)' => NumberAgrees(p, f)'
  BY DEF Same, AckAgrees, NumberAgrees

\* What the wire carries for a queued frame has the frame's numbers.
LEMMA OnWireSame ==
    ASSUME NEW p \in Peers, NEW f
    PROVE  Same(OnWire(p, f), f) /\ OnWire(p, f).src = p
           /\ OnWire(p, f).type = "data"
  BY DEF OnWire, Same

\* Marking frames as sent does not renumber them.
LEMMA CancelSame ==
    ASSUME NEW F \in SUBSET Frame, NEW f \in Cancel(F)
    PROVE  \E g \in F : Same(f, g)
  BY DEF Cancel, Same, Frame

\* Neither does an acknowledgement.
LEMMA AfterAckSame ==
    ASSUME TypeOK, NEW p \in Peers, NEW m \in Packet, NEW f \in AfterAck(p, m)
    PROVE  \E g \in schedq[p] : Same(f, g)
  <1>1. AckedFrames(p, m) \in SUBSET schedq[p] /\ schedq[p] \in SUBSET Frame
    BY AfterAckType DEF TypeOK
  <1>2. CASE f \in schedq[p] BY <1>2 DEF Same
  <1>3. CASE f \in Cancel(AckedFrames(p, m))
    <2>1. AckedFrames(p, m) \in SUBSET Frame BY <1>1
    <2>2. \E g \in AckedFrames(p, m) : Same(f, g) BY <1>3, <2>1, CancelSame
    <2> QED BY <1>1, <2>2
  <1> QED BY <1>2, <1>3 DEF AfterAck

\* It leaves a frame with every number there was.
LEMMA AfterAckKeepsNumbers ==
    ASSUME NEW p \in Peers, NEW m, schedq[p] \in SUBSET Frame
    PROVE  \A f \in schedq[p] : \E g \in AfterAck(p, m) : g.n = f.n
  <1> SUFFICES ASSUME NEW f \in schedq[p]
               PROVE  \E g \in AfterAck(p, m) : g.n = f.n
    OBVIOUS
  <1>1. CASE f \in AckedFrames(p, m)
    <2>1. [f EXCEPT !.retries = -1] \in AfterAck(p, m) BY <1>1 DEF AfterAck, Cancel
    <2>2. [f EXCEPT !.retries = -1].n = f.n BY DEF Frame
    <2> QED BY <2>1, <2>2
  <1>2. CASE f \notin AckedFrames(p, m) BY <1>2 DEF AfterAck
  <1> QED BY <1>1, <1>2

\* A frame or a packet built now acknowledges exactly what was accepted.
LEMMA NewAckAgrees ==
    ASSUME TypeOK, TypeOK', SeqNosAgree, NEW p \in Peers, NEW f,
           f.a = Accepted(p)', f.iseqno = Byte(f.a),
           Accepted(p) <= Accepted(p)',
           Sent(Other(p))' = Sent(Other(p))
    PROVE  AckAgrees(p, f)'
  <1>1. /\ acked[Other(p)] <= Accepted(p)
        /\ Sent(Other(p)) - acked[Other(p)] < SeqMod
    BY OtherPeer DEF SeqNosAgree, CountersAgree
  <1>2. acked[Other(p)] \in Nat /\ Sent(Other(p)) \in Nat
        /\ Accepted(p) \in Nat /\ SeqMod \in Nat
    BY OtherPeer, Lengths
  <1>3. Accepted(p)' \in Nat BY LengthsNext
  <1> QED BY <1>1, <1>2, <1>3 DEF AckAgrees

\* A frame sent now carries the number that comes next.
LEMMA NewNumberAgrees ==
    ASSUME TypeOK, SeqNosAgree, NEW p \in Peers, NEW e, NEW g,
           NEW f, f = NewFrame(p, e, g), Sent(p)' = Sent(p) + 1
    PROVE  NumberAgrees(p, f)'
  <1>1. f.n = Sent(p) + 1 /\ f.oseqno = oseqno[p] BY DEF NewFrame
  <1>2. oseqno[p] = Byte(Sent(p)) BY DEF SeqNosAgree, CountersAgree
  <1>3. Sent(p) \in Nat /\ SeqMod \in Nat /\ 0 < SeqMod - 1 BY Lengths
  <1>4. f.n - 1 = Sent(p) BY <1>1, <1>3
  <1>5. f.oseqno = Byte(f.n - 1) BY <1>1, <1>2, <1>4
  <1> QED BY <1>1, <1>3, <1>5 DEF NumberAgrees

\* The frame numbers and the acknowledgement a peer's datagram carries, as
\* numbers: neither is more than a turn behind.
LEMMA PacketBounds ==
    ASSUME TypeOK, SeqNosAgree, NEW p \in Peers, NEW m \in net, m.src = Other(p)
    PROVE  /\ m.a \in Nat /\ m.a <= Accepted(Other(p)) /\ m.iseqno = Byte(m.a)
           /\ Sent(p) - m.a < SeqMod
           /\ m.type = "data" =>
                 /\ m.n \in Nat /\ 1 <= m.n /\ m.n <= Sent(Other(p))
                 /\ m.oseqno = Byte(m.n - 1)
                 /\ Sent(Other(p)) - m.n < SeqMod - 1
  <1>1. m \in Packet BY DEF TypeOK
  <1>2. AckAgrees(Other(p), m) /\ (m.type = "data" => NumberAgrees(Other(p), m))
    BY DEF SeqNosAgree, PacketsAgree
  <1>3. Other(Other(p)) = p /\ Sent(Other(p)) \in Nat BY OtherPeer, Lengths
  <1> QED BY <1>1, <1>2, <1>3 DEF Packet, AckAgrees, NumberAgrees

\* What NoteAck does to rseqno is what the acknowledgement means: it moves to the
\* number acknowledged, and an acknowledgement from the past is ignored.
LEMMA AckMeaning ==
    ASSUME TypeOK, TypeOK', SeqNosAgree, NEW p \in Peers, NEW m \in net,
           m.src = Other(p), NoteAck(p, m)
    PROVE  /\ acked' = [acked EXCEPT ![p] = IF acked[p] <= m.a THEN m.a ELSE @]
           /\ acked[p] <= acked'[p] /\ acked'[p] <= Accepted(Other(p))
           /\ rseqno' = [rseqno EXCEPT ![p] = Byte(acked'[p])]
           /\ InWindow(p, m) <=> acked[p] <= m.a
           /\ InWindow(p, m) =>
                 Dist(rseqno[p], m.iseqno) = m.a - acked[p]
  <1>1. /\ acked[p] <= Accepted(Other(p)) /\ Accepted(Other(p)) <= Sent(p)
        /\ Sent(p) - acked[p] < SeqMod
        /\ rseqno[p] = Byte(acked[p]) /\ oseqno[p] = Byte(Sent(p))
    BY DEF SeqNosAgree, CountersAgree
  <1>2. /\ acked[p] \in Nat /\ Sent(p) \in Nat /\ Accepted(Other(p)) \in Nat
        /\ SeqMod \in Nat
    BY Lengths, OtherPeer
  <1>3. /\ m.a \in Nat /\ m.a <= Accepted(Other(p)) /\ m.iseqno = Byte(m.a)
        /\ Sent(p) - m.a < SeqMod
    BY PacketBounds
  <1>4. Dist(rseqno[p], oseqno[p]) = Sent(p) - acked[p]
    BY <1>1, <1>2, DistBytes
  <1>5. acked[p] <= m.a => Dist(rseqno[p], m.iseqno) = m.a - acked[p]
    BY <1>1, <1>2, <1>3, DistBytes
  <1>6. m.a < acked[p] => Dist(rseqno[p], m.iseqno) = m.a - acked[p] + SeqMod
    BY <1>1, <1>2, <1>3, DistBytes
  <1>7. InWindow(p, m) <=> acked[p] <= m.a
    BY <1>1, <1>2, <1>3, <1>4, <1>5, <1>6 DEF InWindow
  <1>8. acked \in [Peers -> Nat] /\ rseqno \in [Peers -> SeqNo] BY DEF TypeOK
  <1>9. acked' = [acked EXCEPT ![p] = IF acked[p] <= m.a THEN m.a ELSE @]
    <2>1. acked[p] <= m.a => acked[p] + Dist(rseqno[p], m.iseqno) = m.a
      BY <1>2, <1>3, <1>5
    <2>2. (IF InWindow(p, m) THEN acked[p] + Dist(rseqno[p], m.iseqno)
                             ELSE acked[p])
          = IF acked[p] <= m.a THEN m.a ELSE acked[p]
      BY <1>7, <2>1
    <2> QED BY <1>8, <2>2 DEF NoteAck
  <1>10. acked'[p] = IF acked[p] <= m.a THEN m.a ELSE acked[p] BY <1>8, <1>9
  <1>11. rseqno' = [rseqno EXCEPT ![p] = Byte(acked'[p])]
    BY <1>1, <1>3, <1>7, <1>8, <1>10 DEF NoteAck
  <1>12. acked[p] <= acked'[p] /\ acked'[p] <= Accepted(Other(p))
    BY <1>1, <1>2, <1>3, <1>10
  <1> QED BY <1>5, <1>7, <1>9, <1>11, <1>12

\* An acknowledgement cancels no frame the peer has not accepted.
LEMMA AckKeeps ==
    ASSUME TypeOK, TypeOK', SeqNosAgree, NEW p \in Peers, NEW m \in net,
           m.src = Other(p), NoteAck(p, m), NEW f \in schedq[p], acked'[p] < f.n
    PROVE  f \in AfterAck(p, m)
  <1>1. /\ acked[p] \in Nat /\ Sent(p) \in Nat /\ SeqMod \in Nat /\ acked'[p] \in Nat
    BY Lengths, LengthsNext
  <1>2. /\ f.n \in Nat /\ f.n <= Sent(p) /\ f.oseqno = Byte(f.n - 1)
    <2>1. f \in Frame BY DEF TypeOK
    <2>2. NumberAgrees(p, f) BY DEF SeqNosAgree, FramesAgree
    <2> QED BY <1>1, <2>1, <2>2 DEF Frame, NumberAgrees
  <1>3. /\ Sent(p) - acked[p] < SeqMod /\ rseqno[p] = Byte(acked[p])
    BY DEF SeqNosAgree, CountersAgree
  <1>4. acked[p] <= acked'[p] BY AckMeaning
  <1>5. Dist(rseqno[p], f.oseqno) = f.n - 1 - acked[p]
    <2>1. f.n - 1 \in Int /\ acked[p] <= f.n - 1 /\ f.n - 1 - acked[p] < SeqMod
      BY <1>1, <1>2, <1>3, <1>4
    <2> QED BY <1>1, <1>2, <1>3, <2>1, DistBytes
  <1>6. InWindow(p, m) => Dist(rseqno[p], m.iseqno) = acked'[p] - acked[p]
    <2>1. m.a \in Nat BY PacketBounds
    <2>2. acked'[p] = IF acked[p] <= m.a THEN m.a ELSE acked[p]
      BY AckMeaning DEF TypeOK
    <2> QED BY <2>2, AckMeaning
  <1>7. f \notin AckedFrames(p, m)
    BY <1>1, <1>2, <1>4, <1>5, <1>6 DEF AckedFrames
  <1> QED BY <1>7 DEF AfterAck

\* A frame taken for the next one in order is the next one.
LEMMA AcceptMeaning ==
    ASSUME TypeOK, SeqNosAgree, NEW p \in Peers, NEW m \in net,
           m.src = Other(p), m.type = "data", m.oseqno = iseqno[p]
    PROVE  m.n = Accepted(p) + 1 /\ Accepted(p) + 1 <= Sent(Other(p))
  <1> DEFINE q == Other(p)
  <1>1. q \in Peers /\ Other(q) = p BY OtherPeer
  <1>2. /\ acked[q] <= Accepted(p) /\ Accepted(p) <= Sent(q)
        /\ Sent(q) - acked[q] < SeqMod
    BY <1>1 DEF SeqNosAgree, CountersAgree
  <1>3. iseqno[p] = Byte(Accepted(p)) BY DEF SeqNosAgree, CountersAgree
  <1>4. /\ acked[q] \in Nat /\ Accepted(p) \in Nat /\ Sent(q) \in Nat /\ SeqMod \in Nat
    BY <1>1, Lengths
  <1>5. /\ m.n \in Nat /\ 1 <= m.n /\ m.n <= Sent(q)
        /\ m.oseqno = Byte(m.n - 1) /\ Sent(q) - m.n < SeqMod - 1
    BY PacketBounds
  <1> HIDE DEF q
  <1>6. m.n - 1 - Accepted(p) < SeqMod /\ Accepted(p) - (m.n - 1) < SeqMod
        /\ m.n - 1 \in Int /\ Accepted(p) \in Int
    BY <1>2, <1>4, <1>5
  <1>7. m.n - 1 = Accepted(p) BY <1>3, <1>5, <1>6, ByteEqual
  <1>8. m.n = Accepted(p) + 1 /\ Accepted(p) + 1 <= Sent(q) BY <1>4, <1>5, <1>7
  <1> QED BY <1>8 DEF q

\* Where the frames and packets of the next state come from: they were there, are
\* copies of a queued frame, a new frame, or an ACK or VNAK.
LEMMA StepAgrees ==
    ASSUME TypeOK, TypeOK', SeqNosAgree, NEW p \in Peers, NEW new,
           \A r \in Peers : Accepted(r) <= Accepted(r)',
           \A r \in Peers : r # p => Sent(r)' = Sent(r),
           \/ Sent(p)' = Sent(p)
           \/ Sent(p)' = Sent(p) + 1 /\ \E limit \in Nat : Fresh(p, limit),
           \A g \in new : AckAgrees(p, g)' /\ NumberAgrees(p, g)',
           \A r \in Peers : \A f \in schedq'[r] :
              \/ \E g \in schedq[r] : Same(f, g)
              \/ r = p /\ \E g \in new : Same(f, g),
           \A m \in net' :
              \/ m \in net
              \/ m.src = p /\ \E g \in schedq[p] : Same(m, g)
              \/ m.src = p /\ \E g \in new : Same(m, g)
              \/ m.src = p /\ m.type # "data" /\ AckAgrees(p, m)'
    PROVE  FramesAgree' /\ PacketsAgree'
  <1>1. /\ \A r \in Peers : \A f \in schedq[r] :
              AckAgrees(r, f)' /\ NumberAgrees(r, f)'
        /\ \A m \in net : AckAgrees(m.src, m)'
                          /\ (m.type = "data" => NumberAgrees(m.src, m)')
    BY Survive
  <1>2. ASSUME NEW r \in Peers, NEW f \in schedq'[r]
        PROVE  AckAgrees(r, f)' /\ NumberAgrees(r, f)'
    <2>1. CASE \E g \in schedq[r] : Same(f, g)
      <3>1. PICK g \in schedq[r] : Same(f, g) BY <2>1
      <3> QED BY <1>1, <3>1, SameAgrees
    <2>2. CASE r = p /\ \E g \in new : Same(f, g)
      <3>1. PICK g \in new : Same(f, g) BY <2>2
      <3> QED BY <2>2, <3>1, SameAgrees
    <2> QED BY <2>1, <2>2
  <1>3. ASSUME NEW m \in net'
        PROVE  AckAgrees(m.src, m)' /\ (m.type = "data" => NumberAgrees(m.src, m)')
    <2>1. CASE m \in net BY <1>1, <2>1
    <2>2. CASE m.src = p /\ \E g \in schedq[p] : Same(m, g)
      <3>1. PICK g \in schedq[p] : Same(m, g) BY <2>2
      <3>2. AckAgrees(p, m)' /\ NumberAgrees(p, m)' BY <1>1, <3>1, SameAgrees
      <3> QED BY <2>2, <3>2
    <2>3. CASE m.src = p /\ \E g \in new : Same(m, g)
      <3>1. PICK g \in new : Same(m, g) BY <2>3
      <3>2. AckAgrees(p, m)' /\ NumberAgrees(p, m)' BY <3>1, SameAgrees
      <3> QED BY <2>3, <3>2
    <2>4. CASE m.src = p /\ m.type # "data" /\ AckAgrees(p, m)' BY <2>4
    <2> QED BY <2>1, <2>2, <2>3, <2>4
  <1> QED BY <1>2, <1>3 DEF FramesAgree, PacketsAgree

\* The numbers after p sends a frame.
LEMMA SendCounts ==
    ASSUME TypeOK, NEW p \in Peers, NEW x, NEW f, SendReliable(p, x, f)
    PROVE  /\ Sent(p)' = Sent(p) + 1
           /\ \A r \in Peers : r # p => Sent(r)' = Sent(r) /\ oseqno'[r] = oseqno[r]
           /\ oseqno'[p] = Byte(oseqno[p] + 1)
  BY DEF TypeOK, SendReliable, Sent

\* What the window leaves of the counters after p sends a frame.
LEMMA SendCounters ==
    ASSUME TypeOK, TypeOK', SeqNosAgree, NEW p \in Peers, NEW x, NEW f,
           SendReliable(p, x, f),
           Fresh(p, Window) \/ Fresh(p, Window + 1)
    PROVE  /\ oseqno'[p] = Byte(Sent(p)')
           /\ Sent(p)' - acked[p] < SeqMod
  <1>1. Sent(p)' = Sent(p) + 1 /\ oseqno'[p] = Byte(oseqno[p] + 1) BY SendCounts
  <1>2. oseqno[p] = Byte(Sent(p)) BY DEF SeqNosAgree, CountersAgree
  <1>3. Sent(p) \in Nat /\ acked[p] \in Nat /\ SeqMod \in Nat /\ Window \in Nat
        /\ Window + 1 < SeqMod
    BY Lengths
  <1>4. Byte(Byte(Sent(p)) + 1) = Byte(Sent(p) + 1) BY <1>3, ByteSucc
  <1>5. Sent(p) + 1 - acked[p] <= Window + 1 BY <1>3 DEF Fresh
  <1> QED BY <1>1, <1>2, <1>3, <1>4, <1>5

\* A new frame agrees with the history.
LEMMA NewFrameAgrees ==
    ASSUME TypeOK, TypeOK', SeqNosAgree, NEW p \in Peers, NEW x, NEW e, NEW g,
           NEW f, f = NewFrame(p, e, g), SendReliable(p, x, f),
           g = Accepted(p)', e = Byte(g), Accepted(p) <= Accepted(p)'
    PROVE  AckAgrees(p, f)' /\ NumberAgrees(p, f)'
  <1>1. f.a = g /\ f.iseqno = e BY DEF NewFrame
  <1>2. Sent(p)' = Sent(p) + 1 /\ Sent(Other(p))' = Sent(Other(p))
    BY SendCounts, OtherPeer
  <1>3. AckAgrees(p, f)' BY <1>1, <1>2, NewAckAgrees
  <1>4. NumberAgrees(p, f)' BY <1>2, NewNumberAgrees
  <1> QED BY <1>3, <1>4

\* A session whose final frame waits is closing until that frame is taken out.
LEMMA ClosingStays ==
    ASSUME TypeOK, TypeOK', SeqNosAgree, NEW r \in Peers,
           \/ sent'[r] = sent[r]
           \/ \E x : sent'[r] = Append(sent[r], x),
           NEW f \in schedq[r], IsFinal(r, f),
           \E g \in schedq'[r] : g.n = f.n
    PROVE  Closing(r)'
  <1>1. f.n \in 1 .. Len(sent[r])
    BY DEF SeqNosAgree, FramesAgree, NumberAgrees, Sent
  <1>2. sent[r] \in Seq(AllPayloads) BY DEF TypeOK
  <1>3. sent'[r][f.n] = sent[r][f.n] BY <1>1, <1>2
  <1>4. sent[r][f.n] = Hangup BY DEF IsFinal
  <1>5. PICK g \in schedq'[r] : g.n = f.n OBVIOUS
  <1> QED BY <1>3, <1>4, <1>5 DEF Closing, IsFinal

\* send_command keeps every number in agreement.
LEMMA SendAgrees ==
    ASSUME TypeOK, TypeOK', SeqNosAgree, NEW p \in Peers, NEW x, Send(p, x)
    PROVE  SeqNosAgree'
  <1>1. PICK f : /\ f = NewFrame(p, iseqno[p], Accepted(p))
                 /\ SendReliable(p, x, f)
                 /\ schedq' = [schedq EXCEPT ![p] = @ \cup {f}]
                 /\ Xmit(net, {OnWire(p, f)})
                 /\ UNCHANGED <<rseqno, iseqno, alive, delivered, acked>>
                 /\ Fresh(p, Window)
    BY DEF Send
  <1>2. \A r \in Peers : Accepted(r)' = Accepted(r) BY <1>1 DEF Accepted
  <1>3. iseqno[p] = Byte(Accepted(p)) BY DEF SeqNosAgree, CountersAgree
  <1>4. AckAgrees(p, f)' /\ NumberAgrees(p, f)'
    BY <1>1, <1>2, <1>3, Lengths, NewFrameAgrees
  <1>5. /\ Sent(p)' = Sent(p) + 1
        /\ \A r \in Peers : r # p => Sent(r)' = Sent(r) /\ oseqno'[r] = oseqno[r]
        /\ oseqno'[p] = Byte(Sent(p)') /\ Sent(p)' - acked[p] < SeqMod
    BY <1>1, SendCounts, SendCounters
  <1>6. schedq'[p] = schedq[p] \cup {f}
        /\ \A r \in Peers : r # p => schedq'[r] = schedq[r]
    BY <1>1 DEF TypeOK
  <1>7. FramesAgree' /\ PacketsAgree'
    <2>1. \A r \in Peers : \A g \in schedq'[r] :
             \/ \E h \in schedq[r] : Same(g, h)
             \/ r = p /\ \E h \in {f} : Same(g, h)
      BY <1>6 DEF Same
    <2>2. \A m \in net' :
             \/ m \in net
             \/ m.src = p /\ \E h \in {f} : Same(m, h)
      <3>1. net' \subseteq net \cup {OnWire(p, f)} BY <1>1, XmitSub
      <3>2. Same(OnWire(p, f), f) /\ OnWire(p, f).src = p BY OnWireSame
      <3>3. \A m \in net' : m \in net \/ m = OnWire(p, f) BY <3>1
      <3> QED BY <3>2, <3>3
    <2>3. Window \in Nat /\ \A r \in Peers : Accepted(r) <= Accepted(r)'
      BY <1>2, Lengths
    <2>4. \A g \in {f} : AckAgrees(p, g)' /\ NumberAgrees(p, g)' BY <1>4
    <2>5. Sent(p)' = Sent(p) + 1 /\ \E limit \in Nat : Fresh(p, limit)
          /\ \A r \in Peers : r # p => Sent(r)' = Sent(r)
      BY <1>1, <1>5, <2>3
    <2> QED BY <2>1, <2>2, <2>3, <2>4, <2>5, StepAgrees
  <1>8. CountersAgree'
    <2> SUFFICES ASSUME NEW r \in Peers
                 PROVE  /\ acked'[r] <= Accepted(Other(r))'
                        /\ Accepted(Other(r))' <= Sent(r)'
                        /\ Sent(r)' - acked'[r] < SeqMod
                        /\ rseqno'[r] = Byte(acked'[r])
                        /\ oseqno'[r] = Byte(Sent(r)')
                        /\ iseqno'[r] = Byte(Accepted(r)')
      BY DEF CountersAgree
    <2>1. Other(r) \in Peers BY OtherPeer
    <2> QED BY <1>1, <1>2, <1>5, <2>1, Lengths DEF SeqNosAgree, CountersAgree
  <1>9. Pending'
    <2> SUFFICES ASSUME NEW r \in Peers, alive'[r], ~Closing(r)',
                        NEW n \in acked'[r] + 1 .. Sent(r)'
                 PROVE  \E g \in schedq'[r] : g.n = n /\ g.retries >= 0
      BY DEF Pending
    <2>1. CASE r = p /\ n = Sent(p) + 1
      <3>1. f.n = n /\ f.retries = MaxRetries BY <1>1, <2>1 DEF NewFrame
      <3> QED BY <1>6, <2>1, <3>1, NumbersAssumption
    <2>2. CASE n \in acked[r] + 1 .. Sent(r)
      <3>1. \/ sent'[r] = sent[r]
            \/ \E y : sent'[r] = Append(sent[r], y)
        BY <1>1 DEF SendReliable, TypeOK
      <3>2. \A g \in schedq[r] : g \in schedq'[r] BY <1>6
      <3>3. ~Closing(r) BY <3>1, <3>2, ClosingStays DEF Closing
      <3>4. \E g \in schedq[r] : g.n = n /\ g.retries >= 0
        BY <1>1, <2>2, <3>3 DEF SeqNosAgree, Pending
      <3> QED BY <1>6, <3>4
    <2>3. acked[r] \in Nat /\ Sent(r) \in Nat /\ acked'[r] = acked[r]
      BY <1>1, Lengths
    <2> QED BY <1>5, <2>1, <2>2, <2>3
  <1>10. InOrder'
    <2>1. \A r \in Peers : Sent(r) <= Sent(r)' BY <1>5, Lengths
    <2> QED BY <1>1, <1>2, <2>1, OtherPeer, Lengths, LengthsNext
         DEF SeqNosAgree, InOrder
  <1> QED BY <1>7, <1>8, <1>9, <1>10 DEF SeqNosAgree

\* send_command_final keeps every number in agreement.
LEMMA SendFinalAgrees ==
    ASSUME TypeOK, TypeOK', SeqNosAgree, NEW p \in Peers,
           NEW F \in SUBSET schedq[p], SendFinal(p, F)
    PROVE  SeqNosAgree'
  <1>1. PICK f : /\ f = NewFrame(p, iseqno[p], Accepted(p))
                 /\ SendReliable(p, Hangup, f)
                 /\ \/ /\ schedq' = [schedq EXCEPT ![p] = Cancel(F \cup {f})]
                       /\ alive' = [alive EXCEPT ![p] = FALSE]
                       /\ Xmit(net, {OnWire(p, f)})
                    \/ /\ schedq' = [schedq EXCEPT ![p] = F \cup {f}]
                       /\ UNCHANGED <<alive, net>>
                 /\ UNCHANGED <<rseqno, iseqno, delivered, acked>>
                 /\ Fresh(p, Window + 1)
    BY DEF SendFinal
  <1>2. \A r \in Peers : Accepted(r)' = Accepted(r) BY <1>1 DEF Accepted
  <1>3. iseqno[p] = Byte(Accepted(p)) BY DEF SeqNosAgree, CountersAgree
  <1>4. AckAgrees(p, f)' /\ NumberAgrees(p, f)'
    BY <1>1, <1>2, <1>3, Lengths, NewFrameAgrees
  <1>5. /\ Sent(p)' = Sent(p) + 1
        /\ \A r \in Peers : r # p => Sent(r)' = Sent(r) /\ oseqno'[r] = oseqno[r]
        /\ oseqno'[p] = Byte(Sent(p)') /\ Sent(p)' - acked[p] < SeqMod
    BY <1>1, SendCounts, SendCounters
  <1>6. /\ \/ schedq'[p] = Cancel(F \cup {f}) /\ ~alive'[p]
           \/ schedq'[p] = F \cup {f}
        /\ \A r \in Peers : r # p => schedq'[r] = schedq[r] /\ alive'[r] = alive[r]
    BY <1>1 DEF TypeOK
  <1>7. FramesAgree' /\ PacketsAgree'
    <2>1. F \cup {f} \in SUBSET Frame
      BY <1>1, NewFrameType, Lengths DEF TypeOK
    <2>2. \A g \in schedq'[p] : \/ \E h \in schedq[p] : Same(g, h)
                                \/ \E h \in {f} : Same(g, h)
      BY <1>6, <2>1, CancelSame DEF Same
    <2>3. \A r \in Peers : \A g \in schedq'[r] :
             \/ \E h \in schedq[r] : Same(g, h)
             \/ r = p /\ \E h \in {f} : Same(g, h)
      BY <1>6, <2>2 DEF Same
    <2>4. net' \subseteq net \cup {OnWire(p, f)} BY <1>1, XmitSub
    <2>5. \A m \in net' : m \in net \/ m = OnWire(p, f) BY <2>4
    <2>6. \A m \in net' :
             \/ m \in net
             \/ m.src = p /\ \E h \in {f} : Same(m, h)
      BY <2>5, OnWireSame
    <2>7. Window + 1 \in Nat /\ \A r \in Peers : Accepted(r) <= Accepted(r)'
      BY <1>2, Lengths
    <2>8. \A g \in {f} : AckAgrees(p, g)' /\ NumberAgrees(p, g)' BY <1>4
    <2>9. Sent(p)' = Sent(p) + 1 /\ \E limit \in Nat : Fresh(p, limit)
          /\ \A r \in Peers : r # p => Sent(r)' = Sent(r)
      BY <1>1, <1>5, <2>7
    <2>10. \A m \in net' :
             \/ m \in net
             \/ m.src = p /\ \E h \in schedq[p] : Same(m, h)
             \/ m.src = p /\ \E h \in {f} : Same(m, h)
             \/ m.src = p /\ m.type # "data" /\ AckAgrees(p, m)'
      BY <2>6
    <2> QED BY <2>3, <2>7, <2>8, <2>9, <2>10, StepAgrees
  <1>8. CountersAgree'
    <2> SUFFICES ASSUME NEW r \in Peers
                 PROVE  /\ acked'[r] <= Accepted(Other(r))'
                        /\ Accepted(Other(r))' <= Sent(r)'
                        /\ Sent(r)' - acked'[r] < SeqMod
                        /\ rseqno'[r] = Byte(acked'[r])
                        /\ oseqno'[r] = Byte(Sent(r)')
                        /\ iseqno'[r] = Byte(Accepted(r)')
      BY DEF CountersAgree
    <2>1. Other(r) \in Peers BY OtherPeer
    <2> QED BY <1>1, <1>2, <1>5, <2>1, Lengths DEF SeqNosAgree, CountersAgree
  <1>9. Pending'
    <2> SUFFICES ASSUME NEW r \in Peers, alive'[r], ~Closing(r)',
                        NEW n \in acked'[r] + 1 .. Sent(r)'
                 PROVE  \E g \in schedq'[r] : g.n = n /\ g.retries >= 0
      BY DEF Pending
    <2>1. r # p
      <3> SUFFICES ASSUME r = p PROVE FALSE
        OBVIOUS
      <3>1. f \in schedq'[p] BY <1>6
      <3>2. sent'[p] = Append(sent[p], Hangup) /\ sent[p] \in Seq(AllPayloads)
        BY <1>1 DEF SendReliable, TypeOK
      <3>3. f.n = Len(sent[p]) + 1 BY <1>1 DEF NewFrame, Sent
      <3>4. sent'[p][f.n] = Hangup BY <3>2, <3>3
      <3> QED BY <3>1, <3>4 DEF Closing, IsFinal
    <2>2. schedq'[r] = schedq[r] /\ alive[r] BY <1>6, <2>1
    <2>3. sent'[r] = sent[r] BY <1>1, <2>1 DEF SendReliable, TypeOK
    <2>4. ~Closing(r) BY <2>2, <2>3 DEF Closing, IsFinal
    <2> QED BY <1>1, <1>5, <2>1, <2>2, <2>4 DEF SeqNosAgree, Pending
  <1>10. InOrder'
    <2>1. \A r \in Peers : Sent(r) <= Sent(r)' BY <1>5, Lengths
    <2> QED BY <1>1, <1>2, <2>1, OtherPeer, Lengths, LengthsNext
         DEF SeqNosAgree, InOrder
  <1> QED BY <1>7, <1>8, <1>9, <1>10 DEF SeqNosAgree

\* Steps that neither number, accept nor acknowledge a frame.
LEMMA QuietAgrees ==
    ASSUME TypeOK, TypeOK', SeqNosAgree, NEW p \in Peers,
           UNCHANGED <<oseqno, rseqno, iseqno, sent, delivered, acked>>,
           \A r \in Peers : \A f \in schedq'[r] : \E g \in schedq[r] : Same(f, g),
           \A m \in net' : \/ m \in net
                           \/ m.src = p /\ \E g \in schedq[p] : Same(m, g),
           \A r \in Peers : alive'[r] /\ ~Closing(r)' =>
              alive[r] /\ ~Closing(r) /\ \A f \in schedq[r] : f.retries >= 0 =>
                 \E g \in schedq'[r] : g.n = f.n /\ g.retries >= 0
    PROVE  SeqNosAgree'
  <1>1. \A r \in Peers : /\ Sent(r)' = Sent(r) /\ Accepted(r)' = Accepted(r)
                         /\ acked'[r] = acked[r] /\ rseqno'[r] = rseqno[r]
                         /\ oseqno'[r] = oseqno[r] /\ iseqno'[r] = iseqno[r]
    BY DEF Sent, Accepted
  <1>2. FramesAgree' /\ PacketsAgree'
    <2>1. \A r \in Peers : Accepted(r) <= Accepted(r)' BY <1>1, Lengths
    <2>0. PICK none : none = {} OBVIOUS
    <2>2. \A g \in none : AckAgrees(p, g)' /\ NumberAgrees(p, g)' BY <2>0
    <2>3. \A r \in Peers : \A f \in schedq'[r] :
             \/ \E g \in schedq[r] : Same(f, g)
             \/ r = p /\ \E g \in none : Same(f, g)
      OBVIOUS
    <2>4. \A m \in net' :
             \/ m \in net
             \/ m.src = p /\ \E g \in schedq[p] : Same(m, g)
             \/ m.src = p /\ \E g \in none : Same(m, g)
             \/ m.src = p /\ m.type # "data" /\ AckAgrees(p, m)'
      OBVIOUS
    <2> QED BY <1>1, <2>1, <2>2, <2>3, <2>4, StepAgrees
  <1>3. CountersAgree' BY <1>1, OtherPeer DEF SeqNosAgree, CountersAgree
  <1>4. Pending'
    <2> SUFFICES ASSUME NEW r \in Peers, alive'[r], ~Closing(r)',
                        NEW n \in acked'[r] + 1 .. Sent(r)'
                 PROVE  \E g \in schedq'[r] : g.n = n /\ g.retries >= 0
      BY DEF Pending
    <2>1. PICK f \in schedq[r] : f.n = n /\ f.retries >= 0
      BY <1>1 DEF SeqNosAgree, Pending
    <2> QED BY <2>1
  <1>5. InOrder' BY <1>1, OtherPeer DEF SeqNosAgree, InOrder
  <1> QED BY <1>2, <1>3, <1>4, <1>5 DEF SeqNosAgree

\* A retransmission, a reaped frame, a destroyed session and a lost datagram
\* keep every number in agreement.
LEMMA TimerAgrees ==
    ASSUME TypeOK, TypeOK', SeqNosAgree, NEW p \in Peers,
           \/ Reap(p) \/ Retransmit(p) \/ TimeoutUnheard(p) \/ EndFinal(p)
           \/ Disconnect(p) \/ Lose
    PROVE  SeqNosAgree'
  <1> USE DEF session, history
\* A frame is taken out that the session can do without
  <1>1. ASSUME NEW f \in schedq[p], schedq' = [schedq EXCEPT ![p] = @ \ {f}],
               ~IsFinal(p, f), f.retries < 0 \/ Closing(p),
               UNCHANGED <<session, net, history>>
        PROVE  SeqNosAgree'
    <2>2. schedq'[p] = schedq[p] \ {f}
          /\ \A r \in Peers : r # p => schedq'[r] = schedq[r]
      BY <1>1 DEF TypeOK
    <2>3. \A r \in Peers : Closing(r) => Closing(r)'
      BY <1>1, <2>2 DEF Closing, IsFinal
    <2>4. \A r \in Peers : \A g \in schedq'[r] : g \in schedq[r] /\ Same(g, g)
      BY <2>2 DEF Same
    <2>5. ASSUME NEW r \in Peers, alive'[r], ~Closing(r)', NEW g \in schedq[r],
                 g.retries >= 0
          PROVE  g \in schedq'[r]
      <3>1. f.retries \in Int BY NumbersAssumption DEF TypeOK, Frame
      <3>2. r = p => f.retries < 0 BY <1>1, <2>3, <2>5
      <3> QED BY <2>2, <2>5, <3>1, <3>2
    <2>6. \A r \in Peers : alive'[r] /\ ~Closing(r)' =>
              alive[r] /\ ~Closing(r) /\ \A g \in schedq[r] : g.retries >= 0 =>
                 \E h \in schedq'[r] : h.n = g.n /\ h.retries >= 0
      BY <1>1, <2>3, <2>5
    <2> QED BY <1>1, <2>4, <2>6, QuietAgrees
\* The session ends
  <1>2. ASSUME NEW F \in SUBSET schedq[p], schedq' = [schedq EXCEPT ![p] = Cancel(F)],
               alive' = [alive EXCEPT ![p] = FALSE],
               UNCHANGED <<oseqno, rseqno, iseqno, aseqno, net, history>>
        PROVE  SeqNosAgree'
    <2>1. F \in SUBSET Frame BY DEF TypeOK
    <2>2. schedq'[p] = Cancel(F)
          /\ \A r \in Peers : r # p => schedq'[r] = schedq[r]
      BY <1>2 DEF TypeOK
    <2>3. \A r \in Peers : \A g \in schedq'[r] : \E h \in schedq[r] : Same(g, h)
      BY <2>1, <2>2, CancelSame DEF Same
    <2>4. ~alive'[p] /\ \A r \in Peers : r # p => alive'[r] = alive[r]
      BY <1>2 DEF TypeOK
    <2>5. \A r \in Peers : alive'[r] /\ ~Closing(r)' =>
              alive[r] /\ ~Closing(r) /\ \A f \in schedq[r] : f.retries >= 0 =>
                 \E g \in schedq'[r] : g.n = f.n /\ g.retries >= 0
      BY <1>2, <2>2, <2>4 DEF Closing, IsFinal
    <2>6. net' = net /\ UNCHANGED <<oseqno, rseqno, iseqno, sent, delivered, acked>>
      BY <1>2
    <2> QED BY <2>3, <2>5, <2>6, QuietAgrees
  <1>3. CASE Reap(p) BY <1>1, <1>3 DEF Reap
  <1>4. CASE TimeoutUnheard(p) BY <1>1, <1>4 DEF TimeoutUnheard
  <1>5. CASE EndFinal(p)
    <2>1. PICK f \in schedq[p] :
             /\ schedq' = [schedq EXCEPT ![p] = Cancel(@ \ {f})]
             /\ alive' = [alive EXCEPT ![p] = FALSE]
             /\ UNCHANGED <<oseqno, rseqno, iseqno, aseqno, net, history>>
      BY <1>5 DEF EndFinal
    <2>2. schedq[p] \ {f} \in SUBSET schedq[p] OBVIOUS
    <2> QED BY <1>2, <2>1, <2>2
  <1>6. CASE Disconnect(p)
    <2>1. schedq[p] \in SUBSET schedq[p] OBVIOUS
    <2> QED BY <1>2, <1>6, <2>1 DEF Disconnect
  <1>7. CASE Retransmit(p)
    <2>1. PICK f \in schedq[p] :
             /\ f.retries > 0
             /\ schedq' = [schedq EXCEPT ![p] =
                              (@ \ {f}) \cup {[f EXCEPT !.retries = @ - 1]}]
             /\ Xmit(net, {OnWire(p, f)})
             /\ UNCHANGED <<session, history>>
      BY <1>7 DEF Retransmit
    <2> DEFINE again == [f EXCEPT !.retries = @ - 1]
    <2>2. f \in Frame BY DEF TypeOK
    <2>3. Same(again, f) /\ again.n = f.n /\ again.retries >= 0
      BY <2>1, <2>2 DEF Same, Frame
    <2>4. schedq'[p] = (schedq[p] \ {f}) \cup {again}
          /\ \A r \in Peers : r # p => schedq'[r] = schedq[r]
      BY <2>1 DEF TypeOK
    <2> HIDE DEF again
    <2>5. \A r \in Peers : \A g \in schedq'[r] : \E h \in schedq[r] : Same(g, h)
      BY <2>3, <2>4 DEF Same
    <2>6. \A r \in Peers : \A g \in schedq[r] :
             /\ \E h \in schedq'[r] : h.n = g.n
             /\ g.retries >= 0 => \E h \in schedq'[r] : h.n = g.n /\ h.retries >= 0
      BY <2>3, <2>4
    <2>7. net' \subseteq net \cup {OnWire(p, f)} BY <2>1, XmitSub
    <2>8. \A m \in net' : m \in net \/ m = OnWire(p, f) BY <2>7
    <2>9. \A m \in net' : \/ m \in net
                          \/ m.src = p /\ \E g \in schedq[p] : Same(m, g)
      BY <2>8, OnWireSame
    <2>10. \A r \in Peers : Closing(r) => Closing(r)'
      BY <2>1, <2>6, ClosingStays DEF Closing
    <2>11. UNCHANGED <<oseqno, rseqno, iseqno, alive, sent, delivered, acked>>
      BY <2>1
    <2>12. \A r \in Peers : alive'[r] /\ ~Closing(r)' =>
              alive[r] /\ ~Closing(r) /\ \A g \in schedq[r] : g.retries >= 0 =>
                 \E h \in schedq'[r] : h.n = g.n /\ h.retries >= 0
      BY <2>6, <2>10, <2>11
    <2> QED BY <2>5, <2>9, <2>11, <2>12, QuietAgrees
  <1>8. CASE Lose
    <2>1. \A m \in net' : m \in net BY <1>8 DEF Lose
    <2>2. UNCHANGED <<session, schedq, history>> BY <1>8 DEF Lose
    <2>3. \A r \in Peers : Closing(r) => Closing(r)' BY <2>2 DEF Closing, IsFinal
    <2> QED BY <2>1, <2>2, <2>3, QuietAgrees DEF Same
  <1> QED BY <1>3, <1>4, <1>5, <1>6, <1>7, <1>8

\* Accepting the frame expected, or none.
Accepts(p, m) ==
    \/ UNCHANGED <<delivered, iseqno>>
    \/ /\ m.type = "data" /\ m.oseqno = iseqno[p]
       /\ delivered' = [delivered EXCEPT ![p] = Append(@, m.n)]
       /\ iseqno' = [iseqno EXCEPT ![p] = Byte(iseqno[p] + 1)]

\* Replying with the numbered frames in new: none, or one.
Replies(p, new) ==
    \/ new = {} /\ UNCHANGED <<sent, oseqno>>
    \/ \E x, f : /\ new = {f} /\ SendReliable(p, x, f) /\ Fresh(p, Window)
                 /\ f = NewFrame(p, iseqno'[p], Accepted(p)')

\* What accepting does to the numbers.
LEMMA AcceptCounts ==
    ASSUME TypeOK, TypeOK', SeqNosAgree, NEW p \in Peers, NEW m \in net,
           m.src = Other(p), Accepts(p, m)
    PROVE  /\ \A r \in Peers : Accepted(r) <= Accepted(r)'
           /\ \A r \in Peers : iseqno'[r] = Byte(Accepted(r)')
           /\ \A r \in Peers : Accepted(Other(r))' <= Sent(r)
           /\ \A r \in Peers : \A i \in 1 .. Accepted(r)' : delivered'[r][i] = i
  <1>1. /\ \A r \in Peers : iseqno[r] = Byte(Accepted(r))
        /\ \A r \in Peers : Accepted(Other(r)) <= Sent(r)
        /\ \A r \in Peers : \A i \in 1 .. Accepted(r) : delivered[r][i] = i
    BY DEF SeqNosAgree, CountersAgree, InOrder
  <1>2. CASE UNCHANGED <<delivered, iseqno>>
    <2>1. \A r \in Peers : Accepted(r)' = Accepted(r) BY <1>2 DEF Accepted
    <2> QED BY <1>1, <1>2, <2>1, Lengths, OtherPeer
  <1>3. CASE /\ m.type = "data" /\ m.oseqno = iseqno[p]
             /\ delivered' = [delivered EXCEPT ![p] = Append(@, m.n)]
             /\ iseqno' = [iseqno EXCEPT ![p] = Byte(iseqno[p] + 1)]
    <2>1. m.n = Accepted(p) + 1 /\ Accepted(p) + 1 <= Sent(Other(p))
      BY <1>3, AcceptMeaning
    <2>2. \A r \in Peers : r # p => /\ delivered'[r] = delivered[r]
                                    /\ iseqno'[r] = iseqno[r]
      BY <1>3 DEF TypeOK
    <2>3. delivered'[p] = Append(delivered[p], m.n) BY <1>3 DEF TypeOK
    <2>4. Accepted(p)' = Accepted(p) + 1 BY <2>3 DEF Accepted, TypeOK
    <2>5. \A r \in Peers : r # p => Accepted(r)' = Accepted(r)
      BY <2>2 DEF Accepted
    <2>6. iseqno'[p] = Byte(Accepted(p) + 1)
      <3>1. iseqno'[p] = Byte(Byte(Accepted(p)) + 1) BY <1>1, <1>3 DEF TypeOK
      <3> QED BY <3>1, Lengths, ByteSucc
    <2>7. \A i \in 1 .. Accepted(p)' : delivered'[p][i] = i
      <3> SUFFICES ASSUME NEW i \in 1 .. Accepted(p)'
                   PROVE  delivered'[p][i] = i
        OBVIOUS
      <3>1. Accepted(p) \in Nat /\ delivered[p] \in Seq(Nat) /\ m.n \in Nat
        BY <2>1, Lengths DEF TypeOK
      <3>2. CASE i = Accepted(p) + 1
        BY <2>1, <2>3, <3>1, <3>2 DEF Accepted
      <3>3. CASE i \in 1 .. Accepted(p)
        <4>1. delivered'[p][i] = delivered[p][i]
          BY <2>3, <3>1, <3>3 DEF Accepted
        <4> QED BY <1>1, <3>3, <4>1
      <3> QED BY <2>4, <3>1, <3>2, <3>3
    <2>8. \A r \in Peers : Accepted(Other(r))' <= Sent(r)
      <3> SUFFICES ASSUME NEW r \in Peers
                   PROVE  Accepted(Other(r))' <= Sent(r)
        OBVIOUS
      <3>1. CASE r = Other(p) BY <2>1, <2>4, <3>1, OtherPeer
      <3>2. CASE r = p
        <4>1. Other(r) # p /\ Other(r) \in Peers BY <3>2, OtherPeer
        <4> QED BY <1>1, <2>5, <4>1
      <3> QED BY <3>1, <3>2, OtherPeer
    <2>9. \A r \in Peers : Accepted(r) <= Accepted(r)' BY <2>4, <2>5, Lengths
    <2>10. \A r \in Peers : iseqno'[r] = Byte(Accepted(r)')
      BY <1>1, <2>2, <2>4, <2>5, <2>6
    <2>11. \A r \in Peers : r # p =>
              \A i \in 1 .. Accepted(r)' : delivered'[r][i] = i
      BY <1>1, <2>2, <2>5
    <2> QED BY <2>7, <2>8, <2>9, <2>10, <2>11
  <1> QED BY <1>2, <1>3 DEF Accepts

\* What replying does to the numbers.
LEMMA ReplyCounts ==
    ASSUME TypeOK, TypeOK', SeqNosAgree, NEW p \in Peers, NEW m \in net, NEW new,
           m.src = Other(p), Accepts(p, m), Replies(p, new)
    PROVE  /\ \A r \in Peers : r # p => Sent(r)' = Sent(r)
           /\ \/ Sent(p)' = Sent(p)
              \/ Sent(p)' = Sent(p) + 1 /\ \E limit \in Nat : Fresh(p, limit)
           /\ \A r \in Peers : oseqno'[r] = Byte(Sent(r)')
           /\ \A r \in Peers : Sent(r)' - acked[r] < SeqMod
           /\ \A g \in new : AckAgrees(p, g)' /\ NumberAgrees(p, g)'
           /\ Sent(p)' # Sent(p) =>
                 \E g \in new : g.n = Sent(p)' /\ g.retries = MaxRetries
  <1>1. \A r \in Peers : oseqno[r] = Byte(Sent(r)) /\ Sent(r) - acked[r] < SeqMod
    BY DEF SeqNosAgree, CountersAgree
  <1>2. CASE new = {} /\ UNCHANGED <<sent, oseqno>>
    <2>1. \A r \in Peers : Sent(r)' = Sent(r) BY <1>2 DEF Sent
    <2> QED BY <1>1, <1>2, <2>1
  <1>3. CASE \E x, f : /\ new = {f} /\ SendReliable(p, x, f) /\ Fresh(p, Window)
                       /\ f = NewFrame(p, iseqno'[p], Accepted(p)')
    <2>1. PICK x, f : /\ new = {f} /\ SendReliable(p, x, f) /\ Fresh(p, Window)
                      /\ f = NewFrame(p, iseqno'[p], Accepted(p)')
      BY <1>3
    <2>2. /\ Sent(p)' = Sent(p) + 1
          /\ \A r \in Peers : r # p => Sent(r)' = Sent(r) /\ oseqno'[r] = oseqno[r]
          /\ oseqno'[p] = Byte(Sent(p)') /\ Sent(p)' - acked[p] < SeqMod
      BY <2>1, SendCounts, SendCounters
    <2>3. iseqno'[p] = Byte(Accepted(p)') /\ Accepted(p) <= Accepted(p)'
      BY AcceptCounts
    <2>4. AckAgrees(p, f)' /\ NumberAgrees(p, f)'
      BY <2>1, <2>3, NewFrameAgrees
    <2>5. f.n = Sent(p)' /\ f.retries = MaxRetries BY <2>1, <2>2 DEF NewFrame
    <2>6. \E limit \in Nat : Fresh(p, limit) BY <2>1, Lengths
    <2>7. \A r \in Peers : oseqno'[r] = Byte(Sent(r)') /\ Sent(r)' - acked[r] < SeqMod
      BY <1>1, <2>2
    <2> QED BY <2>1, <2>2, <2>4, <2>5, <2>6, <2>7
  <1> QED BY <1>2, <1>3 DEF Replies

\* Whatever the datagram, a handler that notes its acknowledgement, accepts at
\* most the frame expected and replies with at most one frame keeps every
\* number in agreement.
LEMMA ReceiveAgrees ==
    ASSUME TypeOK, TypeOK', SeqNosAgree, NEW p \in Peers, NEW m \in net, NEW new,
           m.src = Other(p), NoteAck(p, m), UNCHANGED alive,
           schedq' = [schedq EXCEPT ![p] = AfterAck(p, m) \cup new],
           Accepts(p, m), Replies(p, new),
           \A k \in net' :
              \/ k \in net
              \/ k.src = p /\ \E g \in schedq[p] : Same(k, g)
              \/ k.src = p /\ \E g \in new : Same(k, g)
              \/ /\ k.src = p /\ k.type # "data"
                 /\ k.a = Accepted(p)' /\ k.iseqno = iseqno'[p]
    PROVE  SeqNosAgree'
  <1>1. /\ acked[p] <= acked'[p] /\ acked'[p] <= Accepted(Other(p))
        /\ rseqno'[p] = Byte(acked'[p])
        /\ \A r \in Peers : r # p => acked'[r] = acked[r] /\ rseqno'[r] = rseqno[r]
    BY AckMeaning DEF TypeOK
  <1>2. /\ \A r \in Peers : Accepted(r) <= Accepted(r)'
        /\ \A r \in Peers : iseqno'[r] = Byte(Accepted(r)')
        /\ \A r \in Peers : Accepted(Other(r))' <= Sent(r)
        /\ \A r \in Peers : \A i \in 1 .. Accepted(r)' : delivered'[r][i] = i
    BY AcceptCounts
  <1>3. /\ \A r \in Peers : r # p => Sent(r)' = Sent(r)
        /\ \/ Sent(p)' = Sent(p)
           \/ Sent(p)' = Sent(p) + 1 /\ \E limit \in Nat : Fresh(p, limit)
        /\ \A r \in Peers : oseqno'[r] = Byte(Sent(r)')
        /\ \A r \in Peers : Sent(r)' - acked[r] < SeqMod
        /\ \A g \in new : AckAgrees(p, g)' /\ NumberAgrees(p, g)'
        /\ Sent(p)' # Sent(p) =>
              \E g \in new : g.n = Sent(p)' /\ g.retries = MaxRetries
    BY ReplyCounts
  <1>4. \A r \in Peers : Sent(r) <= Sent(r)' BY <1>3, Lengths
  <1>5. schedq'[p] = AfterAck(p, m) \cup new
        /\ \A r \in Peers : r # p => schedq'[r] = schedq[r]
    BY DEF TypeOK
  <1>6. FramesAgree' /\ PacketsAgree'
    <2>1. m \in Packet BY DEF TypeOK
    <2>2. \A f \in schedq'[p] : \/ \E g \in schedq[p] : Same(f, g)
                                \/ \E g \in new : Same(f, g)
      BY <1>5, <2>1, AfterAckSame DEF Same
    <2>3. \A r \in Peers : \A f \in schedq'[r] :
              \/ \E g \in schedq[r] : Same(f, g)
              \/ r = p /\ \E g \in new : Same(f, g)
      BY <1>5, <2>2 DEF Same
    <2>4. Sent(Other(p))' = Sent(Other(p)) BY <1>3, OtherPeer
    <2>5. \A k : k.a = Accepted(p)' /\ k.iseqno = iseqno'[p] => AckAgrees(p, k)'
      BY <1>2, <2>4, NewAckAgrees
    <2>6. \A k \in net' :
              \/ k \in net
              \/ k.src = p /\ \E g \in schedq[p] : Same(k, g)
              \/ k.src = p /\ \E g \in new : Same(k, g)
              \/ k.src = p /\ k.type # "data" /\ AckAgrees(p, k)'
      BY <2>5
    <2> QED BY <1>2, <1>3, <2>3, <2>6, StepAgrees
  <1>7. CountersAgree'
    <2> SUFFICES ASSUME NEW r \in Peers
                 PROVE  /\ acked'[r] <= Accepted(Other(r))'
                        /\ Accepted(Other(r))' <= Sent(r)'
                        /\ Sent(r)' - acked'[r] < SeqMod
                        /\ rseqno'[r] = Byte(acked'[r])
                        /\ oseqno'[r] = Byte(Sent(r)')
                        /\ iseqno'[r] = Byte(Accepted(r)')
      BY DEF CountersAgree
    <2>1. Other(r) \in Peers BY OtherPeer
    <2>2. /\ acked[r] \in Nat /\ acked'[r] \in Nat /\ Sent(r) \in Nat /\ Sent(r)' \in Nat
          /\ Accepted(Other(r)) \in Nat /\ Accepted(Other(r))' \in Nat
          /\ SeqMod \in Nat
      BY <2>1, Lengths, LengthsNext
    <2>3. acked[r] <= Accepted(Other(r)) /\ rseqno[r] = Byte(acked[r])
      BY DEF SeqNosAgree, CountersAgree
    <2>4. acked[r] <= acked'[r] /\ acked'[r] <= Accepted(Other(r))
          /\ rseqno'[r] = Byte(acked'[r])
      BY <1>1, <2>2, <2>3
    <2>5. acked'[r] <= Accepted(Other(r))' BY <1>2, <2>1, <2>2, <2>4
    <2>6. Accepted(Other(r))' <= Sent(r)' BY <1>2, <1>4, <2>2
    <2>7. Sent(r)' - acked'[r] < SeqMod BY <1>3, <2>2, <2>4
    <2> QED BY <1>2, <1>3, <2>4, <2>5, <2>6, <2>7
  <1>10. \A r \in Peers :
            /\ \/ sent'[r] = sent[r]
               \/ \E x : sent'[r] = Append(sent[r], x)
            /\ \A f \in schedq[r] : \E g \in schedq'[r] : g.n = f.n
    <2>1. m \in Packet /\ schedq[p] \in SUBSET Frame BY DEF TypeOK
    <2>2. \A f \in schedq[p] : \E g \in AfterAck(p, m) : g.n = f.n
      BY <2>1, AfterAckKeepsNumbers
    <2>3. \A r \in Peers : \/ sent'[r] = sent[r]
                           \/ \E x : sent'[r] = Append(sent[r], x)
      BY DEF Replies, SendReliable, TypeOK
    <2> QED BY <1>5, <2>2, <2>3
  <1>8. Pending'
    <2> SUFFICES ASSUME NEW r \in Peers, alive'[r], ~Closing(r)',
                        NEW n \in acked'[r] + 1 .. Sent(r)'
                 PROVE  \E g \in schedq'[r] : g.n = n /\ g.retries >= 0
      BY DEF Pending
    <2>1. /\ acked[r] \in Nat /\ acked'[r] \in Nat /\ Sent(r) \in Nat /\ Sent(r)' \in Nat
          /\ MaxRetries \in Nat
      BY Lengths, LengthsNext, NumbersAssumption
    <2>2. CASE n \in acked'[r] + 1 .. Sent(r)
      <3>1. acked[r] <= acked'[r] BY <1>1, <2>1
      <3>2. n \in acked[r] + 1 .. Sent(r) BY <2>1, <2>2, <3>1
      <3>0. ~Closing(r) BY <1>10, ClosingStays DEF Closing
      <3>3. PICK g \in schedq[r] : g.n = n /\ g.retries >= 0
        BY <3>0, <3>2 DEF SeqNosAgree, Pending
      <3>4. CASE r = p
        <4>1. acked'[p] < g.n BY <2>1, <2>2, <3>3, <3>4
        <4>2. g \in AfterAck(p, m) BY <3>4, <4>1, AckKeeps
        <4> QED BY <1>5, <3>3, <3>4, <4>2
      <3>5. CASE r # p BY <1>5, <3>3, <3>5
      <3> QED BY <3>4, <3>5
    <2>3. CASE n = Sent(r)' /\ Sent(r)' # Sent(r)
      <3>1. r = p BY <1>3, <2>3
      <3> QED BY <1>3, <1>5, <2>1, <2>3, <3>1
    <2> QED BY <1>3, <2>1, <2>2, <2>3
  <1>9. InOrder'
    <2> SUFFICES ASSUME NEW r \in Peers
                 PROVE  /\ Accepted(r)' <= Sent(Other(r))'
                        /\ \A i \in 1 .. Accepted(r)' : delivered'[r][i] = i
      BY DEF InOrder
    <2>1. Other(r) \in Peers /\ Other(Other(r)) = r BY OtherPeer
    <2>2. Accepted(r)' <= Sent(Other(r)) /\ Sent(Other(r)) <= Sent(Other(r))'
      BY <1>2, <1>4, <2>1
    <2> QED BY <1>2, <2>1, <2>2, Lengths, LengthsNext
  <1> QED BY <1>6, <1>7, <1>8, <1>9 DEF SeqNosAgree

\* iax_header_to_event keeps every number in agreement.
LEMMA HandlerAgrees ==
    ASSUME TypeOK, TypeOK', SeqNosAgree, NEW p \in Peers, NEW m \in net,
           m.src = Other(p),
           \/ RecvAck(p, m) \/ RecvVnak(p, m) \/ RecvInOrder(p, m)
           \/ RecvAndReply(p, m) \/ RecvOutOfOrder(p, m)
    PROVE  SeqNosAgree'
  <1> USE DEF vars, session, history
  <1> DEFINE Answer(k) == /\ k.src = p /\ k.type # "data"
                          /\ k.a = Accepted(p)' /\ k.iseqno = iseqno'[p]
             Comes(k, new) == \/ k \in net
                              \/ k.src = p /\ \E g \in schedq[p] : Same(k, g)
                              \/ k.src = p /\ \E g \in new : Same(k, g)
                              \/ Answer(k)
  <1>1. PICK none : none = {} OBVIOUS
  <1>2. \A ms \in Consume(m) : ms \subseteq net BY DEF Consume
  <1>3. ASSUME UNCHANGED <<oseqno, iseqno, alive, sent, delivered>>, NoteAck(p, m),
               schedq' = [schedq EXCEPT ![p] = AfterAck(p, m)],
               NEW ms \in Consume(m), NEW ps, Xmit(ms, ps),
               \A k \in ps : Comes(k, none)
        PROVE  SeqNosAgree'
    <2>1. \A k \in net' : Comes(k, none) BY <1>2, <1>3, XmitSub
    <2>2. Accepts(p, m) /\ Replies(p, none) BY <1>1, <1>3 DEF Accepts, Replies
    <2>3. schedq' = [schedq EXCEPT ![p] = AfterAck(p, m) \cup none]
      BY <1>1, <1>3
    <2> QED BY <1>3, <2>1, <2>2, <2>3, ReceiveAgrees
  <1>4. ASSUME UNCHANGED <<iseqno, delivered>>, NEW kind \in {"ack", "vnak"}, NEW seqno
        PROVE  Answer(Immediate(p, kind, seqno, iseqno[p], Accepted(p)))
    BY <1>4 DEF Immediate, Accepted
  <1>5. ASSUME UNCHANGED <<iseqno, delivered>>
        PROVE  \A k \in FinalAck(p, m) : Comes(k, none)
    <2>1. Answer(Immediate(p, "ack", m.iseqno, iseqno[p], Accepted(p)))
      BY <1>4, <1>5
    <2> QED BY <2>1 DEF FinalAck
  <1> HIDE DEF Answer
  <1>6. CASE RecvAck(p, m)
    <2>1. PICK ms \in Consume(m) : Xmit(ms, FinalAck(p, m)) BY <1>6 DEF RecvAck
    <2>2. \A k \in FinalAck(p, m) : Comes(k, none) BY <1>5, <1>6 DEF RecvAck
    <2> HIDE DEF Comes
    <2> QED BY <1>3, <1>6, <2>1, <2>2 DEF RecvAck
  <1>7. CASE RecvVnak(p, m)
    <2> DEFINE ps == {OnWire(p, f) : f \in Missing(p, m)} \cup FinalAck(p, m)
    <2>1. PICK ms \in Consume(m) : Xmit(ms, ps) BY <1>7 DEF RecvVnak
    <2>2. \A f \in Missing(p, m) : Comes(OnWire(p, f), none)
      BY OnWireSame DEF Missing
    <2>3. \A k \in ps : Comes(k, none) BY <1>5, <1>7, <2>2 DEF RecvVnak
    <2> HIDE DEF Comes, ps
    <2> QED BY <1>3, <1>7, <2>1, <2>3 DEF RecvVnak
  <1>8. CASE RecvOutOfOrder(p, m)
    <2> DEFINE seen == Dist(m.oseqno, iseqno[p]) < SeqMod \div 2
               kind == IF seen THEN "ack" ELSE "vnak"
               seqno == IF seen THEN m.iseqno ELSE iseqno[p]
               i == Immediate(p, kind, seqno, iseqno[p], Accepted(p))
    <2>1. PICK ms \in Consume(m) : Xmit(ms, {i}) BY <1>8 DEF RecvOutOfOrder
    <2>2. UNCHANGED <<oseqno, iseqno, alive, sent, delivered>> /\ NoteAck(p, m)
          /\ schedq' = [schedq EXCEPT ![p] = AfterAck(p, m)]
      BY <1>8 DEF RecvOutOfOrder
    <2>3. Answer(i) BY <1>4, <2>2
    <2>4. \A k \in {i} : Comes(k, none) BY <2>3
    <2> HIDE DEF Comes, i
    <2> QED BY <1>3, <2>1, <2>2, <2>4
  <1>9. ASSUME RecvInOrder(p, m) \/ RecvAndReply(p, m)
        PROVE  Accepts(p, m) /\ Accepted(p)' = Accepted(p) + 1
               /\ iseqno'[p] = Byte(iseqno[p] + 1)
    <2>1. /\ m.type = "data" /\ m.oseqno = iseqno[p]
          /\ delivered' = [delivered EXCEPT ![p] = Append(@, m.n)]
          /\ iseqno' = [iseqno EXCEPT ![p] = Byte(iseqno[p] + 1)]
      BY <1>9 DEF RecvInOrder, RecvAndReply
    <2>2. delivered'[p] = Append(delivered[p], m.n)
          /\ iseqno'[p] = Byte(iseqno[p] + 1) /\ delivered[p] \in Seq(Nat)
      BY <2>1 DEF TypeOK
    <2>3. Len(delivered'[p]) = Len(delivered[p]) + 1 BY <2>2
    <2> QED BY <2>1, <2>2, <2>3 DEF Accepts, Accepted
  <1>10. CASE RecvInOrder(p, m)
    <2> DEFINE e == Byte(iseqno[p] + 1)
               ack == sent[m.src][m.n] \notin Quiet /\ aseqno[p] # e
               i == Immediate(p, "ack", m.iseqno, e, Accepted(p) + 1)
               ps == IF ack THEN {i} ELSE {}
    <2>1. PICK ms \in Consume(m) : Xmit(ms, ps) BY <1>10 DEF RecvInOrder
    <2>2. Answer(i) BY <1>9, <1>10 DEF Answer, Immediate
    <2>3. \A k \in ps : Comes(k, none) BY <2>2
    <2> HIDE DEF ps
    <2>4. \A k \in net' : Comes(k, none) BY <1>2, <2>1, <2>3, XmitSub
    <2>5. UNCHANGED <<oseqno, alive, sent>> /\ NoteAck(p, m)
          /\ schedq' = [schedq EXCEPT ![p] = AfterAck(p, m) \cup none]
      BY <1>1, <1>10 DEF RecvInOrder
    <2>6. Accepts(p, m) /\ Replies(p, none)
      BY <1>1, <1>9, <1>10, <2>5 DEF Replies
    <2> QED BY <2>4, <2>5, <2>6, ReceiveAgrees DEF Answer
  <1>11. CASE RecvAndReply(p, m)
    <2> DEFINE F == NewFrame(p, Byte(iseqno[p] + 1), Accepted(p) + 1)
    <2>1. PICK f : f = F OBVIOUS
    <2>2. PICK ms \in Consume(m) : Xmit(ms, {OnWire(p, f)})
      BY <1>11, <2>1 DEF RecvAndReply
    <2>3. PICK y \in Payloads : SendReliable(p, y, f)
      BY <1>11, <2>1 DEF RecvAndReply
    <2>4. f = NewFrame(p, iseqno'[p], Accepted(p)') BY <1>9, <1>11, <2>1
    <2> HIDE DEF F
    <2>5. UNCHANGED alive /\ NoteAck(p, m) /\ Fresh(p, Window)
          /\ schedq' = [schedq EXCEPT ![p] = AfterAck(p, m) \cup {f}]
      BY <1>11, <2>1 DEF RecvAndReply, F
    <2>6. Accepts(p, m) /\ Replies(p, {f})
      BY <1>9, <1>11, <2>3, <2>4, <2>5 DEF Replies
    <2>7. \A k \in {OnWire(p, f)} : Comes(k, {f}) BY OnWireSame
    <2>8. \A k \in net' : Comes(k, {f}) BY <1>2, <2>2, <2>7, XmitSub
    <2> QED BY <2>5, <2>6, <2>8, ReceiveAgrees DEF Answer
  <1> QED BY <1>6, <1>7, <1>8, <1>10, <1>11

\* No step of the transport lets a sequence number stand for another frame.
LEMMA SeqNosStep ==
    ASSUME TypeOK, TypeOK', SeqNosAgree, [Next]_vars
    PROVE  SeqNosAgree'
  <1>1. CASE Lose
    <2>1. PICK p \in Peers : TRUE BY PeersAssumption
    <2> QED BY <1>1, TimerAgrees
  <1>2. ASSUME NEW p \in Peers, AppSend(p) \/ SendPing(p)
        PROVE  SeqNosAgree'
    <2>1. \E x : Send(p, x) BY <1>2 DEF AppSend, SendPing
    <2> QED BY <2>1, SendAgrees
  <1>3. ASSUME NEW p \in Peers, AppHangup(p)
        PROVE  SeqNosAgree'
    <2>1. schedq[p] \in SUBSET schedq[p] OBVIOUS
    <2> QED BY <1>3, <2>1, SendFinalAgrees DEF AppHangup
  <1>4. ASSUME NEW p \in Peers, Timeout(p)
        PROVE  SeqNosAgree'
    <2>1. PICK f \in schedq[p] : SendFinal(p, schedq[p] \ {f})
      BY <1>4 DEF Timeout
    <2>2. schedq[p] \ {f} \in SUBSET schedq[p] OBVIOUS
    <2> QED BY <2>1, <2>2, SendFinalAgrees
  <1>5. ASSUME NEW p \in Peers,
               \/ Reap(p) \/ Retransmit(p) \/ Disconnect(p)
               \/ TimeoutUnheard(p) \/ EndFinal(p)
        PROVE  SeqNosAgree'
    BY <1>5, TimerAgrees
  <1>6. ASSUME NEW p \in Peers, Receive(p)
        PROVE  SeqNosAgree'
    BY <1>6, HandlerAgrees DEF Receive
  <1>7. CASE UNCHANGED vars
    <2>1. UNCHANGED <<oseqno, rseqno, iseqno, alive, schedq, net, sent, delivered, acked>>
      BY <1>7 DEF vars, session, history
    <2>2. PICK p \in Peers : TRUE BY PeersAssumption
    <2>3. \A r \in Peers : Closing(r) => Closing(r)' BY <2>1 DEF Closing, IsFinal
    <2> QED BY <2>1, <2>3, QuietAgrees DEF Same
  <1> QED BY <1>1, <1>2, <1>3, <1>4, <1>5, <1>6, <1>7 DEF Next

\* With nothing sent every counter is 0 and stands for 0.
LEMMA SeqNosInit ==
    ASSUME Init
    PROVE  SeqNosAgree
  <1>1. SeqMod \in Nat \ {0} BY NumbersAssumption
  <1>2. Byte(0) = 0 BY <1>1, ModSmall DEF Byte
  <1>3. \A p \in Peers : Sent(p) = 0 /\ Accepted(p) = 0
    BY DEF Init, Sent, Accepted
  <1>4. CountersAgree
    BY <1>1, <1>2, <1>3, OtherPeer DEF Init, CountersAgree
  <1>5. FramesAgree /\ PacketsAgree BY DEF Init, FramesAgree, PacketsAgree
  <1>6. Pending /\ InOrder BY <1>3, OtherPeer DEF Init, Pending, InOrder
  <1> QED BY <1>4, <1>5, <1>6 DEF SeqNosAgree

\* However the unsigned char counters wrap around, every sequence number and
\* acknowledgement in a session, in schedq and on the wire stands for the frame
\* the history says.
THEOREM SeqNosCorrect == Spec => []SeqNosAgree
  <1>1. Init => TypeOK /\ SeqNosAgree BY TypeInit, SeqNosInit
  <1>2. TypeOK /\ SeqNosAgree /\ [Next]_vars => (TypeOK /\ SeqNosAgree)'
    BY TypeStep, SeqNosStep
  <1> QED BY <1>1, <1>2, PTL DEF Spec

\* The frames iax_header_to_event accepts are those the peer sent, each once and
\* in the order sent.
THEOREM DeliveryInOrder == Spec => []InOrder
  <1>1. SeqNosAgree => InOrder BY DEF SeqNosAgree
  <1> QED BY <1>1, SeqNosCorrect, PTL

\* rseqno is the number of frames acknowledged, and none of them was acknowledged
\* before the peer accepted it.
THEOREM AcksSound == Spec => []AckSound
  <1>1. SeqNosAgree => AckSound BY DEF SeqNosAgree, CountersAgree, AckSound
  <1> QED BY <1>1, SeqNosCorrect, PTL

\* A frame the peer has not accepted is still queued with retries left, as long as
\* its session exists and iaxclient has not hung up.
THEOREM NothingForgotten == Spec => []NoFrameForgotten
  <1>1. ASSUME TypeOK, SeqNosAgree
        PROVE  NoFrameForgotten
    <2> SUFFICES ASSUME NEW p \in Peers, alive[p], ~Closing(p),
                        NEW n \in Accepted(Other(p)) + 1 .. Sent(p)
                 PROVE  \E f \in schedq[p] : f.n = n /\ f.retries >= 0
      BY DEF NoFrameForgotten
    <2>1. acked[p] <= Accepted(Other(p)) BY <1>1 DEF SeqNosAgree, CountersAgree
    <2>2. acked[p] \in Nat /\ Accepted(Other(p)) \in Nat /\ Sent(p) \in Nat
      BY <1>1, Lengths, OtherPeer
    <2>3. n \in acked[p] + 1 .. Sent(p) BY <2>1, <2>2
    <2> QED BY <1>1, <2>3 DEF SeqNosAgree, Pending
  <1> QED BY <1>1, TypeCorrect, SeqNosCorrect, PTL

-----------------------------------------------------------------------------
(* Refinement: every step of the transport is a step of the reliable link *)

\* What an end was handed is as long as the number of frames it accepted.
LEMMA ReceivedLength ==
    ASSUME TypeOK, SeqNosAgree, NEW p \in Peers
    PROVE  /\ received[p] = [i \in 1 .. Accepted(p) |-> sent[Other(p)][i]]
           /\ received[p] \in Seq(AllPayloads)
           /\ Len(received[p]) = Accepted(p)
  <1>1. received[p] = [i \in 1 .. Accepted(p) |-> sent[Other(p)][delivered[p][i]]]
    BY DEF received
  <1>2. \A i \in 1 .. Accepted(p) : delivered[p][i] = i
    BY DEF SeqNosAgree, InOrder
  <1>3. received[p] = [i \in 1 .. Accepted(p) |-> sent[Other(p)][i]]
    BY <1>1, <1>2
  <1>4. Accepted(p) \in Nat /\ Sent(Other(p)) \in Nat BY Lengths, OtherPeer
  <1>5. Accepted(p) <= Len(sent[Other(p)])
    BY OtherPeer DEF SeqNosAgree, InOrder, Sent
  <1>6. sent[Other(p)] \in Seq(AllPayloads) BY OtherPeer DEF TypeOK
  <1>7. \A i \in 1 .. Accepted(p) : sent[Other(p)][i] \in AllPayloads
    BY <1>4, <1>5, <1>6, ElementOfSeq DEF Sent
  <1> QED BY <1>3, <1>4, <1>7

\* A step that changes neither what was accepted nor what was sent before leaves
\* what was handed over alone.
LEMMA ReceivedStays ==
    ASSUME TypeOK, SeqNosAgree, TypeOK', SeqNosAgree', NEW p \in Peers,
           delivered'[p] = delivered[p],
           \/ sent'[Other(p)] = sent[Other(p)]
           \/ \E x : sent'[Other(p)] = Append(sent[Other(p)], x)
    PROVE  received'[p] = received[p]
  <1>1. received[p] = [i \in 1 .. Accepted(p) |-> sent[Other(p)][i]]
        /\ received'[p] = [i \in 1 .. Accepted(p)' |-> sent'[Other(p)][i]]
    <2>1. received'[p] = [i \in 1 .. Accepted(p)' |-> sent'[Other(p)][delivered'[p][i]]]
      BY DEF received
    <2>2. \A i \in 1 .. Accepted(p)' : delivered'[p][i] = i
      BY DEF SeqNosAgree, InOrder
    <2> QED BY <2>1, <2>2, ReceivedLength
  <1>2. Accepted(p)' = Accepted(p) BY DEF Accepted
  <1>3. Accepted(p) \in Nat /\ Sent(Other(p)) \in Nat
        /\ Accepted(p) <= Sent(Other(p))
    BY Lengths, OtherPeer DEF SeqNosAgree, InOrder
  <1>4. sent[Other(p)] \in Seq(AllPayloads) BY OtherPeer DEF TypeOK
  <1>5. \A i \in 1 .. Accepted(p) : sent'[Other(p)][i] = sent[Other(p)][i]
    <2> SUFFICES ASSUME NEW i \in 1 .. Accepted(p)
                 PROVE  sent'[Other(p)][i] = sent[Other(p)][i]
      OBVIOUS
    <2>1. i \in 1 .. Len(sent[Other(p)]) BY <1>3 DEF Sent
    <2> QED BY <1>4, <2>1
  <1> QED BY <1>1, <1>2, <1>5

\* Accepting the next frame hands over the next payload.
LEMMA ReceivedGrows ==
    ASSUME TypeOK, SeqNosAgree, TypeOK', SeqNosAgree', NEW p \in Peers,
           Accepted(p)' = Accepted(p) + 1, sent'[Other(p)] = sent[Other(p)]
    PROVE  /\ Len(received[p]) < Len(sent[Other(p)])
           /\ received'[p] =
                 Append(received[p], sent[Other(p)][Len(received[p]) + 1])
  <1>1. received'[p] = [i \in 1 .. Accepted(p) + 1 |-> sent[Other(p)][i]]
    <2>1. received'[p] = [i \in 1 .. Accepted(p)' |-> sent'[Other(p)][delivered'[p][i]]]
      BY DEF received
    <2>2. \A i \in 1 .. Accepted(p)' : delivered'[p][i] = i
      BY DEF SeqNosAgree, InOrder
    <2> QED BY <2>1, <2>2
  <1>2. /\ received[p] = [i \in 1 .. Accepted(p) |-> sent[Other(p)][i]]
        /\ received[p] \in Seq(AllPayloads) /\ Len(received[p]) = Accepted(p)
    BY ReceivedLength
  <1>3. Accepted(p) \in Nat BY Lengths
  <1>4. Accepted(p) + 1 <= Len(sent[Other(p)])
    <2>1. Accepted(p)' <= Sent(Other(p))' BY DEF SeqNosAgree, InOrder
    <2> QED BY <2>1 DEF Sent
  <1>5. Len(received[p]) < Len(sent[Other(p)])
    <2>1. Sent(Other(p)) \in Nat /\ Accepted(p) + 1 <= Sent(Other(p))
      BY <1>4, Lengths, OtherPeer DEF Sent
    <2>2. Accepted(p) < Sent(Other(p)) BY <1>3, <2>1
    <2> QED BY <1>2, <2>2 DEF Sent
  <1> DEFINE y == sent[Other(p)][Accepted(p) + 1]
  <1>6. Append(received[p], y) =
           [i \in 1 .. Accepted(p) + 1 |-> IF i = Accepted(p) + 1 THEN y
                                                               ELSE received[p][i]]
    BY <1>2, <1>3
  <1>7. received'[p] = Append(received[p], y) BY <1>1, <1>2, <1>3, <1>6
  <1> QED BY <1>2, <1>5, <1>7

\* Steps that concern neither the applications nor the sessions stutter.
LEMMA LinkStutter ==
    ASSUME UNCHANGED <<alive, sent, delivered>>
    PROVE  UNCHANGED Link!vars
  BY DEF Link!vars, received, Accepted

\* Sending a frame hands nothing over.
LEMMA LinkSend ==
    ASSUME TypeOK, SeqNosAgree, TypeOK', SeqNosAgree', NEW p \in Peers, NEW x,
           delivered' = delivered,
           sent' = [sent EXCEPT ![p] = Append(@, x)]
    PROVE  received' = received
  <1>1. \A r \in Peers : \/ sent'[Other(r)] = sent[Other(r)]
                         \/ sent'[Other(r)] = Append(sent[Other(r)], x)
    BY OtherPeer DEF TypeOK
  <1>2. \A r \in Peers : received'[r] = received[r] BY <1>1, ReceivedStays
  <1> QED BY <1>2 DEF received

\* Accepting a frame hands it over to one end only.
LEMMA LinkAccept ==
    ASSUME TypeOK, SeqNosAgree, TypeOK', SeqNosAgree', NEW p \in Peers,
           NEW m \in Packet,
           delivered' = [delivered EXCEPT ![p] = Append(@, m.n)],
           sent'[Other(p)] = sent[Other(p)],
           \/ sent'[p] = sent[p]
           \/ \E x : sent'[p] = Append(sent[p], x)
    PROVE  /\ Len(received[p]) < Len(sent[Other(p)])
           /\ received' = [received EXCEPT ![p] =
                 Append(@, sent[Other(p)][Len(received[p]) + 1])]
  <1>1. delivered'[p] = Append(delivered[p], m.n) /\ delivered[p] \in Seq(Nat)
        /\ \A r \in Peers : r # p => delivered'[r] = delivered[r]
    BY DEF TypeOK
  <1>2. Len(delivered'[p]) = Len(delivered[p]) + 1 BY <1>1 DEF Packet
  <1>3. Accepted(p)' = Accepted(p) + 1 BY <1>2 DEF Accepted
  <1>4. /\ Len(received[p]) < Len(sent[Other(p)])
        /\ received'[p] = Append(received[p], sent[Other(p)][Len(received[p]) + 1])
    BY <1>3, ReceivedGrows
  <1>5. \A r \in Peers : r # p => received'[r] = received[r]
    BY <1>1, OtherPeer, ReceivedStays
  <1> QED BY <1>4, <1>5 DEF received

\* What iax_header_to_event does is what the link does.
LEMMA LinkReceive ==
    ASSUME TypeOK, SeqNosAgree, TypeOK', SeqNosAgree', NEW p \in Peers, Receive(p)
    PROVE  [Link!Next]_(Link!vars)
  <1> USE DEF vars, session, history
  <1>1. PICK m \in net : /\ m.src = Other(p) /\ alive[p]
                         /\ \/ RecvAck(p, m) \/ RecvVnak(p, m) \/ RecvInOrder(p, m)
                            \/ RecvAndReply(p, m) \/ RecvOutOfOrder(p, m)
    BY DEF Receive
  <1>2. CASE RecvAck(p, m) \/ RecvVnak(p, m) \/ RecvOutOfOrder(p, m)
    <2>1. UNCHANGED <<alive, sent, delivered>>
      BY <1>2 DEF RecvAck, RecvVnak, RecvOutOfOrder
    <2> QED BY <2>1, LinkStutter
  <1>3. m \in Packet BY DEF TypeOK
  <1>4. CASE RecvInOrder(p, m)
    <2>1. UNCHANGED <<alive, sent>>
          /\ delivered' = [delivered EXCEPT ![p] = Append(@, m.n)]
      BY <1>4 DEF RecvInOrder
    <2>2. /\ Len(received[p]) < Len(sent[Other(p)])
          /\ received' = [received EXCEPT ![p] =
                Append(@, sent[Other(p)][Len(received[p]) + 1])]
      BY <1>3, <2>1, LinkAccept
    <2>3. Link!Deliver(p)
      BY <1>1, <2>1, <2>2
         DEF Link!Deliver, Link!CanReceive, Link!NextReceived, Link!Other, Other
    <2> QED BY <2>3 DEF Link!Next
  <1>5. CASE RecvAndReply(p, m)
    <2>1. PICK x \in Payloads : \E f : SendReliable(p, x, f)
      BY <1>5 DEF RecvAndReply
    <2>2. sent' = [sent EXCEPT ![p] = Append(@, x)] /\ x \in AllPayloads
      BY <2>1 DEF SendReliable, AllPayloads
    <2>3. sent'[Other(p)] = sent[Other(p)] /\ sent'[p] = Append(sent[p], x)
      BY <2>2, OtherPeer DEF TypeOK
    <2>4. UNCHANGED alive
          /\ delivered' = [delivered EXCEPT ![p] = Append(@, m.n)]
      BY <1>5 DEF RecvAndReply
    <2>5. /\ Len(received[p]) < Len(sent[Other(p)])
          /\ received' = [received EXCEPT ![p] =
                Append(@, sent[Other(p)][Len(received[p]) + 1])]
      BY <1>3, <2>3, <2>4, LinkAccept
    <2>6. Link!DeliverAndReply(p)
      BY <1>1, <2>2, <2>4, <2>5
         DEF Link!DeliverAndReply, Link!CanReceive, Link!NextReceived, Link!Other, Other
    <2> QED BY <2>6 DEF Link!Next
  <1> QED BY <1>1, <1>2, <1>4, <1>5

\* send_command_final is the link's HangUp, or, if sendto fails, its Send.
LEMMA LinkHangUp ==
    ASSUME TypeOK, SeqNosAgree, TypeOK', SeqNosAgree', NEW p \in Peers, NEW F,
           alive[p], SendFinal(p, F)
    PROVE  Link!HangUp(p) \/ Link!Send(p)
  <1>1. /\ \/ alive' = [alive EXCEPT ![p] = FALSE]
           \/ UNCHANGED alive
        /\ delivered' = delivered
        /\ sent' = [sent EXCEPT ![p] = Append(@, Hangup)]
    BY DEF SendFinal, SendReliable
  <1>2. received' = received BY <1>1, LinkSend
  <1>3. Hangup \in AllPayloads BY DEF AllPayloads
  <1> QED BY <1>1, <1>2, <1>3 DEF Link!HangUp, Link!Send

\* A session that ends without sending anything has been handed the other's
\* HANGUP, or has sent its own.
LEMMA LinkClose ==
    ASSUME TypeOK, SeqNosAgree, NEW p \in Peers, alive[p],
           alive' = [alive EXCEPT ![p] = FALSE], UNCHANGED <<sent, delivered>>,
           \/ \E i \in DOMAIN delivered[p] : sent[Other(p)][delivered[p][i]] = Hangup
           \/ Closing(p)
    PROVE  Link!Close(p)
  <1>1. received' = received BY DEF received, Accepted
  <1>2. CASE \E i \in DOMAIN delivered[p] : sent[Other(p)][delivered[p][i]] = Hangup
    <2>1. PICK i \in DOMAIN delivered[p] : sent[Other(p)][delivered[p][i]] = Hangup
      BY <1>2
    <2>2. i \in 1 .. Accepted(p)
      <3>1. delivered[p] \in Seq(Nat) BY DEF TypeOK
      <3> QED BY <2>1, <3>1 DEF Accepted
    <2>3. i \in DOMAIN received[p] /\ received[p][i] = Hangup
      BY <2>1, <2>2 DEF received
    <2> QED BY <1>1, <2>3 DEF Link!Close, Link!Has
  <1>3. CASE Closing(p)
    <2>1. PICK f \in schedq[p] : sent[p][f.n] = Hangup
      BY <1>3 DEF Closing, IsFinal
    <2>2. f.n \in 1 .. Len(sent[p])
      BY DEF SeqNosAgree, FramesAgree, NumberAgrees, Sent
    <2>3. sent[p] \in Seq(AllPayloads) BY DEF TypeOK
    <2>4. f.n \in DOMAIN sent[p] BY <2>2, <2>3
    <2> QED BY <1>1, <2>1, <2>4 DEF Link!Close, Link!Has
  <1> QED BY <1>2, <1>3

\* Every step of the transport is a step of the link or a stutter.
LEMMA LinkStep ==
    ASSUME TypeOK, SeqNosAgree, TypeOK', SeqNosAgree', [Next]_vars
    PROVE  [Link!Next]_(Link!vars)
  <1> USE DEF vars, session, history
  <1>1. CASE Lose BY <1>1, LinkStutter DEF Lose
  <1>2. ASSUME NEW p \in Peers, AppSend(p) \/ SendPing(p)
        PROVE  Link!Next
    <2>1. PICK x \in AllPayloads : Send(p, x)
      BY <1>2 DEF AppSend, SendPing, AllPayloads
    <2>2. alive[p] /\ UNCHANGED <<alive, delivered>>
          /\ sent' = [sent EXCEPT ![p] = Append(@, x)]
      BY <2>1 DEF Send, SendReliable
    <2>3. received' = received BY <2>2, LinkSend
    <2>4. Link!Send(p) BY <2>2, <2>3 DEF Link!Send
    <2> QED BY <2>4 DEF Link!Next
  <1>3. ASSUME NEW p \in Peers, AppHangup(p) \/ Timeout(p)
        PROVE  Link!Next
    <2>1. alive[p] /\ \E F : SendFinal(p, F)
      BY <1>3 DEF AppHangup, Timeout
    <2> QED BY <2>1, LinkHangUp DEF Link!Next
  <1>4. ASSUME NEW p \in Peers, Reap(p) \/ Retransmit(p) \/ TimeoutUnheard(p)
        PROVE  UNCHANGED Link!vars
    BY <1>4, LinkStutter DEF Reap, Retransmit, TimeoutUnheard
  <1>5. ASSUME NEW p \in Peers, Disconnect(p) \/ EndFinal(p)
        PROVE  [Link!Next]_(Link!vars)
    <2>1. alive' = [alive EXCEPT ![p] = FALSE] /\ UNCHANGED <<sent, delivered>>
      BY <1>5 DEF Disconnect, EndFinal
    <2>2. \/ \E i \in DOMAIN delivered[p] : sent[Other(p)][delivered[p][i]] = Hangup
          \/ Closing(p)
      BY <1>5 DEF Disconnect, EndFinal, Closing
    <2>3. CASE alive[p]
      BY <2>1, <2>2, <2>3, LinkClose DEF Link!Next
    <2>4. CASE ~alive[p]
      <3>1. alive' = alive BY <2>1, <2>4 DEF TypeOK
      <3> QED BY <2>1, <3>1, LinkStutter
    <2> QED BY <2>3, <2>4
  <1>6. CASE UNCHANGED vars BY <1>6, LinkStutter
  <1> QED BY <1>1, <1>2, <1>3, <1>4, <1>5, <1>6, LinkReceive DEF Next

\* The two applications cannot tell the transport, with its retransmissions, its
\* acknowledgements and a network that loses, duplicates and reorders, from a link
\* that hands every frame over once and in order until the call ends.
THEOREM TransportImplementsLink == Spec => ImplementsLink
  <1>1. Init => Link!Init
    <2>1. Init => received = [p \in Peers |-> <<>>]
      BY DEF Init, received, Accepted
    <2> QED BY <2>1 DEF Init, Link!Init
  <1>2. TypeOK /\ SeqNosAgree /\ TypeOK' /\ SeqNosAgree' /\ [Next]_vars
            => [Link!Next]_(Link!vars)
    BY LinkStep
  <1> QED BY <1>1, <1>2, TypeCorrect, SeqNosCorrect, PTL
       DEF Spec, ImplementsLink, Link!Spec

-----------------------------------------------------------------------------
(* What the link makes of the end of a call *)

Contains(frames, x) == \E i \in DOMAIN frames : frames[i] = x

\* Nobody's session is gone who did not send a HANGUP or was handed the other's
EndsExplained ==
    \A p \in Peers : alive[p] \/ Contains(sent[p], Hangup)
                              \/ Contains(received[p], Hangup)

\* What was handed over are the first of the frames sent
ReceivedFirst ==
    \A p \in Peers :
        /\ Len(received[p]) <= Len(sent[Other(p)])
        /\ \A i \in 1 .. Len(received[p]) : received[p][i] = sent[Other(p)][i]

LinkInv ==
    /\ alive \in [Peers -> BOOLEAN]
    /\ sent \in [Peers -> Seq(AllPayloads)]
    /\ received \in [Peers -> Seq(AllPayloads)]
    /\ EndsExplained /\ ReceivedFirst

LEMMA ContainsAppend ==
    ASSUME NEW S, NEW s \in Seq(S), NEW x \in S
    PROVE  /\ Append(s, x) \in Seq(S) /\ Contains(Append(s, x), x)
           /\ \A y : Contains(s, y) => Contains(Append(s, x), y)
           /\ Len(Append(s, x)) = Len(s) + 1 /\ Append(s, x)[Len(s) + 1] = x
           /\ \A i \in 1 .. Len(s) : Append(s, x)[i] = s[i]
<1>1. /\ Append(s, x) \in Seq(S) /\ Len(s) \in Nat /\ DOMAIN s = 1 .. Len(s)
      /\ Len(Append(s, x)) = Len(s) + 1 /\ Append(s, x)[Len(s) + 1] = x
      /\ \A i \in 1 .. Len(s) : Append(s, x)[i] = s[i]
      /\ DOMAIN Append(s, x) = 1 .. Len(s) + 1
  OBVIOUS
<1>2. Len(s) + 1 \in 1 .. Len(s) + 1 /\ 1 .. Len(s) \subseteq 1 .. Len(s) + 1
  BY <1>1
<1> QED
  BY <1>1, <1>2 DEF Contains

\* Each end's frames stay where they are when one is added
LEMMA SentGrows ==
    ASSUME sent \in [Peers -> Seq(AllPayloads)], NEW p \in Peers,
           \/ sent' = sent
           \/ \E x \in AllPayloads : sent' = [sent EXCEPT ![p] = Append(@, x)]
    PROVE  /\ sent' \in [Peers -> Seq(AllPayloads)]
           /\ \A q \in Peers : \A y : Contains(sent[q], y) => Contains(sent'[q], y)
           /\ \A q \in Peers :
                 /\ Len(sent[q]) \in Nat /\ Len(sent'[q]) \in Nat
                 /\ Len(sent[q]) <= Len(sent'[q])
                 /\ \A i \in 1 .. Len(sent[q]) : sent'[q][i] = sent[q][i]
<1>1. \A q \in Peers : sent[q] \in Seq(AllPayloads) /\ Len(sent[q]) \in Nat
  OBVIOUS
<1>2. CASE sent' = sent
  <2>1. \A q \in Peers : Len(sent[q]) <= Len(sent[q])
    BY <1>1
  <2> QED
    BY <1>1, <1>2, <2>1
<1>3. CASE sent' # sent
  <2>1. PICK x \in AllPayloads : sent' = [sent EXCEPT ![p] = Append(@, x)]
    BY <1>3
  <2>2. /\ \A q \in Peers : q # p => sent'[q] = sent[q]
        /\ sent'[p] = Append(sent[p], x)
    BY <2>1
  <2>3. /\ Append(sent[p], x) \in Seq(AllPayloads)
        /\ Len(sent'[p]) = Len(sent[p]) + 1
        /\ \A y : Contains(sent[p], y) => Contains(sent'[p], y)
        /\ \A i \in 1 .. Len(sent[p]) : sent'[p][i] = sent[p][i]
    BY <1>1, <2>2, ContainsAppend
  <2>4. sent' \in [Peers -> Seq(AllPayloads)]
    BY <2>1, <2>3
  <2>5. /\ \A q \in Peers : Len(sent[q]) <= Len(sent[q])
        /\ Len(sent[p]) <= Len(sent[p]) + 1 /\ Len(sent[p]) + 1 \in Nat
    BY <1>1
  <2> QED
    BY <1>1, <2>2, <2>3, <2>4, <2>5
<1> QED
  BY <1>2, <1>3

\* The frame delivered is the next of those the other end sent
LEMMA LinkHandsOver ==
    ASSUME LinkInv, NEW p \in Peers, Link!CanReceive(p)
    PROVE  /\ Link!NextReceived(p) \in AllPayloads
           /\ Link!NextReceived(p) = sent[Other(p)][Len(received[p]) + 1]
           /\ Len(received[p]) + 1 <= Len(sent[Other(p)])
<1>1. Link!Other(p) = Other(p)
  BY DEF Link!Other, Other
<1>2. sent[Other(p)] \in Seq(AllPayloads) /\ received[p] \in Seq(AllPayloads)
  BY OtherPeer DEF LinkInv
<1>3. Len(received[p]) < Len(sent[Other(p)])
  BY <1>1 DEF Link!CanReceive
<1>4. Link!NextReceived(p) = sent[Other(p)][Len(received[p]) + 1]
  BY <1>1 DEF Link!NextReceived
<1>5. Len(received[p]) + 1 \in 1 .. Len(sent[Other(p)])
  BY <1>2, <1>3
<1> QED
  BY <1>2, <1>4, <1>5

LEMMA LinkInvStep ==
    ASSUME LinkInv, [Link!Next]_(Link!vars) PROVE LinkInv'
<1> DEFINE Grows(s, t, p) ==
        \/ t = s
        \/ \E x \in AllPayloads : t = [s EXCEPT ![p] = Append(@, x)]
<1>1. ASSUME NEW p \in Peers, Grows(sent, sent', p), UNCHANGED received,
             \/ UNCHANGED alive
             \/ /\ alive' = [alive EXCEPT ![p] = FALSE]
                /\ Contains(sent'[p], Hangup) \/ Contains(received[p], Hangup)
      PROVE  LinkInv'
  <2>1. /\ sent' \in [Peers -> Seq(AllPayloads)]
        /\ \A q \in Peers : \A y : Contains(sent[q], y) => Contains(sent'[q], y)
        /\ \A q \in Peers :
              /\ Len(sent[q]) \in Nat /\ Len(sent'[q]) \in Nat
              /\ Len(sent[q]) <= Len(sent'[q])
              /\ \A i \in 1 .. Len(sent[q]) : sent'[q][i] = sent[q][i]
    BY <1>1, SentGrows DEF LinkInv
  <2>2. EndsExplained'
    BY <1>1, <2>1 DEF LinkInv, EndsExplained
  <2>3. ReceivedFirst'
    <3> SUFFICES ASSUME NEW q \in Peers
                 PROVE  /\ Len(received[q]) <= Len(sent'[Other(q)])
                        /\ \A i \in 1 .. Len(received[q]) :
                              received[q][i] = sent'[Other(q)][i]
      BY <1>1 DEF ReceivedFirst, Other
    <3>1. /\ Other(q) \in Peers /\ Len(received[q]) \in Nat
          /\ Len(sent[Other(q)]) \in Nat /\ Len(sent'[Other(q)]) \in Nat
      BY <2>1, OtherPeer DEF LinkInv
    <3>2. \A i \in 1 .. Len(received[q]) : i \in 1 .. Len(sent[Other(q)])
      BY <3>1 DEF LinkInv, ReceivedFirst
    <3> QED
      BY <2>1, <3>1, <3>2 DEF LinkInv, ReceivedFirst
  <2>4. alive' \in [Peers -> BOOLEAN] /\ received' \in [Peers -> Seq(AllPayloads)]
    BY <1>1 DEF LinkInv
  <2> QED
    BY <2>1, <2>2, <2>3, <2>4 DEF LinkInv

<1>2. ASSUME NEW p \in Peers, Link!CanReceive(p), Grows(sent, sent', p),
             received' = [received EXCEPT ![p] = Append(@, Link!NextReceived(p))],
             UNCHANGED alive
      PROVE  LinkInv'
  <2>1. PICK x \in AllPayloads :
          /\ x = sent[Other(p)][Len(received[p]) + 1]
          /\ received' = [received EXCEPT ![p] = Append(@, x)]
    BY <1>2, LinkHandsOver
  <2>2. Len(received[p]) + 1 <= Len(sent[Other(p)])
    BY <1>2, LinkHandsOver
  <2>3. /\ \A q \in Peers : /\ received[q] \in Seq(AllPayloads)
                            /\ Len(received[q]) \in Nat
        /\ \A q \in Peers : q # p => received'[q] = received[q]
        /\ received'[p] = Append(received[p], x)
    BY <2>1 DEF LinkInv
  <2>4. /\ received' \in [Peers -> Seq(AllPayloads)]
        /\ \A q \in Peers : \A y : Contains(received[q], y) => Contains(received'[q], y)
    <3>1. received' \in [Peers -> Seq(AllPayloads)]
      <4>1. Append(received[p], x) \in Seq(AllPayloads)
        BY <2>3
      <4>2. received \in [Peers -> Seq(AllPayloads)]
        BY DEF LinkInv
      <4> QED
        BY <2>1, <4>1, <4>2
    <3>2. ASSUME NEW q \in Peers, NEW y, Contains(received[q], y)
          PROVE  Contains(received'[q], y)
      <4>1. CASE q = p
        <5>1. received[p] \in Seq(AllPayloads) /\ received'[p] = Append(received[p], x)
          BY <2>3
        <5>2. Contains(received[p], y) => Contains(Append(received[p], x), y)
          BY <5>1, ContainsAppend
        <5> QED
          BY <3>2, <4>1, <5>1, <5>2
      <4>2. CASE q # p
        BY <2>3, <3>2, <4>2
      <4> QED
        BY <4>1, <4>2
    <3> QED
      BY <3>1, <3>2
  <2>5. /\ sent' \in [Peers -> Seq(AllPayloads)]
        /\ \A q \in Peers : \A y : Contains(sent[q], y) => Contains(sent'[q], y)
        /\ \A q \in Peers :
              /\ Len(sent[q]) \in Nat /\ Len(sent'[q]) \in Nat
              /\ Len(sent[q]) <= Len(sent'[q])
              /\ \A i \in 1 .. Len(sent[q]) : sent'[q][i] = sent[q][i]
    BY <1>2, SentGrows DEF LinkInv
  <2>6. EndsExplained'
    BY <1>2, <2>4, <2>5 DEF LinkInv, EndsExplained
  <2>7. ReceivedFirst'
    <3> SUFFICES ASSUME NEW q \in Peers
                 PROVE  /\ Len(received'[q]) <= Len(sent'[Other(q)])
                        /\ \A i \in 1 .. Len(received'[q]) :
                              received'[q][i] = sent'[Other(q)][i]
      BY DEF ReceivedFirst, Other
    <3>1. Other(q) \in Peers /\ Other(p) \in Peers
      BY OtherPeer
    <3>2. /\ Len(received'[q]) <= Len(sent[Other(q)])
          /\ \A i \in 1 .. Len(received'[q]) :
                received'[q][i] = sent[Other(q)][i]
      <4>1. CASE q = p
        <5>1. /\ Len(received'[p]) = Len(received[p]) + 1
              /\ received'[p][Len(received[p]) + 1] = x
              /\ \A i \in 1 .. Len(received[p]) : received'[p][i] = received[p][i]
          BY <2>3, ContainsAppend
        <5>2. \A i \in 1 .. Len(received[p]) + 1 :
                i \in 1 .. Len(received[p]) \/ i = Len(received[p]) + 1
          BY <2>3
        <5> QED
          BY <2>1, <2>2, <4>1, <5>1, <5>2 DEF LinkInv, ReceivedFirst
      <4>2. CASE q # p
        BY <2>3, <4>2 DEF LinkInv, ReceivedFirst
      <4> QED
        BY <4>1, <4>2
    <3>3. Len(received'[q]) \in Nat
      BY <2>4
    <3>4. /\ Len(sent[Other(q)]) \in Nat /\ Len(sent'[Other(q)]) \in Nat
          /\ Len(sent[Other(q)]) <= Len(sent'[Other(q)])
      BY <2>5, <3>1
    <3>5. \A i \in 1 .. Len(received'[q]) : i \in 1 .. Len(sent[Other(q)])
      BY <3>2, <3>3, <3>4
    <3>6. \A i \in 1 .. Len(received'[q]) : received'[q][i] = sent'[Other(q)][i]
      BY <2>5, <3>1, <3>2, <3>5
    <3>7. Len(received'[q]) <= Len(sent'[Other(q)])
      BY <3>2, <3>3, <3>4
    <3> QED
      BY <3>6, <3>7
  <2>8. alive' \in [Peers -> BOOLEAN]
    BY <1>2 DEF LinkInv
  <2> QED
    BY <2>4, <2>5, <2>6, <2>7, <2>8 DEF LinkInv
<1>3. ASSUME NEW p \in Peers, Link!Send(p) PROVE LinkInv'
  BY <1>1, <1>3 DEF Link!Send
<1>4. ASSUME NEW p \in Peers, Link!Deliver(p) PROVE LinkInv'
  BY <1>2, <1>4 DEF Link!Deliver
<1>5. ASSUME NEW p \in Peers, Link!DeliverAndReply(p) PROVE LinkInv'
  BY <1>2, <1>5 DEF Link!DeliverAndReply
<1>6. ASSUME NEW p \in Peers, Link!HangUp(p) PROVE LinkInv'
  <2>1. /\ Hangup \in AllPayloads /\ sent[p] \in Seq(AllPayloads)
        /\ sent' = [sent EXCEPT ![p] = Append(@, Hangup)]
    BY <1>6 DEF Link!HangUp, AllPayloads, LinkInv
  <2>2. sent'[p] = Append(sent[p], Hangup)
    BY <2>1 DEF LinkInv
  <2>3. Contains(sent'[p], Hangup)
    BY <2>1, <2>2, ContainsAppend
  <2> QED
    BY <1>1, <1>6, <2>1, <2>3 DEF Link!HangUp
<1>7. ASSUME NEW p \in Peers, Link!Close(p) PROVE LinkInv'
  BY <1>1, <1>7 DEF Link!Close, Link!Has, Contains
<1>8. CASE UNCHANGED Link!vars
  BY <1>8 DEF Link!vars, LinkInv, EndsExplained, ReceivedFirst, Other
<1> QED
  BY <1>3, <1>4, <1>5, <1>6, <1>7, <1>8 DEF Link!Next

\* A session is gone only if its own end sent a HANGUP, be it iax_hangup or the
\* timeout of iax_get_event, or was handed the other's; and what it was handed up
\* to then are the first of the frames the other end sent.
THEOREM EndsAreExplained == Spec => [](EndsExplained /\ ReceivedFirst)
<1>1. Link!Init => LinkInv
  <2> SUFFICES ASSUME Link!Init PROVE LinkInv
    OBVIOUS
  <2>1. /\ \A p \in Peers : alive[p] /\ received[p] = <<>> /\ sent[p] = <<>>
        /\ alive \in [Peers -> BOOLEAN]
        /\ sent \in [Peers -> Seq(AllPayloads)]
        /\ received \in [Peers -> Seq(AllPayloads)]
    BY DEF Link!Init
  <2>2. ReceivedFirst
    BY <2>1, OtherPeer DEF ReceivedFirst
  <2> QED
    BY <2>1, <2>2 DEF LinkInv, EndsExplained
<1>2. LinkInv /\ [Link!Next]_(Link!vars) => LinkInv'
  BY LinkInvStep
<1>3. LinkInv => EndsExplained /\ ReceivedFirst
  BY DEF LinkInv
<1> QED
  BY <1>1, <1>2, <1>3, TransportImplementsLink, PTL DEF ImplementsLink, Link!Spec

=============================================================================
