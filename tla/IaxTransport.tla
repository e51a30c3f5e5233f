---------------------------- MODULE IaxTransport ----------------------------
(***************************************************************************)
(* The reliable transport of libiax2 (libiax2/src/iax.c): the full frames  *)
(* two iax_sessions exchange over UDP.                                     *)
(*                                                                         *)
(* A session numbers its full frames with an unsigned char (oseqno), every *)
(* full frame carries the number of the next frame it expects (iseqno) as  *)
(* a cumulative acknowledgement, and each reliable frame waits in schedq   *)
(* until it is acknowledged, has been retried maxretries times, or its     *)
(* session is destroyed.  The modulus of the counters is SeqMod (256).     *)
(*                                                                         *)
(* A step is one pass of iax_get_event over one due timer or one datagram, *)
(* or one call of the sending API.  Time is abstracted: any frame in       *)
(* schedq may be the one that is due.  The datagram network loses,         *)
(* duplicates and reorders.                                                *)
(*                                                                         *)
(* An operator marked "Mutant" is a plausible mistake in the operator that *)
(* follows it.  It is no part of the specification: it shows which         *)
(* property would catch the mistake.                                       *)
(***************************************************************************)
EXTENDS Integers, Sequences, FiniteSets

CONSTANTS
    Peers,        \* the two ends of the call
    Payloads,     \* what the application puts in a full frame
    Quiet,        \* payloads of an unknown CONTROL, HTML or frame type
    SeqMod,       \* 256: values of an unsigned char
    Window,       \* bound: unacknowledged frames an application has open
    MaxRetries,   \* maxretries, 10 in the code
    MaxSend,      \* bound: frames each end's application sends
    MaxNet,       \* bound: datagrams in flight at once
    Failing       \* bound: the peers whose sendto may fail on a final frame

Hangup == "hangup"    \* IAX_COMMAND_HANGUP, the frame sent with final = 1
Ping == "ping"        \* IAX_COMMAND_PING, sent by the ping timer

ASSUME PeersAssumption == \E p, q \in Peers : p # q /\ Peers = {p, q}
ASSUME PayloadsAssumption == Quiet \subseteq Payloads /\ Hangup \notin Payloads
                             /\ Ping \notin Payloads
ASSUME NumbersAssumption ==
    /\ SeqMod \in Nat /\ Window \in Nat \ {0} /\ Window < SeqMod - 1
    /\ MaxRetries \in Nat /\ MaxNet \in Nat \ {0}
    /\ MaxSend \in [Peers -> Nat]

VARIABLES
    \* struct iax_session
    oseqno,       \* our next outgoing sequence number
    rseqno,       \* next sequence number they have not yet acknowledged
    iseqno,       \* next incoming sequence number
    aseqno,       \* last acknowledged sequence number
    alive,        \* the session is on the sessions list
    \* the rest of the system
    schedq,       \* reliable frames waiting for their retransmission time
    net,          \* datagrams in flight
    \* history, read by no handler
    sent,         \* every payload sent reliably, in order
    delivered,    \* the frames accepted, by number, in order
    acked         \* how many of our frames were acknowledged

session == <<oseqno, rseqno, iseqno, aseqno, alive>>
history == <<sent, delivered, acked>>
vars == <<session, schedq, net, history>>

AllPayloads == Payloads \cup {Hangup, Ping}
Other(p) == CHOOSE q \in Peers : q # p
SeqNo == 0 .. SeqMod - 1

\* How many frames p has sent, and how many it has accepted
Sent(p) == Len(sent[p])
Accepted(p) == Len(delivered[p])

\* (unsigned char) x
Byte(x) == x % SeqMod

\* How far y is ahead of x on the circle of sequence numbers
Dist(x, y) == Byte(y - x)

(***************************************************************************)
(* A frame is what iax_send builds.  n and a are history: which frame of   *)
(* the sender this is (0 for ACK and VNAK, which are not numbered) and how *)
(* many frames of the receiver it acknowledges.                            *)
(***************************************************************************)
Frame == [n : Nat, a : Nat, oseqno : SeqNo, iseqno : SeqNo,
          retries : -1 .. MaxRetries]
Packet == [src : Peers, type : {"data", "ack", "vnak"}, n : Nat, a : Nat,
           oseqno : SeqNo, iseqno : SeqNo]

TypeOK ==
    /\ oseqno \in [Peers -> SeqNo] /\ rseqno \in [Peers -> SeqNo]
    /\ iseqno \in [Peers -> SeqNo] /\ aseqno \in [Peers -> SeqNo]
    /\ alive \in [Peers -> BOOLEAN]
    /\ schedq \in [Peers -> SUBSET Frame]
    /\ net \in SUBSET Packet
    /\ sent \in [Peers -> Seq(AllPayloads)]
    /\ delivered \in [Peers -> Seq(Nat)]
    /\ acked \in [Peers -> Nat]

Init ==
    /\ oseqno = [p \in Peers |-> 0]
    /\ rseqno = [p \in Peers |-> 0]
    /\ iseqno = [p \in Peers |-> 0]
    /\ aseqno = [p \in Peers |-> 0]
    /\ alive = [p \in Peers |-> TRUE]
    /\ schedq = [p \in Peers |-> {}]
    /\ net = {}
    /\ sent = [p \in Peers |-> <<>>]
    /\ delivered = [p \in Peers |-> <<>>]
    /\ acked = [p \in Peers |-> 0]

-----------------------------------------------------------------------------
(* Sending *)

\* What iax_xmit_frame hands to sendto for a frame of p's schedq
OnWire(p, f) == [src |-> p, type |-> "data", n |-> f.n, a |-> f.a,
                 oseqno |-> f.oseqno, iseqno |-> f.iseqno]

\* Any of the datagrams may be lost on the way; those that are not join ms
Xmit(ms, packets) == \E kept \in SUBSET packets :
    /\ net' = ms \cup kept
    /\ Cardinality(net') <= MaxNet

(***************************************************************************)
(* Maximum datagram lifetime and frames outstanding.  The code numbers     *)
(* frames modulo 256 and limits neither, so it relies on both: at most     *)
(* limit frames are unacknowledged, and nothing in existence (in flight or *)
(* still in a schedq) is SeqMod - 1 or more frames old.                    *)
(***************************************************************************)
Fresh(p, limit) ==
    LET q == Other(p)
        now == Sent(p) + 1
    IN  /\ now - acked[p] <= limit
        /\ \A m \in net : (m.src = p /\ m.type = "data") => now - m.n < SeqMod - 1
        /\ \A f \in schedq[p] : now - f.n < SeqMod - 1
        /\ \A m \in net : m.src = q => now - m.a < SeqMod
        /\ \A f \in schedq[q] : now - f.a < SeqMod

\* iax_send of a reliable frame whose session expects frame number expected,
\* having accepted got frames
NewFrame(p, expected, got) ==
    [n |-> Sent(p) + 1, a |-> got, oseqno |-> oseqno[p],
     iseqno |-> expected, retries |-> MaxRetries]

\* An ACK or VNAK: sent at once, never retried, takes no sequence number
Immediate(p, kind, seqno, expected, got) ==
    [src |-> p, type |-> kind, n |-> 0, a |-> got, oseqno |-> seqno,
     iseqno |-> expected]

\* Mutant: the counter is wider than an unsigned char
SendReliableUnwrapped(p, x, f) ==
    /\ oseqno' = [oseqno EXCEPT ![p] = @ + 1]
    /\ aseqno' = [aseqno EXCEPT ![p] = f.iseqno]
    /\ sent' = [sent EXCEPT ![p] = Append(@, x)]

\* The state changes of iax_send(session, f, ts, -1, 0, 0, final)
SendReliable(p, x, f) ==
    /\ oseqno' = [oseqno EXCEPT ![p] = Byte(@ + 1)]
    /\ aseqno' = [aseqno EXCEPT ![p] = f.iseqno]
    /\ sent' = [sent EXCEPT ![p] = Append(@, x)]

\* The final frame of a session in p's schedq: f->final of iax_send
IsFinal(p, f) == sent[p][f.n] = Hangup

\* iaxclient has hung up.  If the session is still there, sendto had failed.
Closing(p) == \E f \in schedq[p] : IsFinal(p, f)

\* send_command from the application or from the ping timer
Send(p, x) ==
    LET f == NewFrame(p, iseqno[p], Accepted(p)) IN
    /\ alive[p] /\ ~Closing(p)
    /\ Fresh(p, Window)
    /\ SendReliable(p, x, f)
    /\ schedq' = [schedq EXCEPT ![p] = @ \cup {f}]
    /\ Xmit(net, {OnWire(p, f)})
    /\ UNCHANGED <<rseqno, iseqno, alive, delivered, acked>>

AppSend(p) == \E x \in Payloads : Sent(p) < MaxSend[p] /\ Send(p, x)

\* send_ping.  Bound: the ping that is explored is the one to a dead peer; to
\* a live one it is a frame like any other.
SendPing(p) == ~alive[Other(p)] /\ Sent(p) <= MaxSend[p] /\ Send(p, Ping)

Cancel(frames) == {[f EXCEPT !.retries = -1] : f \in frames}

(***************************************************************************)
(* send_command_final: queue the frame, send it, and then destroy_session, *)
(* which marks every frame of the session, this one included, as sent.  If *)
(* sendto fails the session is not destroyed: it lives on, without anybody *)
(* in iaxclient who knows of it, until its final frame is done with.       *)
(***************************************************************************)
SendFinal(p, frames) ==
    LET f == NewFrame(p, iseqno[p], Accepted(p))
        queued == frames \cup {f}
    IN
    /\ Fresh(p, Window + 1)
    /\ SendReliable(p, Hangup, f)
    /\ \/ /\ schedq' = [schedq EXCEPT ![p] = Cancel(queued)]
          /\ alive' = [alive EXCEPT ![p] = FALSE]
          /\ Xmit(net, {OnWire(p, f)})
       \/ /\ p \in Failing
          /\ schedq' = [schedq EXCEPT ![p] = queued]
          /\ UNCHANGED <<alive, net>>
    /\ UNCHANGED <<rseqno, iseqno, delivered, acked>>

\* iax_hangup, called by the application
AppHangup(p) == alive[p] /\ ~Closing(p) /\ SendFinal(p, schedq[p])

-----------------------------------------------------------------------------
(* Timers: the frame branch of the schedq loop of iax_get_event *)

\* "It's been acked.  No need to send it."
Reap(p) == \E f \in schedq[p] :
    /\ f.retries < 0 /\ ~IsFinal(p, f)
    /\ schedq' = [schedq EXCEPT ![p] = @ \ {f}]
    /\ UNCHANGED <<session, net, history>>

\* Mutant: a retransmission takes the current sequence number
RetransmitRenumbered(p) == \E f \in schedq[p] :
    /\ f.retries > 0
    /\ schedq' = [schedq EXCEPT ![p] =
                     (@ \ {f}) \cup {[f EXCEPT !.retries = @ - 1]}]
    /\ Xmit(net, {[OnWire(p, f) EXCEPT !.oseqno = oseqno[p]]})
    /\ UNCHANGED <<session, history>>

\* Mutant: retries are not counted
RetransmitForever(p) == \E f \in schedq[p] :
    /\ f.retries > 0
    /\ Xmit(net, {OnWire(p, f)})
    /\ UNCHANGED <<schedq, session, history>>

Retransmit(p) == \E f \in schedq[p] :
    /\ f.retries > 0
    /\ schedq' = [schedq EXCEPT ![p] =
                     (@ \ {f}) \cup {[f EXCEPT !.retries = @ - 1]}]
    /\ Xmit(net, {OnWire(p, f)})
    /\ UNCHANGED <<session, history>>

\* Mutant: a frame out of retries is dropped and the session lives on
TimeoutDrops(p) == \E f \in schedq[p] :
    /\ f.retries = 0
    /\ alive[p] /\ ~Closing(p)
    /\ schedq' = [schedq EXCEPT ![p] = @ \ {f}]
    /\ UNCHANGED <<session, net, history>>

\* Retries exhausted: IAX_EVENT_TIMEOUT, on which iaxclient hangs up
Timeout(p) == \E f \in schedq[p] :
    /\ f.retries = 0
    /\ alive[p] /\ ~Closing(p)
    /\ SendFinal(p, schedq[p] \ {f})

\* The same when there is no call any more that iaxclient could hang up
TimeoutUnheard(p) == \E f \in schedq[p] :
    /\ f.retries = 0 /\ ~IsFinal(p, f)
    /\ alive[p] /\ Closing(p)
    /\ schedq' = [schedq EXCEPT ![p] = @ \ {f}]
    /\ UNCHANGED <<session, net, history>>

\* "If final, destroy the session": the final frame is acknowledged or out of
\* retries.  The session is there if sendto had failed.
EndFinal(p) == \E f \in schedq[p] :
    /\ f.retries <= 0 /\ IsFinal(p, f)
    /\ schedq' = [schedq EXCEPT ![p] = Cancel(@ \ {f})]
    /\ alive' = [alive EXCEPT ![p] = FALSE]
    /\ UNCHANGED <<oseqno, rseqno, iseqno, aseqno, net, history>>

-----------------------------------------------------------------------------
(* Receiving: iax_header_to_event *)

\* Mutant: every acknowledgement is believed
AnyAck(p, m) == TRUE

\* Is the acknowledgement within rseqno .. oseqno?
InWindow(p, m) == Dist(rseqno[p], m.iseqno) <= Dist(rseqno[p], oseqno[p])

\* The implicit acknowledgement every full frame carries
AckedFrames(p, m) ==
    IF InWindow(p, m)
    THEN {f \in schedq[p] : Dist(rseqno[p], f.oseqno) < Dist(rseqno[p], m.iseqno)}
    ELSE {}

AfterAck(p, m) ==
    (schedq[p] \ AckedFrames(p, m)) \cup Cancel(AckedFrames(p, m))

\* rseqno moves only with an acknowledgement inside the window
NoteAck(p, m) ==
    /\ rseqno' = [rseqno EXCEPT ![p] = IF InWindow(p, m) THEN m.iseqno ELSE @]
    /\ acked' = [acked EXCEPT ![p] =
                    IF InWindow(p, m) THEN @ + Dist(rseqno[p], m.iseqno) ELSE @]

\* The datagram may be a copy: delivering it need not take it off the network
Consume(m) == {net, net \ {m}}

\* "Already ack'd iax frames": acknowledge unless a reply already did
FinalAck(p, m) ==
    IF aseqno[p] # iseqno[p]
    THEN {Immediate(p, "ack", m.iseqno, iseqno[p], Accepted(p))}
    ELSE {}

\* ACK: nothing but its acknowledgement
RecvAck(p, m) ==
    /\ m.type = "ack"
    /\ NoteAck(p, m)
    /\ schedq' = [schedq EXCEPT ![p] = AfterAck(p, m)]
    /\ aseqno' = [aseqno EXCEPT ![p] = iseqno[p]]
    /\ \E ms \in Consume(m) : Xmit(ms, FinalAck(p, m))
    /\ UNCHANGED <<oseqno, iseqno, alive, sent, delivered>>

\* iax_handle_vnak: send again what the peer is missing.  It looks at every
\* frame of the session in schedq, those already acknowledged included.
Missing(p, m) ==
    LET base == IF InWindow(p, m) THEN m.iseqno ELSE rseqno[p]
    IN  {f \in schedq[p] : Dist(base, m.iseqno) <= Dist(base, f.oseqno)}

RecvVnak(p, m) ==
    /\ m.type = "vnak"
    /\ NoteAck(p, m)
    /\ schedq' = [schedq EXCEPT ![p] = AfterAck(p, m)]
    /\ aseqno' = [aseqno EXCEPT ![p] = iseqno[p]]
    /\ \E ms \in Consume(m) :
          Xmit(ms, {OnWire(p, f) : f \in Missing(p, m)} \cup FinalAck(p, m))
    /\ UNCHANGED <<oseqno, iseqno, alive, sent, delivered>>

\* Mutant: any frame is taken for the one we are waiting for
RecvAnyOrder(p, m) ==
    /\ m.type = "data"
    /\ NoteAck(p, m)
    /\ schedq' = [schedq EXCEPT ![p] = AfterAck(p, m)]
    /\ iseqno' = [iseqno EXCEPT ![p] = Byte(@ + 1)]
    /\ delivered' = [delivered EXCEPT ![p] = Append(@, m.n)]
    /\ net' \in Consume(m)
    /\ UNCHANGED <<oseqno, aseqno, alive, sent>>

\* The frame we are waiting for: count it and pass it on.  A Quiet frame
\* returns before the acknowledgement; others are acknowledged by an ACK.
RecvInOrder(p, m) ==
    LET expected == Byte(iseqno[p] + 1)
        got == Accepted(p) + 1
        x == sent[m.src][m.n]
        ack == x \notin Quiet /\ aseqno[p] # expected
    IN
    /\ m.type = "data" /\ m.oseqno = iseqno[p]
    /\ NoteAck(p, m)
    /\ schedq' = [schedq EXCEPT ![p] = AfterAck(p, m)]
    /\ iseqno' = [iseqno EXCEPT ![p] = expected]
    /\ delivered' = [delivered EXCEPT ![p] = Append(@, m.n)]
    /\ aseqno' = [aseqno EXCEPT ![p] = IF ack THEN expected ELSE @]
    /\ \E ms \in Consume(m) : Xmit(ms,
          IF ack THEN {Immediate(p, "ack", m.iseqno, expected, got)} ELSE {})
    /\ UNCHANGED <<oseqno, alive, sent>>

\* The same for a frame the library answers itself (AUTHREQ, REGAUTH): the
\* reply carries the acknowledgement and no ACK follows
RecvAndReply(p, m) ==
    LET expected == Byte(iseqno[p] + 1)
        x == sent[m.src][m.n]
        f == NewFrame(p, expected, Accepted(p) + 1)
    IN
    /\ m.type = "data" /\ m.oseqno = iseqno[p]
    /\ x \in Payloads \ Quiet
    /\ Sent(p) < MaxSend[p]
    /\ Fresh(p, Window)
    /\ NoteAck(p, m)
    /\ \E y \in Payloads : SendReliable(p, y, f)
    /\ schedq' = [schedq EXCEPT ![p] = AfterAck(p, m) \cup {f}]
    /\ iseqno' = [iseqno EXCEPT ![p] = expected]
    /\ delivered' = [delivered EXCEPT ![p] = Append(@, m.n)]
    /\ \E ms \in Consume(m) : Xmit(ms, {OnWire(p, f)})
    /\ UNCHANGED alive

\* Mutant: the reply to a frame out of order acknowledges that frame
RecvOutOfOrderAcks(p, m) ==
    /\ m.type = "data" /\ m.oseqno # iseqno[p]
    /\ NoteAck(p, m)
    /\ schedq' = [schedq EXCEPT ![p] = AfterAck(p, m)]
    /\ aseqno' = [aseqno EXCEPT ![p] = iseqno[p]]
    /\ \E ms \in Consume(m) :
          Xmit(ms, {Immediate(p, "ack", m.iseqno, Byte(m.oseqno + 1), Accepted(p))})
    /\ UNCHANGED <<oseqno, iseqno, alive, sent, delivered>>

\* Already seen (behind us by less than half the circle): ACK it again.
\* Ahead of us: ask for what is missing with a VNAK.
RecvOutOfOrder(p, m) ==
    LET seen == Dist(m.oseqno, iseqno[p]) < SeqMod \div 2
        kind == IF seen THEN "ack" ELSE "vnak"
        seqno == IF seen THEN m.iseqno ELSE iseqno[p]
    IN
    /\ m.type = "data" /\ m.oseqno # iseqno[p]
    /\ NoteAck(p, m)
    /\ schedq' = [schedq EXCEPT ![p] = AfterAck(p, m)]
    /\ aseqno' = [aseqno EXCEPT ![p] = iseqno[p]]
    /\ \E ms \in Consume(m) :
          Xmit(ms, {Immediate(p, kind, seqno, iseqno[p], Accepted(p))})
    /\ UNCHANGED <<oseqno, iseqno, alive, sent, delivered>>

Receive(p) == \E m \in net :
    /\ m.src = Other(p) /\ alive[p]
    /\ \/ RecvAck(p, m)
       \/ RecvVnak(p, m)
       \/ RecvInOrder(p, m)
       \/ RecvAndReply(p, m)
       \/ RecvOutOfOrder(p, m)

\* Mutant: the session is destroyed by any event that is freed
DisconnectAny(p) ==
    /\ alive[p] /\ delivered[p] # <<>>
    /\ alive' = [alive EXCEPT ![p] = FALSE]
    /\ schedq' = [schedq EXCEPT ![p] = Cancel(@)]
    /\ UNCHANGED <<oseqno, rseqno, iseqno, aseqno, net, history>>

\* The HANGUP event leaves the jitter buffer; iax_event_free destroys the session
Disconnect(p) ==
    /\ alive[p]
    /\ \E i \in DOMAIN delivered[p] : sent[Other(p)][delivered[p][i]] = Hangup
    /\ alive' = [alive EXCEPT ![p] = FALSE]
    /\ schedq' = [schedq EXCEPT ![p] = Cancel(@)]
    /\ UNCHANGED <<oseqno, rseqno, iseqno, aseqno, net, history>>

\* A datagram is lost, or arrives for a session that no longer exists
Lose == \E m \in net :
    /\ net' = net \ {m}
    /\ UNCHANGED <<session, schedq, history>>

Next ==
    \/ Lose
    \/ \E p \in Peers :
          \/ AppSend(p) \/ SendPing(p) \/ AppHangup(p)
          \/ Reap(p) \/ Retransmit(p) \/ Timeout(p)
          \/ TimeoutUnheard(p) \/ EndFinal(p)
          \/ Receive(p) \/ Disconnect(p)

Spec == Init /\ [][Next]_vars

\* The processing thread keeps running, so every timer fires and a HANGUP
\* event leaves the jitter buffer; datagrams have a finite lifetime.
Fairness ==
    /\ WF_vars(Lose)
    /\ \A p \in Peers :
          /\ WF_vars(Reap(p)) /\ WF_vars(Retransmit(p)) /\ WF_vars(Timeout(p))
          /\ WF_vars(TimeoutUnheard(p)) /\ WF_vars(EndFinal(p))
          /\ WF_vars(SendPing(p)) /\ WF_vars(Disconnect(p))

FairSpec == Spec /\ Fairness

-----------------------------------------------------------------------------
(* Properties *)

\* What one application is handed is a prefix of what the other sent: no full
\* frame is lost, repeated or reordered, whatever the network does, retries
\* and sequence numbers wrapping around included (iax_header_to_event).
InOrder == \A p \in Peers :
    /\ Accepted(p) <= Sent(Other(p))
    /\ \A i \in 1 .. Accepted(p) : delivered[p][i] = i

\* The session of a call never gives up on a frame the peer does not have: a
\* frame not yet accepted is in schedq with retries left to send it.  This is
\* what the implicit acknowledgement window protects from stale acknowledgements.
\* Only a session that outlived its call, its HANGUP not sent, may give up.
NoFrameForgotten == \A p \in Peers : alive[p] /\ ~Closing(p) =>
    \A n \in Accepted(Other(p)) + 1 .. Sent(p) :
        \E f \in schedq[p] : f.n = n /\ f.retries >= 0

\* rseqno never runs ahead of what the peer has accepted, nor backwards.
AckSound ==
    /\ \A p \in Peers : acked[p] <= Accepted(Other(p))
    /\ \A p \in Peers : rseqno[p] = Byte(acked[p])

\* What the history says of the counters of one direction
CountersAgree == \A p \in Peers :
    /\ acked[p] <= Accepted(Other(p)) /\ Accepted(Other(p)) <= Sent(p)
    /\ Sent(p) - acked[p] < SeqMod
    /\ rseqno[p] = Byte(acked[p])
    /\ oseqno[p] = Byte(Sent(p))
    /\ iseqno[p] = Byte(Accepted(p))

\* A numbered frame of p carries the number it should, acknowledges what p
\* accepted, and is young enough for both to be unambiguous.
AckAgrees(p, f) ==
    /\ f.a <= Accepted(p)
    /\ f.iseqno = Byte(f.a)
    /\ Sent(Other(p)) - f.a < SeqMod
NumberAgrees(p, f) ==
    /\ f.n \in 1 .. Sent(p)
    /\ f.oseqno = Byte(f.n - 1)
    /\ Sent(p) - f.n < SeqMod - 1

FramesAgree == \A p \in Peers : \A f \in schedq[p] :
    AckAgrees(p, f) /\ NumberAgrees(p, f)

PacketsAgree == \A m \in net :
    AckAgrees(m.src, m) /\ (m.type = "data" => NumberAgrees(m.src, m))

\* Everything not yet known to be accepted is still being retransmitted
Pending == \A p \in Peers : alive[p] /\ ~Closing(p) =>
    \A n \in acked[p] + 1 .. Sent(p) :
        \E f \in schedq[p] : f.n = n /\ f.retries >= 0

\* Every sequence number and every acknowledgement in a counter, in schedq and
\* on the wire stands for the frame the history says, although all of them are
\* unsigned chars that wrap around.  It is inductive, and the three invariants
\* above follow from it.
SeqNosAgree ==
    CountersAgree /\ FramesAgree /\ PacketsAgree /\ Pending /\ InOrder

\* A frame is eventually accepted by the peer, or one of the two sessions ends.
EventuallyAccepted == \A p \in Peers : \A n \in 1 .. MaxSend[p] :
    Sent(p) >= n ~>
        (Accepted(Other(p)) >= n \/ ~alive[p] \/ ~alive[Other(p)])

\* When one side hangs up the other side's session ends too, even if the
\* HANGUP, which is sent only once, is lost: its pings time out.
PeerLearns == \A p \in Peers : ~alive[p] ~> ~alive[Other(p)]

\* The frames an application was handed, as payloads
received == [p \in Peers |->
    [i \in 1 .. Accepted(p) |-> sent[Other(p)][delivered[p][i]]]]

Link == INSTANCE ReliableLink WITH
    Payloads <- AllPayloads, Final <- Hangup, up <- alive

\* The transport implements a link that hands over every frame once, in order,
\* and on which a session ends only with its own HANGUP or the other's: whatever
\* iax_header_to_event and the timers of iax_get_event do is a step of it.
ImplementsLink == Link!Spec

=============================================================================
