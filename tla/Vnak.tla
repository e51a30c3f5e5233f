-------------------------------- MODULE Vnak --------------------------------
(***************************************************************************)
(* iax_handle_vnak of libiax2: the peer missed a frame, and every frame of *)
(* the session from there on is sent again.  The function walks schedq,    *)
(* which is ordered by retransmission time, collects what is due in a list *)
(* ordered by oseqno, and transmits the list.  What is due is decided in   *)
(* unsigned chars, modulo Modulus; the list is ordered by ints.             *)
(*                                                                         *)
(* IaxTransport sends the same frames as a set; this module is about the   *)
(* order.  Each initial state is a schedq and a VNAK, the one step is the  *)
(* call.                                                                   *)
(***************************************************************************)
EXTENDS Integers, Sequences, FiniteSets, SequencesExt

CONSTANTS
    Modulus,   \* 256: values of an unsigned char
    Window,   \* bound: frames of the session not yet acknowledged
    Old       \* bound: acknowledged frames still in schedq, stale VNAKs

ASSUME NumbersAssumption ==
    /\ Modulus \in Nat /\ Window \in Nat \ {0} /\ Old \in Nat
    /\ Window + Old < Modulus

VARIABLES
    rseqno,   \* the session's next number they have not yet acknowledged
    oseqno,   \* the session's next outgoing number
    iseqno,   \* the number the VNAK asks for
    schedq,   \* oseqno of the frames in schedq, by retransmission time
    wire      \* oseqno of the frames transmitted, in order

vars == <<rseqno, oseqno, iseqno, schedq, wire>>

SeqNo == 0 .. Modulus - 1

\* (unsigned char) (y - x): how far y is ahead of x
Dist(x, y) == (y - x) % Modulus

Unacked == {x \in SeqNo : Dist(rseqno, x) < Dist(rseqno, oseqno)}

\* iax_header_to_event has moved rseqno to iseqno, unless the VNAK is stale.
\* Frames sent and retransmitted at various times are in any order in schedq.
Init ==
    /\ rseqno \in SeqNo
    /\ \E n \in 1 .. Window : oseqno = (rseqno + n) % Modulus
    /\ \E k \in 0 .. Old : iseqno = (rseqno - k) % Modulus
    /\ \E k \in 0 .. Old : schedq \in
          SetToSeqs(Unacked \cup {(rseqno - i) % Modulus : i \in 1 .. k})
    /\ wire = <<>>

\* Mutant: only frames after the one the peer asks for, as the draft has it
DueAfter(x) == Dist(rseqno, iseqno) < Dist(rseqno, x)

\* Is the frame at or after the one the peer asks for?
Due(x) == Dist(rseqno, iseqno) <= Dist(rseqno, x)

\* Mutant: the frame goes to the end of the list
AddLast(list, x) == Append(list, x)

\* The frame goes before the first one of the list that is, as an int, further
\* from rseqno
Insert(list, x) ==
    LET later == {i \in DOMAIN list : list[i] - rseqno > x - rseqno}
        place == IF later = {} THEN Len(list) + 1
                 ELSE CHOOSE i \in later : \A j \in later : i <= j
    IN  InsertAt(list, place, x)

\* The list after the first n frames of schedq
Collected[n \in 0 .. Len(schedq)] ==
    IF n = 0 THEN <<>>
    ELSE IF Due(schedq[n]) THEN Insert(Collected[n - 1], schedq[n])
    ELSE Collected[n - 1]

\* The walk along schedq, and transmit_frame for each frame of the list
iax_handle_vnak ==
    /\ wire = <<>>
    /\ wire' = Collected[Len(schedq)]
    /\ UNCHANGED <<rseqno, oseqno, iseqno, schedq>>

Next == iax_handle_vnak

Spec == Init /\ [][Next]_vars

-----------------------------------------------------------------------------

Called == wire # <<>>

\* A VNAK has every unacknowledged frame sent again, once each; a stale one
\* has none of them sent.
ResendsUnacked == Called =>
    \A x \in Unacked :
        Cardinality({i \in DOMAIN wire : wire[i] = x})
            = (IF iseqno = rseqno THEN 1 ELSE 0)

\* The comment of iax_handle_vnak: the frames are arranged "in ascending order
\* of their oseqno", taking "into account sequence number wrap-arounds".
Ascending == \A i, j \in DOMAIN wire :
    (i < j /\ wire[i] \in Unacked /\ wire[j] \in Unacked) =>
        Dist(rseqno, wire[i]) < Dist(rseqno, wire[j])

\* They are, as long as the window does not wrap around
AscendingUnwrapped == rseqno <= oseqno => Ascending

=============================================================================
