---------------------------- MODULE ReliableLink ----------------------------
(***************************************************************************)
(* What libiax2 promises the two applications of a call about full frames: *)
(* each is handed the other's frames once each and in the order they were  *)
(* sent, until one of them hangs up, has its call hung up for it, or is    *)
(* handed the other's final frame.  IaxTransport implements it.            *)
(***************************************************************************)
EXTENDS Naturals, Sequences

CONSTANTS
    Peers,        \* the two ends of the call
    Payloads,     \* what a full frame carries
    Final         \* the payload that ends the call, a member of Payloads

VARIABLES
    up,           \* has this end a session?
    sent,         \* what this end sent
    received      \* what this end was handed

vars == <<up, sent, received>>

Other(p) == CHOOSE q \in Peers : q # p

Init ==
    /\ up = [p \in Peers |-> TRUE]
    /\ sent = [p \in Peers |-> <<>>]
    /\ received = [p \in Peers |-> <<>>]

CanReceive(p) == Len(received[p]) < Len(sent[Other(p)])

NextReceived(p) == sent[Other(p)][Len(received[p]) + 1]

Send(p) ==
    /\ up[p]
    /\ \E x \in Payloads : sent' = [sent EXCEPT ![p] = Append(@, x)]
    /\ UNCHANGED <<up, received>>

Deliver(p) ==
    /\ up[p] /\ CanReceive(p)
    /\ received' = [received EXCEPT ![p] = Append(@, NextReceived(p))]
    /\ UNCHANGED <<up, sent>>

DeliverAndReply(p) ==
    /\ up[p] /\ CanReceive(p)
    /\ received' = [received EXCEPT ![p] = Append(@, NextReceived(p))]
    /\ \E x \in Payloads : sent' = [sent EXCEPT ![p] = Append(@, x)]
    /\ UNCHANGED up

HangUp(p) ==
    /\ up[p]
    /\ up' = [up EXCEPT ![p] = FALSE]
    /\ sent' = [sent EXCEPT ![p] = Append(@, Final)]
    /\ UNCHANGED received

Has(frames, x) == \E i \in DOMAIN frames : frames[i] = x

\* Only an end that sent its final frame before, or was handed the other's,
\* closes without sending one
Close(p) ==
    /\ up[p]
    /\ Has(sent[p], Final) \/ Has(received[p], Final)
    /\ up' = [up EXCEPT ![p] = FALSE]
    /\ UNCHANGED <<sent, received>>

Next == \E p \in Peers :
    Send(p) \/ Deliver(p) \/ DeliverAndReply(p) \/ HangUp(p) \/ Close(p)

Spec == Init /\ [][Next]_vars
=============================================================================
