------------------------------ MODULE Sessions ------------------------------
(***************************************************************************)
(* The iax_sessions of libiax2 as memory: who points to them, and who      *)
(* frees them.  A session is referred to by address from three places: the *)
(* call appearances and the registration of iaxclient_lib.c, and the       *)
(* entries of schedq in iax.c, which outlive it.  free makes its address   *)
(* available to the next iax_session_new.                                  *)
(*                                                                         *)
(* A step is a pass of iaxc_service_network over one timer, one datagram   *)
(* or one event, a refresh of the registrations, or a call from fgcom; all *)
(* of them hold iaxc_lock.  What the frames say is in IaxTransport, which  *)
(* appearance a call takes and when it is dumped is in Fgcom; here any may *)
(* be.  Frames of one session in the same condition are one element.       *)
(* malloc does not fail.  What is read through a pointer to a freed        *)
(* session is what was there: free leaves it alone.                        *)
(*                                                                         *)
(* An operator marked "Mutant" is a plausible mistake in the operator that *)
(* follows it.  It is no part of the specification: it shows which         *)
(* property would catch the mistake.                                       *)
(***************************************************************************)
EXTENDS Integers

CONSTANTS
    Addresses,    \* what malloc returns for a struct iax_session
    NULL,         \* the null pointer
    Appearances,  \* indices of calls
    MaxSessions,  \* bound: sessions ever made.  callnums does not wrap around
    Reuse         \* can malloc return an address a final frame points to?

ASSUME AddressesAssumption == NULL \notin Addresses
ASSUME BoundsAssumption == MaxSessions \in Nat /\ Reuse \in BOOLEAN

VARIABLES
    sessions,      \* callno of the session at an address, 0 if there is none
    callnums,      \* the number of the next session
    jb,            \* what its jitter buffer holds, of what matters here
    calls,         \* the session of each appearance
    registration,  \* the session of the registration
    registered,    \* is the registration "never" made, "listed", or "removed"?
    schedq,        \* frames to send again, and ping timers
    poked          \* history: did a POKE free a session iaxclient points to?

memory == <<sessions, callnums, jb>>
vars == <<memory, calls, registration, registered, schedq, poked>>

CallNo == 1 .. MaxSessions

\* A pointer to a session.  callno is history: which session it was set to.
\* An appearance is free (IAXC_CALL_STATE_FREE) if and only if it has none.
Pointer == [session : Addresses, callno : CallNo]
None == [session |-> NULL, callno |-> 0]

\* What waits in a jitter buffer.  The other events matter to the registration
\* only, whenever they come out (HearReply).
Events == {"connect", "hangup"}

\* struct iax_sched.  A frame with retries < 0 has been acknowledged; a final
\* frame is a HANGUP or REJECT; callno is history.
Entry == [kind : {"frame", "final", "ping"}, session : Addresses,
          callno : CallNo, retries : {-1, 1}]
Sched(kind, a, n) == [kind |-> kind, session |-> a, callno |-> n, retries |-> 1]

TypeOK ==
    /\ sessions \in [Addresses -> {0} \cup CallNo]
    /\ callnums \in 1 .. MaxSessions + 1
    /\ jb \in [Addresses -> SUBSET Events]
    /\ calls \in [Appearances -> Pointer \cup {None}]
    /\ registration \in Pointer \cup {None}
    /\ registered \in {"never", "listed", "removed"}
    /\ schedq \subseteq Entry
    /\ poked \in BOOLEAN

\* iaxc_initialize, before iaxc_register
Init ==
    /\ sessions = [a \in Addresses |-> 0]
    /\ callnums = 1
    /\ jb = [a \in Addresses |-> {}]
    /\ calls = [c \in Appearances |-> None]
    /\ registration = None /\ registered = "never"
    /\ schedq = {} /\ poked = FALSE

-----------------------------------------------------------------------------
(* Making and destroying a session *)

\* iax_session_new at address a, when the sessions are those in live
Allocates(a, live) ==
    /\ callnums <= MaxSessions
    /\ live[a] = 0
    /\ Reuse \/ \A e \in schedq : e.kind = "final" => e.session # a

iax_session_new(a, live, buffers) ==
    /\ Allocates(a, live)
    /\ sessions' = [live EXCEPT ![a] = callnums]
    /\ jb' = buffers
    /\ callnums' = callnums + 1

New(a) == [session |-> a, callno |-> callnums]

\* Mutant: the frames of the session are left to be sent again
MarkSentNot(q, a) == q

MarkedSent(e) == [e EXCEPT !.retries = -1]

\* destroy_session: "Just mark these frames as if they've been sent"
MarkSent(q, a) ==
    {IF e.session = a /\ e.kind # "ping" THEN MarkedSent(e) ELSE e : e \in q}

\* The sessions without the one at a, which need not be there, and what the
\* jitter buffers hold without it
Without(a) == [sessions EXCEPT ![a] = 0]
Emptied(a) == [jb EXCEPT ![a] = {}]

\* destroy_session(a), when schedq is q
destroy_session(a, q) ==
    /\ sessions' = Without(a)
    /\ jb' = Emptied(a)
    /\ schedq' = MarkSent(q, a)
    /\ UNCHANGED callnums

CallPointers == {calls[c] : c \in Appearances}
Pointers == CallPointers \cup {registration}

\* The number of the session p points to, or pointed to: free leaves it there
NumberAt(p) == IF sessions[p.session] = 0 THEN p.callno ELSE sessions[p.session]

\* iaxc_find_call_by_session, which returns the first one
OfACall(a) == \E c \in Appearances : calls[c].session = a

\* Mutant: the appearance keeps its pointer
ClearCallNot(c) == UNCHANGED calls

\* Mutant: the pointer is set to NULL, the state is not set to FREE
ClearSession(c) == calls' = [calls EXCEPT ![c].session = NULL]

\* iaxc_clear_call
ClearCall(c) == calls' = [calls EXCEPT ![c] = None]

\* Mutant: a final frame that could not be sent is not kept for another try
send_command_final_once(a, n, q, buffers) ==
    \/ destroy_session(a, q \cup {Sched("final", a, n)})
    \/ schedq' = q /\ jb' = buffers /\ UNCHANGED <<sessions, callnums>>

\* send_command_final on session a with number n: a final frame, and the
\* session is destroyed, unless sendto failed: then it lives on until the
\* frame has been sent again
send_command_final(a, n, q, buffers) ==
    LET sent == q \cup {Sched("final", a, n)}
    IN  \/ destroy_session(a, sent)
        \/ schedq' = sent /\ jb' = buffers /\ UNCHANGED <<sessions, callnums>>

-----------------------------------------------------------------------------
(* Calls from fgcom *)

\* iaxc_call: the session, its first ping, and the NEW frame unless the name
\* of the host is not found
Dial == \E c \in Appearances, a \in Addresses :
    /\ registered # "never"
    /\ calls[c] = None
    /\ iax_session_new(a, sessions, jb)
    /\ calls' = [calls EXCEPT ![c] = New(a)]
    /\ \E frames \in SUBSET {Sched("frame", a, callnums)} :
          schedq' = schedq \cup {Sched("ping", a, callnums)} \cup frames
    /\ UNCHANGED <<registration, registered>>

\* iax_hangup, when schedq is q: no more pings, and a final frame
Hangup(p, q) ==
    send_command_final(p.session, NumberAt(p),
        {e \in q : e.kind # "ping" \/ e.session # p.session}, jb)

\* iaxc_dump_call
Dump == \E c \in Appearances :
    /\ calls[c] # None
    /\ Hangup(calls[c], schedq)
    /\ ClearCall(c)
    /\ UNCHANGED <<registration, registered>>

\* iaxc_register, which fgcom calls once, before anything else
Register == \E a \in Addresses :
    /\ registered = "never"
    /\ iax_session_new(a, sessions, jb)
    /\ registration' = New(a)
    /\ registered' = "listed"
    /\ schedq' = schedq \cup {Sched("frame", a, callnums)}
    /\ UNCHANGED calls

-----------------------------------------------------------------------------
(* The processing thread *)

\* iaxc_refresh_registrations, every minute: it destroys the old session if
\* nobody answered, and takes a new one, which may get the same address
Refresh == \E a \in Addresses :
    LET old == registration.session
        live == IF old = NULL THEN sessions ELSE Without(old)
        buffers == IF old = NULL THEN jb ELSE Emptied(old)
    IN
    /\ registered = "listed"
    /\ iax_session_new(a, live, buffers)
    /\ registration' = New(a)
    /\ schedq' = (IF old = NULL THEN schedq ELSE MarkSent(schedq, old))
                    \cup {Sched("frame", a, callnums)}
    /\ UNCHANGED <<calls, registered>>

\* A full frame other than a NEW that starts the session: the peer's first
\* datagram makes one in iax_find_session.  A NEW is put in the jitter buffer.
Arrive == \E a \in Addresses, events \in {{}, {"connect"}} :
    /\ iax_session_new(a, sessions, [jb EXCEPT ![a] = events])
    /\ schedq' = schedq \cup {Sched("ping", a, callnums)}
    /\ UNCHANGED <<calls, registration, registered>>

\* A POKE is answered with a PONG, and its session destroyed at once: one that
\* is made for it, or whatever session the call numbers are of
Poke == \E a \in Addresses :
    /\ \/ /\ Allocates(a, sessions)
          /\ callnums' = callnums + 1
          /\ schedq' = MarkSent(schedq \cup {Sched("ping", a, callnums),
                                             Sched("frame", a, callnums)}, a)
          /\ UNCHANGED <<sessions, jb, poked>>
       \/ /\ sessions[a] # 0
          /\ destroy_session(a, schedq \cup {Sched("frame", a, sessions[a])})
          /\ poked' = (poked \/ \E p \in Pointers : p.session = a)
    /\ UNCHANGED <<calls, registration, registered>>

\* A session sends a frame: the library a reply or a PONG, iaxclient full voice
\* frames, for which it follows its pointer without looking
Send == \E p \in (CallPointers \ {None})
                  \cup {[session |-> a, callno |-> sessions[a]] :
                           a \in {b \in Addresses : sessions[b] # 0}} :
    /\ schedq' = schedq \cup {Sched("frame", p.session, NumberAt(p))}
    /\ UNCHANGED <<memory, calls, registration, registered>>

\* A HANGUP, INVAL or REJECT arrives
Hear == \E a \in Addresses :
    /\ sessions[a] # 0
    /\ jb' = [jb EXCEPT ![a] = @ \cup {"hangup"}]
    /\ UNCHANGED <<sessions, callnums, calls, registration, registered, schedq>>

\* iaxc_handle_network_event clears a call, or iaxc_handle_regreply destroys
\* the session of the registration; iax_event_free destroys it in any case
HearHangup == \E a \in Addresses :
    /\ "hangup" \in jb[a]
    /\ \/ /\ \E c \in Appearances : calls[c].session = a /\ ClearCall(c)
          /\ UNCHANGED registration
       \/ /\ ~OfACall(a)
          /\ registration' = IF registration.session = a THEN None ELSE registration
          /\ UNCHANGED calls
    /\ destroy_session(a, schedq)
    /\ UNCHANGED registered

\* iaxc_handle_regreply takes any event of that session for the answer, and the
\* IAX_EVENT_NULL of a datagram without event, the session of which is not set
\* and may be any.  A registration that is rejected is removed from the list.
HearReply ==
    /\ registration # None /\ ~OfACall(registration.session)
    /\ registration' = None
    /\ \/ UNCHANGED registered
       \/ sessions[registration.session] # 0 /\ registered' = "removed"
    /\ destroy_session(registration.session, schedq)
    /\ UNCHANGED calls

\* "Unknown event": the NEW of a session in memory that a call still points to
HearUnknown == \E a \in Addresses :
    /\ "connect" \in jb[a] /\ OfACall(a)
    /\ jb' = [jb EXCEPT ![a] = @ \ {"connect"}]
    /\ UNCHANGED <<sessions, callnums, calls, registration, registered, schedq>>

\* IAX_EVENT_CONNECT: a free appearance takes the session, or there is no
\* common codec and iax_reject ends it (its ping timer stays), or there is
\* no appearance and the caller is told so
Connect == \E a \in Addresses :
    LET handled == [jb EXCEPT ![a] = @ \ {"connect"}] IN
    /\ "connect" \in jb[a]
    /\ ~OfACall(a) /\ registration.session # a
    /\ UNCHANGED <<registration, registered>>
    /\ \/ /\ \E c \in Appearances :
                /\ calls[c] = None
                /\ calls' = [calls EXCEPT ![c] =
                                [session |-> a, callno |-> sessions[a]]]
          /\ jb' = handled
          /\ schedq' = schedq \cup {Sched("frame", a, sessions[a])}
          /\ UNCHANGED <<sessions, callnums>>
       \/ /\ \E c \in Appearances : calls[c] = None
          /\ send_command_final(a, sessions[a], schedq, handled)
          /\ UNCHANGED calls
       \/ /\ \A c \in Appearances : calls[c] # None
          /\ jb' = handled
          /\ schedq' = schedq \cup {Sched("frame", a, sessions[a])}
          /\ UNCHANGED <<sessions, callnums, calls>>

\* The peer acknowledges what the session has sent, or some frames of those in
\* the same condition
Ack == \E e \in schedq :
    /\ e.kind # "ping" /\ sessions[e.session] # 0
    /\ \/ schedq' = (schedq \ {e}) \cup {MarkedSent(e)}
       \/ e.kind = "frame" /\ schedq' = schedq \cup {MarkedSent(e)}
    /\ UNCHANGED <<memory, calls, registration, registered>>

\* "It's been acked. ... Destroy the old frame.  If final, destroy the
\* session": iax_get_event, some time after the session was destroyed
Reap == \E e \in schedq :
    /\ e.kind # "ping" /\ e.retries < 0
    /\ IF e.kind = "final" THEN destroy_session(e.session, schedq \ {e})
       ELSE schedq' = schedq \ {e} /\ UNCHANGED memory
    /\ UNCHANGED <<calls, registration, registered>>

\* A frame is out of retries: iaxclient hangs up the call, or iax_destroy is
\* called for the registration, or nobody has the session and it lives on
Timeout == \E e \in schedq :
    /\ e.kind = "frame" /\ e.retries > 0
    /\ \/ /\ sessions[e.session] # 0 /\ OfACall(e.session)
          /\ \E c \in Appearances :
                /\ calls[c].session = e.session
                /\ Hangup(calls[c], schedq \ {e})
                /\ ClearCall(c)
          /\ UNCHANGED registration
       \/ /\ sessions[e.session] # 0 /\ ~OfACall(e.session)
          /\ registration.session = e.session
          /\ destroy_session(e.session, schedq \ {e})
          /\ registration' = None
          /\ UNCHANGED calls
       \/ /\ sessions[e.session] = 0 \/ ~OfACall(e.session)
          /\ sessions[e.session] = 0 \/ registration.session # e.session
          /\ schedq' = schedq \ {e}
          /\ UNCHANGED <<memory, calls, registration>>
    /\ UNCHANGED registered

\* A final frame is out of retries: "If a final frame, destroy the session"
FinalTimeout == \E e \in schedq :
    /\ e.kind = "final" /\ e.retries > 0
    /\ destroy_session(e.session, schedq \ {e})
    /\ UNCHANGED <<calls, registration, registered>>

\* send_ping: ping and reschedule, if there still is a session at the address
PingTimer == \E e \in schedq :
    /\ e.kind = "ping"
    /\ schedq' = IF sessions[e.session] = 0 THEN schedq \ {e}
                 ELSE schedq \cup {Sched("frame", e.session, sessions[e.session])}
    /\ UNCHANGED <<memory, calls, registration, registered>>

Fgcom == Register \/ Dial \/ Dump
ProcessingThread ==
    \/ Refresh \/ Arrive \/ Send \/ Hear
    \/ HearHangup \/ HearReply \/ HearUnknown \/ Connect
    \/ Ack \/ Reap \/ Timeout \/ FinalTimeout \/ PingTimer

Next ==
    \/ Poke
    \/ (Fgcom \/ ProcessingThread) /\ UNCHANGED poked

Spec == Init /\ [][Next]_vars

-----------------------------------------------------------------------------
(* Properties *)

\* The session of an active call, and of the registration, is the one iaxclient
\* made for it: no timer, hangup or refresh has freed it, and no other call has
\* got its address.  Only a POKE with the numbers of a call frees a session
\* under iaxclient (handle_event), which goes on using it without looking.
PointersValid == ~poked =>
    /\ \A p \in Pointers \ {None} : sessions[p.session] = p.callno
    /\ \A c, d \in Appearances : calls[c] # None /\ c # d => calls[c] # calls[d]
    /\ \A c \in Appearances : calls[c] # None => calls[c] # registration

\* What iax_get_event sends again, with the peer address and the sendto of
\* frame->session, is sent on a session that exists, and on the one the frame
\* belongs to.  That includes the final frame of a session that outlived its
\* call because sendto had failed.
RetransmitsOnOwn == ~poked => \A e \in schedq :
    e.kind # "ping" /\ e.retries > 0 => sessions[e.session] = e.callno

\* A final frame of session number n is in schedq, q before a step or after it
Closing(a, n, q) ==
    \E e \in q : e.kind = "final" /\ e.session = a /\ e.callno = n

\* When iaxclient drops its pointer to a session, the session is destroyed, or,
\* if the final frame could not be sent, that frame is in schedq and stays there
\* until it destroys the session: no session fgcom used stays on the list for
\* ever.
NoneLeaked ==
    [][/\ \A p \in Pointers \ {None} :
             \/ p \in Pointers'
             \/ sessions'[p.session] # p.callno
             \/ Closing(p.session, p.callno, schedq')
       /\ \A a \in Addresses : Closing(a, sessions[a], schedq) =>
             \/ sessions'[a] # sessions[a]
             \/ Closing(a, sessions[a], schedq')]_vars

\* The comment of iax_get_event: "If final, destroy the session", the one the
\* frame was sent on.
FinalDestroysItsOwn == [][\A e \in schedq \ schedq' :
    e.kind = "final" /\ sessions'[e.session] # sessions[e.session]
        => sessions[e.session] = e.callno]_vars

=============================================================================
