--------------------------- MODULE SessionsProofs ---------------------------
(***************************************************************************)
(* Proofs about Sessions: as long as malloc returns no address a final     *)
(* frame in schedq still points to, and until a POKE has the call numbers  *)
(* of a session in use, the sessions of the calls and of the registration  *)
(* are their own.  Whatever happens, none is leaked.                       *)
(***************************************************************************)
EXTENDS Sessions, TLAPS

-----------------------------------------------------------------------------
(* Types *)

\* A session that was destroyed left nothing in a jitter buffer
DeadAreSilent == \A a \in Addresses : sessions[a] = 0 => jb[a] = {}

\* The number of the next session is a new one
NumbersAreOld ==
    /\ \A a \in Addresses : sessions[a] < callnums
    /\ \A c \in Appearances : calls[c].callno < callnums
    /\ registration.callno < callnums

TypeInv == TypeOK /\ DeadAreSilent /\ NumbersAreOld

\* Marking frames as sent leaves entries of schedq
LEMMA MarkSentType ==
    ASSUME NEW q \in SUBSET Entry, NEW a PROVE MarkSent(q, a) \in SUBSET Entry
  BY DEF MarkSent, MarkedSent, Entry

\* So does marking one
LEMMA MarkedType ==
    ASSUME NEW e \in Entry
    PROVE  /\ MarkedSent(e) \in Entry /\ MarkedSent(e).kind = e.kind
           /\ MarkedSent(e).session = e.session
           /\ MarkedSent(e).callno = e.callno /\ MarkedSent(e).retries = -1
  BY DEF MarkedSent, Entry

\* What iax_sched_add adds is an entry
LEMMA SchedType ==
    ASSUME NEW kind \in {"frame", "final", "ping"}, NEW a \in Addresses,
           NEW n \in CallNo
    PROVE  Sched(kind, a, n) \in Entry
  BY DEF Sched, Entry

\* destroy_session keeps types, and its address is free and silent
LEMMA DestroyType ==
    ASSUME TypeInv, NEW a \in Addresses, NEW q \in SUBSET Entry,
           destroy_session(a, q)
    PROVE  /\ sessions' \in [Addresses -> {0} \cup CallNo]
           /\ jb' \in [Addresses -> SUBSET Events]
           /\ schedq' \subseteq Entry
           /\ callnums' = callnums
           /\ sessions' = [sessions EXCEPT ![a] = 0]
           /\ \A b \in Addresses : sessions'[b] < callnums
           /\ DeadAreSilent'
<1>1. schedq' \subseteq Entry
  BY MarkSentType DEF destroy_session
<1>2. /\ sessions' = [sessions EXCEPT ![a] = 0]
      /\ jb' = [jb EXCEPT ![a] = {}]
      /\ callnums' = callnums
  BY DEF destroy_session, Without, Emptied
<1>3. callnums \in 1 .. MaxSessions + 1 /\ 0 < callnums
  BY BoundsAssumption DEF TypeInv, TypeOK
<1>4. \A b \in Addresses : sessions'[b] < callnums
  BY <1>2, <1>3 DEF TypeInv, TypeOK, NumbersAreOld
<1>5. DeadAreSilent'
  BY <1>2 DEF TypeInv, TypeOK, DeadAreSilent
<1> QED
  BY <1>1, <1>2, <1>4, <1>5 DEF TypeInv, TypeOK

\* iax_session_new keeps types
LEMMA NewType ==
    ASSUME TypeInv, NEW a \in Addresses,
           NEW live \in [Addresses -> {0} \cup CallNo],
           NEW buffers \in [Addresses -> SUBSET Events],
           \A b \in Addresses : live[b] < callnums,
           \A b \in Addresses : b # a /\ live[b] = 0 => buffers[b] = {},
           iax_session_new(a, live, buffers)
    PROVE  /\ sessions' \in [Addresses -> {0} \cup CallNo]
           /\ jb' \in [Addresses -> SUBSET Events]
           /\ callnums \in CallNo
           /\ callnums' \in 1 .. MaxSessions + 1
           /\ callnums' = callnums + 1
           /\ \A b \in Addresses : sessions'[b] < callnums'
           /\ DeadAreSilent'
<1>1. callnums \in 1 .. MaxSessions + 1 /\ callnums <= MaxSessions
  BY DEF TypeInv, TypeOK, iax_session_new, Allocates
<1>2. callnums \in CallNo /\ callnums' = callnums + 1
      /\ callnums' \in 1 .. MaxSessions + 1
  BY <1>1, BoundsAssumption DEF iax_session_new, CallNo
<1>3. sessions' = [live EXCEPT ![a] = callnums] /\ jb' = buffers
  BY DEF iax_session_new
<1>4. sessions' \in [Addresses -> {0} \cup CallNo]
  BY <1>2, <1>3
<1>5. \A b \in Addresses : sessions'[b] < callnums'
  <2> TAKE b \in Addresses
  <2>1. live[b] \in {0} \cup CallNo /\ live[b] < callnums
    OBVIOUS
  <2> QED
    BY <2>1, <1>2, <1>3 DEF CallNo
<1>6. DeadAreSilent'
  <2> SUFFICES ASSUME NEW b \in Addresses, sessions'[b] = 0 PROVE jb'[b] = {}
    BY DEF DeadAreSilent
  <2>1. b # a
    BY <1>2, <1>3 DEF CallNo
  <2> QED
    BY <2>1, <1>3
<1> QED
  BY <1>2, <1>3, <1>4, <1>5, <1>6

\* What MarkSent leaves was there before, and it leaves no frame of the session
LEMMA MarkSentFrom ==
    ASSUME NEW q \in SUBSET Entry, NEW a, NEW e \in MarkSent(q, a)
    PROVE  \E old \in q : /\ e.kind = old.kind
                          /\ e.session = old.session
                          /\ e.callno = old.callno
                          /\ e.kind # "ping" /\ e.retries > 0
                                => e = old /\ e.session # a
<1>1. PICK old \in q : e = IF old.session = a /\ old.kind # "ping"
                          THEN [old EXCEPT !.retries = -1] ELSE old
  BY DEF MarkSent, MarkedSent
<1>2. old \in Entry
  OBVIOUS
<1>3. CASE old.session = a /\ old.kind # "ping"
  <2>1. e = [old EXCEPT !.retries = -1]
    BY <1>1, <1>3
  <2>2. /\ e.kind = old.kind /\ e.session = old.session
        /\ e.callno = old.callno /\ e.retries = -1
    BY <2>1, <1>2 DEF Entry
  <2> QED
    BY <2>2
<1>4. CASE ~(old.session = a /\ old.kind # "ping")
  <2>1. e = old
    BY <1>1, <1>4
  <2> QED
    BY <2>1, <1>4
<1> QED
  BY <1>3, <1>4

-----------------------------------------------------------------------------
(* Every step keeps the types *)

\* The ways to make a session, in Dial, Register and Arrive
LEMMA NewHereType ==
    ASSUME TypeInv, NEW a \in Addresses, NEW buffers \in [Addresses -> SUBSET Events],
           \A b \in Addresses : b # a => buffers[b] = jb[b],
           iax_session_new(a, sessions, buffers)
    PROVE  /\ sessions' \in [Addresses -> {0} \cup CallNo]
           /\ jb' \in [Addresses -> SUBSET Events]
           /\ callnums \in CallNo
           /\ callnums' \in 1 .. MaxSessions + 1
           /\ callnums' = callnums + 1
           /\ \A b \in Addresses : sessions'[b] < callnums'
           /\ DeadAreSilent'
<1>1. sessions \in [Addresses -> {0} \cup CallNo]
  BY DEF TypeInv, TypeOK
<1>2. \A b \in Addresses : sessions[b] < callnums
  BY DEF TypeInv, NumbersAreOld
<1>3. \A b \in Addresses : b # a /\ sessions[b] = 0 => buffers[b] = {}
  BY DEF TypeInv, DeadAreSilent
<1> QED
  BY <1>1, <1>2, <1>3, NewType

\* The number iax_hangup finds at the end of a pointer is one
LEMMA NumberType ==
    ASSUME TypeInv, NEW p \in Pointer
    PROVE  /\ p.session \in Addresses /\ p.callno \in CallNo
           /\ NumberAt(p) \in CallNo
  BY DEF Pointer, NumberAt, TypeInv, TypeOK

\* What iax_hangup leaves in schedq before it sends the final frame
NoPings(a, q) == {e \in q : e.kind # "ping" \/ e.session # a}

\* send_command_final destroys the session, or leaves it with a final frame
LEMMA FinalCases ==
    ASSUME NEW a, NEW n, NEW q, NEW buffers, send_command_final(a, n, q, buffers)
    PROVE  \/ destroy_session(a, q \cup {Sched("final", a, n)})
           \/ /\ schedq' = q \cup {Sched("final", a, n)}
              /\ jb' = buffers /\ UNCHANGED <<sessions, callnums>>
  BY DEF send_command_final

\* Hanging up a call: the same, with what is left in schedq
LEMMA HangupCases ==
    ASSUME NEW p, NEW q, Hangup(p, q)
    PROVE  LET sent == NoPings(p.session, q)
                          \cup {Sched("final", p.session, NumberAt(p))}
           IN  \/ destroy_session(p.session, sent)
               \/ schedq' = sent /\ jb' = jb /\ UNCHANGED <<sessions, callnums>>
  BY FinalCases DEF Hangup, NoPings

\* The entries it leaves or adds are entries
LEMMA HangupType ==
    ASSUME TypeInv, NEW p \in Pointer, NEW q \in SUBSET Entry
    PROVE  NoPings(p.session, q) \cup {Sched("final", p.session, NumberAt(p))}
               \in SUBSET Entry
<1>1. Sched("final", p.session, NumberAt(p)) \in Entry
  BY NumberType, SchedType
<1> QED
  BY <1>1 DEF NoPings

\* What TypeInv says of the pointers
PointersTyped ==
    /\ calls \in [Appearances -> Pointer \cup {None}]
    /\ registration \in Pointer \cup {None}
    /\ \A c \in Appearances : calls[c].callno < callnums
    /\ registration.callno < callnums

\* A step after which all pointers are old ones, or none, keeps their types
LEMMA PointersStay ==
    ASSUME TypeInv, callnums' \in {callnums, callnums + 1},
           calls' \in [Appearances -> Pointer \cup {None}],
           \A c \in Appearances : calls'[c] \in {calls[c], None},
           registration' \in {registration, None}
    PROVE  PointersTyped'
<1>1. callnums \in Int /\ callnums > 0
  BY BoundsAssumption DEF TypeInv, TypeOK
<1>2. None.callno = 0
  BY DEF None
<1>3. \A c \in Appearances : calls[c].callno < callnums /\ calls[c].callno \in Int
  BY <1>2 DEF TypeInv, TypeOK, NumbersAreOld, Pointer, CallNo
<1>4. registration.callno < callnums /\ registration.callno \in Int
  BY <1>2 DEF TypeInv, TypeOK, NumbersAreOld, Pointer, CallNo
<1>5. \A c \in Appearances : calls'[c].callno < callnums'
  BY <1>1, <1>2, <1>3
<1>6. registration'.callno < callnums'
  BY <1>1, <1>2, <1>4
<1>7. registration' \in Pointer \cup {None}
  BY DEF TypeInv, TypeOK
<1> QED
  BY <1>5, <1>6, <1>7 DEF PointersTyped

\* TypeInv is about the memory, the pointers, registered and schedq
LEMMA TypeParts ==
    ASSUME sessions' \in [Addresses -> {0} \cup CallNo],
           callnums' \in 1 .. MaxSessions + 1,
           jb' \in [Addresses -> SUBSET Events],
           \A a \in Addresses : sessions'[a] < callnums',
           DeadAreSilent', PointersTyped',
           registered' \in {"never", "listed", "removed"},
           schedq' \in SUBSET Entry, poked' \in BOOLEAN
    PROVE  TypeInv'
  BY DEF TypeInv, TypeOK, NumbersAreOld, PointersTyped

\* The pointers are typed in a state in which TypeInv holds
LEMMA TypesOfPointers == ASSUME TypeInv PROVE PointersTyped
  BY DEF TypeInv, TypeOK, NumbersAreOld, PointersTyped

\* A new pointer is typed
LEMMA NewPointer ==
    ASSUME callnums \in CallNo, NEW a \in Addresses
    PROVE  New(a) \in Pointer /\ New(a).callno = callnums /\ New(a).session = a
  BY DEF New, Pointer

\* A step that makes a session, and at most gives its pointer to somebody
LEMMA NewPointersTyped ==
    ASSUME TypeInv, NEW a \in Addresses, callnums \in CallNo,
           callnums' = callnums + 1,
           calls' \in [Appearances -> Pointer \cup {None}],
           \A c \in Appearances : calls'[c] \in {calls[c], None, New(a)},
           registration' \in {registration, None, New(a)}
    PROVE  PointersTyped'
<1>1. callnums \in Int /\ callnums > 0
  BY BoundsAssumption DEF TypeInv, TypeOK
<1>2. None.callno = 0 /\ New(a).callno = callnums /\ New(a) \in Pointer
  BY NewPointer DEF None
<1>3. \A c \in Appearances : calls[c].callno < callnums /\ calls[c].callno \in Int
  BY <1>2 DEF TypeInv, TypeOK, NumbersAreOld, Pointer, CallNo
<1>4. registration.callno < callnums /\ registration.callno \in Int
  BY <1>2 DEF TypeInv, TypeOK, NumbersAreOld, Pointer, CallNo
<1>5. \A c \in Appearances : calls'[c].callno < callnums'
  BY <1>1, <1>2, <1>3
<1>6. registration'.callno < callnums'
  BY <1>1, <1>2, <1>4
<1>7. registration' \in Pointer \cup {None}
  BY <1>2 DEF TypeInv, TypeOK
<1> QED
  BY <1>5, <1>6, <1>7 DEF PointersTyped

\* Every step keeps TypeInv
LEMMA TypeStep == TypeInv /\ [Next]_vars => TypeInv'
<1> SUFFICES ASSUME TypeInv, [Next]_vars PROVE TypeInv'
  OBVIOUS
<1> USE DEF memory
<1>a. /\ sessions \in [Addresses -> {0} \cup CallNo]
      /\ callnums \in 1 .. MaxSessions + 1
      /\ jb \in [Addresses -> SUBSET Events]
      /\ calls \in [Appearances -> Pointer \cup {None}]
      /\ registration \in Pointer \cup {None}
      /\ registered \in {"never", "listed", "removed"}
      /\ schedq \in SUBSET Entry
  BY DEF TypeInv, TypeOK
<1>b. PointersTyped /\ DeadAreSilent /\ \A a \in Addresses : sessions[a] < callnums
  BY TypesOfPointers DEF TypeInv, NumbersAreOld
<1>k. poked' \in BOOLEAN
  BY DEF Next, Poke, vars, TypeInv, TypeOK
<1>c. ASSUME NEW kind \in {"frame", "final", "ping"}, NEW a \in Addresses, sessions[a] # 0
      PROVE  Sched(kind, a, sessions[a]) \in Entry
  BY <1>a, <1>c, SchedType
<1>1. CASE Dial
  <2>1. PICK c \in Appearances, a \in Addresses :
            /\ iax_session_new(a, sessions, jb)
            /\ calls' = [calls EXCEPT ![c] = New(a)]
            /\ \E frames \in SUBSET {Sched("frame", a, callnums)} :
                  schedq' = schedq \cup {Sched("ping", a, callnums)} \cup frames
            /\ UNCHANGED <<registration, registered>>
    BY <1>1 DEF Dial
  <2>2. /\ sessions' \in [Addresses -> {0} \cup CallNo]
        /\ jb' \in [Addresses -> SUBSET Events]
        /\ callnums \in CallNo /\ callnums' \in 1 .. MaxSessions + 1
        /\ callnums' = callnums + 1
        /\ \A b \in Addresses : sessions'[b] < callnums'
        /\ DeadAreSilent'
    BY <2>1, <1>a, NewHereType
  <2>3. New(a) \in Pointer
    BY <2>2, NewPointer
  <2>4. PointersTyped'
    BY <1>a, <2>1, <2>2, <2>3, NewPointersTyped
  <2>5. Sched("frame", a, callnums) \in Entry /\ Sched("ping", a, callnums) \in Entry
    BY <2>2, SchedType
  <2>6. schedq' \in SUBSET Entry
    BY <1>a, <2>1, <2>5
  <2> QED
    BY <1>a, <2>1, <2>2, <2>4, <2>6, <1>k, TypeParts
<1>3. CASE Register
  <2>1. PICK a \in Addresses :
            /\ iax_session_new(a, sessions, jb)
            /\ registration' = New(a) /\ registered' = "listed"
            /\ schedq' = schedq \cup {Sched("frame", a, callnums)}
            /\ UNCHANGED calls
    BY <1>3 DEF Register
  <2>2. /\ sessions' \in [Addresses -> {0} \cup CallNo]
        /\ jb' \in [Addresses -> SUBSET Events]
        /\ callnums \in CallNo /\ callnums' \in 1 .. MaxSessions + 1
        /\ callnums' = callnums + 1
        /\ \A b \in Addresses : sessions'[b] < callnums'
        /\ DeadAreSilent'
    BY <2>1, <1>a, NewHereType
  <2>3. PointersTyped'
    BY <1>a, <2>1, <2>2, NewPointersTyped
  <2>4. schedq' \in SUBSET Entry
    BY <1>a, <2>1, <2>2, SchedType
  <2> QED
    BY <1>a, <2>1, <2>2, <2>3, <2>4, <1>k, TypeParts
<1>4. CASE Refresh
  <2> DEFINE old == registration.session
             live == IF old = NULL THEN sessions ELSE Without(old)
             buffers == IF old = NULL THEN jb ELSE Emptied(old)
  <2>1. PICK a \in Addresses :
            /\ iax_session_new(a, live, buffers)
            /\ registration' = New(a)
            /\ schedq' = (IF old = NULL THEN schedq ELSE MarkSent(schedq, old))
                            \cup {Sched("frame", a, callnums)}
            /\ UNCHANGED <<calls, registered>>
    BY <1>4 DEF Refresh
  <2>2. /\ live \in [Addresses -> {0} \cup CallNo]
        /\ buffers \in [Addresses -> SUBSET Events]
        /\ \A b \in Addresses : live[b] \in {0, sessions[b]}
        /\ \A b \in Addresses : live[b] = 0 => buffers[b] = {}
    BY <1>a, <1>b DEF Without, Emptied, DeadAreSilent
  <2>3. \A b \in Addresses : live[b] < callnums
    <3>1. 0 < callnums
      BY <1>a, BoundsAssumption
    <3> QED
      BY <3>1, <1>b, <2>2
  <2> HIDE DEF live, buffers, old
  <2>4. /\ sessions' \in [Addresses -> {0} \cup CallNo]
        /\ jb' \in [Addresses -> SUBSET Events]
        /\ callnums \in CallNo /\ callnums' \in 1 .. MaxSessions + 1
        /\ callnums' = callnums + 1
        /\ \A b \in Addresses : sessions'[b] < callnums'
        /\ DeadAreSilent'
    BY <2>1, <2>2, <2>3, NewType
  <2>5. PointersTyped'
    BY <1>a, <2>1, <2>4, NewPointersTyped
  <2>6. MarkSent(schedq, old) \in SUBSET Entry
    BY <1>a, MarkSentType
  <2>7. Sched("frame", a, callnums) \in Entry
    BY <2>4, SchedType
  <2>8. schedq' \in SUBSET Entry
    BY <1>a, <2>1, <2>6, <2>7
  <2> QED
    BY <1>a, <2>1, <2>4, <2>5, <2>8, <1>k, TypeParts
<1>5. CASE Arrive
  <2>1. PICK a \in Addresses, events \in {{}, {"connect"}} :
            /\ iax_session_new(a, sessions, [jb EXCEPT ![a] = events])
            /\ schedq' = schedq \cup {Sched("ping", a, callnums)}
            /\ UNCHANGED <<calls, registration, registered>>
    BY <1>5 DEF Arrive
  <2>2. /\ [jb EXCEPT ![a] = events] \in [Addresses -> SUBSET Events]
        /\ \A b \in Addresses : b # a => [jb EXCEPT ![a] = events][b] = jb[b]
    BY <1>a DEF Events
  <2>3. /\ sessions' \in [Addresses -> {0} \cup CallNo]
        /\ jb' \in [Addresses -> SUBSET Events]
        /\ callnums \in CallNo /\ callnums' \in 1 .. MaxSessions + 1
        /\ callnums' = callnums + 1
        /\ \A b \in Addresses : sessions'[b] < callnums'
        /\ DeadAreSilent'
    BY <2>1, <2>2, NewHereType
  <2>4. PointersTyped'
    BY <1>a, <2>1, <2>3, PointersStay
  <2>5. schedq' \in SUBSET Entry
    BY <1>a, <2>1, <2>3, SchedType
  <2> QED
    BY <1>a, <2>1, <2>3, <2>4, <2>5, <1>k, TypeParts
<1>7. ASSUME schedq' \in SUBSET Entry,
             UNCHANGED <<memory, calls, registration, registered>>
      PROVE  TypeInv'
  <2>1. DeadAreSilent' /\ PointersTyped'
    BY <1>b, <1>7 DEF DeadAreSilent, PointersTyped
  <2> QED
    BY <1>a, <1>b, <1>7, <2>1, <1>k, TypeParts
<1>8. CASE Send
  <2>1. PICK p \in (CallPointers \ {None})
                     \cup {[session |-> a, callno |-> sessions[a]] :
                              a \in {b \in Addresses : sessions[b] # 0}} :
            /\ schedq' = schedq \cup {Sched("frame", p.session, NumberAt(p))}
            /\ UNCHANGED <<memory, calls, registration, registered>>
    BY <1>8 DEF Send
  <2>2. p \in Pointer
    BY <1>a DEF CallPointers, Pointer
  <2>3. Sched("frame", p.session, NumberAt(p)) \in Entry
    BY <2>2, NumberType, SchedType
  <2>4. schedq' \in SUBSET Entry
    BY <1>a, <2>1, <2>3
  <2> QED
    BY <1>7, <2>1, <2>4
<1>9. CASE Hear
  <2>1. PICK a \in Addresses :
            /\ sessions[a] # 0
            /\ jb' = [jb EXCEPT ![a] = @ \cup {"hangup"}]
            /\ UNCHANGED <<sessions, callnums, calls, registration, registered, schedq>>
    BY <1>9 DEF Hear
  <2>2. jb' \in [Addresses -> SUBSET Events]
    BY <1>a, <2>1 DEF Events
  <2>3. DeadAreSilent' /\ PointersTyped'
    BY <1>a, <1>b, <2>1 DEF DeadAreSilent, PointersTyped
  <2> QED
    BY <1>a, <1>b, <2>1, <2>2, <2>3, <1>k, TypeParts
<1>10. ASSUME NEW a \in Addresses, NEW q \in SUBSET Entry, destroy_session(a, q),
              calls' \in [Appearances -> Pointer \cup {None}],
              \A c \in Appearances : calls'[c] \in {calls[c], None},
              registration' \in {registration, None},
              registered' \in {"never", "listed", "removed"}
       PROVE  TypeInv'
  <2>1. /\ sessions' \in [Addresses -> {0} \cup CallNo]
        /\ jb' \in [Addresses -> SUBSET Events]
        /\ schedq' \in SUBSET Entry /\ callnums' = callnums
        /\ \A b \in Addresses : sessions'[b] < callnums'
        /\ DeadAreSilent'
    BY <1>10, DestroyType
  <2>2. PointersTyped'
    BY <1>10, <2>1, PointersStay
  <2> QED
    BY <1>10, <1>a, <2>1, <2>2, <1>k, TypeParts
\* The session lives on, with a final frame: no pointer to it need be left
<1>11. ASSUME NEW q \in SUBSET Entry, schedq' = q, UNCHANGED <<sessions, callnums>>,
              jb' \in [Addresses -> SUBSET Events],
              \A a \in Addresses : jb'[a] \subseteq jb[a],
              calls' \in [Appearances -> Pointer \cup {None}],
              \A c \in Appearances : calls'[c] \in {calls[c], None},
              registration' \in {registration, None}, UNCHANGED registered
       PROVE  TypeInv'
  <2>1. DeadAreSilent'
    BY <1>b, <1>11 DEF DeadAreSilent
  <2>2. PointersTyped'
    BY <1>11, PointersStay
  <2> QED
    BY <1>11, <1>a, <1>b, <1>k, <2>1, <2>2, TypeParts
\* iax_hangup, after which an appearance is cleared
<1>22. ASSUME NEW c \in Appearances, calls[c] # None, NEW q \in SUBSET Entry,
              Hangup(calls[c], q), ClearCall(c), UNCHANGED <<registration, registered>>
       PROVE  TypeInv'
  <2> DEFINE a == calls[c].session
             sent == NoPings(a, q) \cup {Sched("final", a, NumberAt(calls[c]))}
  <2>1. calls[c] \in Pointer
    BY <1>a, <1>22
  <2>2. a \in Addresses /\ sent \in SUBSET Entry
    BY <2>1, NumberType, HangupType
  <2>3. \/ destroy_session(a, sent)
        \/ schedq' = sent /\ jb' = jb /\ UNCHANGED <<sessions, callnums>>
    BY <1>22, HangupCases
  <2>4. /\ calls' \in [Appearances -> Pointer \cup {None}]
        /\ \A d \in Appearances : calls'[d] \in {calls[d], None}
    BY <1>22, <1>a DEF ClearCall
  <2> HIDE DEF a, sent
  <2> QED
    BY <1>22, <1>a, <1>10, <1>11, <2>2, <2>3, <2>4
<1>2. CASE Dump
  BY <1>a, <1>2, <1>22 DEF Dump
<1>6. CASE Poke
  <2>1. PICK a \in Addresses :
          /\ \/ /\ callnums <= MaxSessions /\ callnums' = callnums + 1
                /\ schedq' = MarkSent(schedq \cup {Sched("ping", a, callnums),
                                                   Sched("frame", a, callnums)}, a)
                /\ UNCHANGED <<sessions, jb>>
             \/ /\ sessions[a] # 0
                /\ destroy_session(a, schedq \cup {Sched("frame", a, sessions[a])})
          /\ UNCHANGED <<calls, registration, registered>>
    BY <1>6 DEF Poke, Allocates
  <2>2. CASE /\ callnums <= MaxSessions /\ callnums' = callnums + 1
             /\ schedq' = MarkSent(schedq \cup {Sched("ping", a, callnums),
                                                Sched("frame", a, callnums)}, a)
             /\ UNCHANGED <<sessions, jb>>
    <3>2. /\ callnums \in CallNo /\ callnums' \in 1 .. MaxSessions + 1
          /\ \A b \in Addresses : sessions[b] < callnums'
      BY <1>a, <1>b, <2>2, BoundsAssumption DEF CallNo
    <3>3. Sched("ping", a, callnums) \in Entry /\ Sched("frame", a, callnums) \in Entry
      BY <3>2, SchedType
    <3>4. schedq' \in SUBSET Entry
      BY <1>a, <2>2, <3>3, MarkSentType
    <3>5. PointersTyped'
      BY <1>a, <2>1, <2>2, PointersStay
    <3>6. DeadAreSilent'
      BY <1>b, <2>2 DEF DeadAreSilent
    <3> QED
      BY <1>a, <1>k, <2>1, <2>2, <3>2, <3>4, <3>5, <3>6, TypeParts
  <2>3. CASE /\ sessions[a] # 0
             /\ destroy_session(a, schedq \cup {Sched("frame", a, sessions[a])})
    <3>1. schedq \cup {Sched("frame", a, sessions[a])} \in SUBSET Entry
      BY <1>a, <1>c, <2>3
    <3> QED
      BY <1>a, <1>10, <2>1, <2>3, <3>1
  <2> QED
    BY <2>1, <2>2, <2>3
<1>12. CASE HearHangup
  <2>1. PICK a \in Addresses :
            /\ \/ /\ \E c \in Appearances : ClearCall(c)
                  /\ UNCHANGED registration
               \/ /\ registration' \in {registration, None}
                  /\ UNCHANGED calls
            /\ destroy_session(a, schedq)
            /\ UNCHANGED registered
    BY <1>12 DEF HearHangup
  <2>2. /\ calls' \in [Appearances -> Pointer \cup {None}]
        /\ \A d \in Appearances : calls'[d] \in {calls[d], None}
    BY <1>a, <2>1 DEF ClearCall
  <2> QED
    BY <1>a, <1>10, <2>1, <2>2
<1>13. CASE HearReply
  <2>1. /\ registration # None
        /\ registration' = None
        /\ registered' \in {registered, "removed"}
        /\ destroy_session(registration.session, schedq)
        /\ UNCHANGED calls
    BY <1>13 DEF HearReply
  <2>2. registration.session \in Addresses
    BY <1>a, <2>1 DEF Pointer
  <2> QED
    BY <1>a, <1>10, <2>1, <2>2
<1>14. CASE Connect
  <2>1. PICK a \in Addresses :
          /\ "connect" \in jb[a]
          /\ UNCHANGED <<registration, registered>>
          /\ \/ /\ \E c \in Appearances :
                      calls' = [calls EXCEPT ![c] =
                                  [session |-> a, callno |-> sessions[a]]]
                /\ jb' = [jb EXCEPT ![a] = @ \ {"connect"}]
                /\ schedq' = schedq \cup {Sched("frame", a, sessions[a])}
                /\ UNCHANGED <<sessions, callnums>>
             \/ /\ send_command_final(a, sessions[a], schedq,
                                      [jb EXCEPT ![a] = @ \ {"connect"}])
                /\ UNCHANGED calls
             \/ /\ jb' = [jb EXCEPT ![a] = @ \ {"connect"}]
                /\ schedq' = schedq \cup {Sched("frame", a, sessions[a])}
                /\ UNCHANGED <<sessions, callnums, calls>>
    BY <1>14 DEF Connect
  <2>2. sessions[a] # 0 /\ sessions[a] \in CallNo
    BY <1>a, <1>b, <2>1 DEF DeadAreSilent
  <2>3. /\ Sched("frame", a, sessions[a]) \in Entry
        /\ Sched("final", a, sessions[a]) \in Entry
    BY <1>c, <2>2
  <2>4. CASE /\ send_command_final(a, sessions[a], schedq,
                                   [jb EXCEPT ![a] = @ \ {"connect"}])
             /\ UNCHANGED calls
    <3> DEFINE sent == schedq \cup {Sched("final", a, sessions[a])}
               handled == [jb EXCEPT ![a] = @ \ {"connect"}]
    <3>1. sent \in SUBSET Entry
      BY <1>a, <2>3
    <3>2. handled \in [Addresses -> SUBSET Events]
          /\ \A b \in Addresses : handled[b] \subseteq jb[b]
      BY <1>a
    <3>3. \/ destroy_session(a, sent)
          \/ schedq' = sent /\ jb' = handled /\ UNCHANGED <<sessions, callnums>>
      BY <2>4, FinalCases
    <3> HIDE DEF sent, handled
    <3> QED
      BY <1>a, <1>10, <1>11, <2>1, <2>4, <3>1, <3>2, <3>3
  <2>5. CASE /\ \/ UNCHANGED calls
                \/ \E c \in Appearances :
                      calls' = [calls EXCEPT ![c] =
                                  [session |-> a, callno |-> sessions[a]]]
             /\ jb' = [jb EXCEPT ![a] = @ \ {"connect"}]
             /\ schedq' = schedq \cup {Sched("frame", a, sessions[a])}
             /\ UNCHANGED <<sessions, callnums>>
    <3>1. schedq' \in SUBSET Entry
      BY <1>a, <2>3, <2>5
    <3>2. jb' \in [Addresses -> SUBSET Events] /\ DeadAreSilent'
      BY <1>a, <1>b, <2>5 DEF DeadAreSilent
    <3>3. /\ [session |-> a, callno |-> sessions[a]] \in Pointer
          /\ [session |-> a, callno |-> sessions[a]].callno < callnums
      BY <1>b, <2>2 DEF Pointer
    <3>4. PointersTyped'
      BY <1>b, <2>1, <2>5, <3>3 DEF PointersTyped
    <3> QED
      BY <1>a, <1>b, <1>k, <2>1, <2>5, <3>1, <3>2, <3>4, TypeParts
  <2> QED
    BY <2>1, <2>4, <2>5
<1>15. CASE Ack
  <2>1. PICK e \in schedq :
            /\ schedq' \in {(schedq \ {e}) \cup {MarkedSent(e)},
                            schedq \cup {MarkedSent(e)}}
            /\ UNCHANGED <<memory, calls, registration, registered>>
    BY <1>15 DEF Ack
  <2>2. MarkedSent(e) \in Entry
    BY <1>a, MarkedType
  <2>3. schedq' \in SUBSET Entry
    BY <1>a, <2>1, <2>2
  <2> QED
    BY <1>7, <2>1, <2>3
<1>16. CASE Reap
  <2>1. PICK e \in schedq :
            /\ IF e.kind = "final" THEN destroy_session(e.session, schedq \ {e})
               ELSE schedq' = schedq \ {e} /\ UNCHANGED memory
            /\ UNCHANGED <<calls, registration, registered>>
    BY <1>16 DEF Reap
  <2>2. e.session \in Addresses /\ schedq \ {e} \in SUBSET Entry
    BY <1>a DEF Entry
  <2>3. CASE e.kind = "final"
    BY <1>a, <1>10, <2>1, <2>2, <2>3
  <2>4. CASE e.kind # "final"
    BY <1>7, <2>1, <2>2, <2>4
  <2> QED
    BY <2>3, <2>4
<1>17. CASE Timeout
  <2>1. PICK e \in schedq :
          /\ \/ /\ \E c \in Appearances :
                      /\ calls[c].session = e.session
                      /\ Hangup(calls[c], schedq \ {e})
                      /\ ClearCall(c)
                /\ UNCHANGED registration
             \/ /\ destroy_session(e.session, schedq \ {e})
                /\ registration' = None
                /\ UNCHANGED calls
             \/ /\ schedq' = schedq \ {e}
                /\ UNCHANGED <<memory, calls, registration>>
          /\ UNCHANGED registered
    BY <1>17 DEF Timeout
  <2>2. e.session \in Addresses /\ schedq \ {e} \in SUBSET Entry
    BY <1>a DEF Entry
  <2>3. CASE /\ \E c \in Appearances :
                    /\ calls[c].session = e.session
                    /\ Hangup(calls[c], schedq \ {e})
                    /\ ClearCall(c)
             /\ UNCHANGED registration
    <3>1. \A c \in Appearances : calls[c].session = e.session => calls[c] # None
      BY <2>2, AddressesAssumption DEF None
    <3> QED
      BY <1>22, <2>1, <2>2, <2>3, <3>1
  <2>4. CASE /\ destroy_session(e.session, schedq \ {e})
             /\ registration' = None /\ UNCHANGED calls
    BY <1>a, <1>10, <2>1, <2>2, <2>4
  <2>5. CASE schedq' = schedq \ {e} /\ UNCHANGED <<memory, calls, registration>>
    BY <1>7, <2>1, <2>2, <2>5
  <2> QED
    BY <2>1, <2>3, <2>4, <2>5
<1>20. CASE FinalTimeout
  <2>1. PICK e \in schedq :
            /\ destroy_session(e.session, schedq \ {e})
            /\ UNCHANGED <<calls, registration, registered>>
    BY <1>20 DEF FinalTimeout
  <2>2. e.session \in Addresses /\ schedq \ {e} \in SUBSET Entry
    BY <1>a DEF Entry
  <2> QED
    BY <1>a, <1>10, <2>1, <2>2
<1>21. CASE HearUnknown
  <2>1. PICK a \in Addresses :
            /\ jb' = [jb EXCEPT ![a] = @ \ {"connect"}]
            /\ UNCHANGED <<sessions, callnums, calls, registration, registered, schedq>>
    BY <1>21 DEF HearUnknown
  <2>2. /\ jb' \in [Addresses -> SUBSET Events]
        /\ \A b \in Addresses : jb'[b] \subseteq jb[b]
    BY <1>a, <2>1
  <2> QED
    BY <1>a, <1>11, <2>1, <2>2
<1>18. CASE PingTimer
  <2>1. PICK e \in schedq :
            /\ schedq' = IF sessions[e.session] = 0 THEN schedq \ {e}
                         ELSE schedq \cup {Sched("frame", e.session,
                                                 sessions[e.session])}
            /\ UNCHANGED <<memory, calls, registration, registered>>
    BY <1>18 DEF PingTimer
  <2>2. e.session \in Addresses
    BY <1>a DEF Entry
  <2>3. schedq' \in SUBSET Entry
    BY <1>a, <1>c, <2>1, <2>2
  <2> QED
    BY <1>7, <2>1, <2>3
<1>19. CASE UNCHANGED vars
  BY <1>7, <1>19, <1>a DEF vars
<1> QED
  BY <1>1, <1>2, <1>3, <1>4, <1>5, <1>6, <1>8, <1>9, <1>12, <1>13, <1>14,
     <1>15, <1>16, <1>17, <1>18, <1>19, <1>20, <1>21
     DEF Next, Fgcom, ProcessingThread

\* The initial state has the types
LEMMA TypeStart == Init => TypeInv
<1> SUFFICES ASSUME Init PROVE TypeInv
  OBVIOUS
<1>1. callnums = 1 /\ 1 \in 1 .. MaxSessions + 1
  BY BoundsAssumption DEF Init
<1>2. None.callno = 0
  BY DEF None
<1>3. TypeOK
  BY <1>1 DEF Init, TypeOK
<1>4. DeadAreSilent /\ NumbersAreOld
  BY <1>1, <1>2 DEF Init, DeadAreSilent, NumbersAreOld
<1> QED
  BY <1>3, <1>4 DEF TypeInv

\* Addresses, numbers, pointers and schedq have their types, whatever malloc
\* returns: iax_hangup, the timers and the events are only ever given the
\* address of a session, never NULL.
THEOREM TypeCorrect == Spec => []TypeOK
<1>1. TypeInv => TypeOK
  BY DEF TypeInv
<1> QED
  BY <1>1, TypeStart, TypeStep, PTL DEF Spec

-----------------------------------------------------------------------------
(* Nobody points to a session that is not its own *)

\* A frame still to be sent again is sent on its own session
FramesOwn == \A e \in schedq :
    e.kind # "ping" /\ e.retries > 0 => sessions[e.session] = e.callno

\* A session with a final frame is nobody's, if it still is one
FinalsUnowned == \A e \in schedq : e.kind = "final" =>
    /\ "connect" \notin jb[e.session]
    /\ registration.session # e.session
    /\ \A c \in Appearances : calls[c].session # e.session

\* A session whose NEW has not been handled yet belongs to nobody
CallersWait == \A a \in Addresses : "connect" \in jb[a] =>
    registration.session # a /\ \A c \in Appearances : calls[c].session # a

FramesInv == FramesOwn /\ FinalsUnowned

\* The parts of PointersValid, one pointer at a time
OwnPointer(p) == p # None => p.session \in Addresses /\ sessions[p.session] = p.callno

PointersOwn ==
    /\ \A c \in Appearances : OwnPointer(calls[c])
    /\ OwnPointer(registration)
    /\ \A c, d \in Appearances : calls[c] # None /\ c # d => calls[c] # calls[d]
    /\ \A c \in Appearances : calls[c] # None => calls[c] # registration

OwnInv == TypeInv /\ PointersOwn /\ FramesInv /\ CallersWait

\* A POKE may free a session under iaxclient.  Until then everything is owned.
OwnedInv == TypeInv /\ (~poked => OwnInv)

\* OwnedInv says what the properties say
LEMMA OwnIsValid == OwnedInv => PointersValid /\ RetransmitsOnOwn
<1> SUFFICES ASSUME OwnInv, TypeInv PROVE PointersValid /\ RetransmitsOnOwn
  BY DEF OwnedInv, PointersValid, RetransmitsOnOwn
<1>1. \A p \in Pointers \ {None} : sessions[p.session] = p.callno
  BY DEF OwnInv, PointersOwn, OwnPointer, Pointers, CallPointers
<1> QED
  BY <1>1 DEF OwnInv, PointersOwn, FramesInv, FramesOwn, PointersValid, RetransmitsOnOwn

\* What OwnInv says of the pointers: they point to sessions, each to another
LEMMA PointersApart ==
    ASSUME OwnInv
    PROVE  /\ PointersOwn
           /\ \A c \in Appearances : calls[c] # None =>
                /\ calls[c].session \in Addresses
                /\ sessions[calls[c].session] = calls[c].callno
                /\ sessions[calls[c].session] # 0
                /\ registration.session # calls[c].session
                /\ \A d \in Appearances : d # c => calls[d].session # calls[c].session
           /\ registration # None =>
                /\ registration.session \in Addresses
                /\ sessions[registration.session] = registration.callno
                /\ sessions[registration.session] # 0
<1>1. PointersTyped /\ PointersOwn
  BY TypesOfPointers DEF OwnInv
<1>2. None.session = NULL /\ \A p \in Pointer : p # None
  BY AddressesAssumption DEF None, Pointer
<1>3. ASSUME NEW p \in Pointer, OwnPointer(p)
      PROVE  p.session \in Addresses /\ sessions[p.session] = p.callno
             /\ sessions[p.session] # 0
  BY <1>2, <1>3 DEF OwnPointer, Pointer, CallNo
<1>4. ASSUME NEW p \in Pointer, NEW r \in Pointer \cup {None},
             OwnPointer(p), OwnPointer(r), p.session = r.session
      PROVE  p = r
  <2>1. r \in Pointer
    BY <1>2, <1>4, AddressesAssumption DEF Pointer
  <2>2. p.callno = r.callno
    BY <1>2, <1>4, <2>1 DEF OwnPointer
  <2> QED
    BY <1>4, <2>1, <2>2 DEF Pointer
<1>5. \A c \in Appearances : calls[c] # None => calls[c] \in Pointer
  BY <1>1 DEF PointersTyped
<1>6. \A c \in Appearances : OwnPointer(calls[c]) /\ calls[c] \in Pointer \cup {None}
  BY <1>1 DEF PointersTyped, PointersOwn
<1>7. OwnPointer(registration) /\ registration \in Pointer \cup {None}
  BY <1>1 DEF PointersTyped, PointersOwn
<1>8. ASSUME NEW c \in Appearances, calls[c] # None
      PROVE  /\ registration.session # calls[c].session
             /\ \A d \in Appearances : d # c => calls[d].session # calls[c].session
  BY <1>1, <1>4, <1>5, <1>6, <1>7, <1>8 DEF PointersOwn
<1> QED
  BY <1>1, <1>3, <1>5, <1>6, <1>7, <1>8

\* destroy_session(a), when no pointer to a is left
LEMMA DestroyOwned ==
    ASSUME OwnInv, TypeInv', NEW a \in Addresses, NEW q \in SUBSET Entry,
           \A e \in q : e \in schedq \/ e.session = a,
           destroy_session(a, q),
           \A c \in Appearances : calls'[c] \in {calls[c], None} /\ calls'[c].session # a,
           registration' \in {registration, None}, registration'.session # a
    PROVE  OwnInv'
<1>1. /\ sessions' = [sessions EXCEPT ![a] = 0]
      /\ jb' = [jb EXCEPT ![a] = {}]
      /\ schedq' = MarkSent(q, a)
  BY DEF destroy_session, Without, Emptied
<1>2. /\ sessions \in [Addresses -> {0} \cup CallNo]
      /\ jb \in [Addresses -> SUBSET Events]
  BY DEF OwnInv, TypeInv, TypeOK
<1>3. PointersTyped'
  BY DEF TypeInv, TypeOK, NumbersAreOld, PointersTyped
<1>4. PointersOwn
  BY PointersApart
<1>5. PointersOwn'
  <2>1. ASSUME NEW c \in Appearances PROVE OwnPointer(calls[c])'
    <3>1. calls'[c] = calls[c] \/ calls'[c] = None
      OBVIOUS
    <3>2. OwnPointer(calls[c])
      BY <1>4 DEF PointersOwn
    <3> QED
      BY <1>1, <1>2, <3>1, <3>2 DEF OwnPointer
  <2>2. OwnPointer(registration)'
    <3>1. registration' = registration \/ registration' = None
      OBVIOUS
    <3>2. OwnPointer(registration)
      BY <1>4 DEF PointersOwn
    <3> QED
      BY <1>1, <1>2, <3>1, <3>2 DEF OwnPointer
  <2> QED
    BY <2>1, <2>2, <1>4 DEF PointersOwn
<1>7. ASSUME NEW e \in schedq', e.kind # "ping", e.retries > 0
      PROVE  sessions'[e.session] = e.callno
  <2>1. PICK old \in q : /\ e.kind = old.kind /\ e.session = old.session
                         /\ e.callno = old.callno
                         /\ e = old /\ e.session # a
    BY <1>1, <1>7, MarkSentFrom
  <2>2. e \in schedq /\ e.session \in Addresses
    BY <1>7, <2>1 DEF Entry
  <2>3. sessions[e.session] = e.callno
    BY <1>7, <2>2 DEF OwnInv, FramesInv, FramesOwn
  <2> QED
    BY <1>1, <1>2, <2>1, <2>2, <2>3
<1>8. ASSUME NEW e \in schedq', e.kind = "final"
      PROVE  /\ "connect" \notin jb'[e.session]
             /\ registration'.session # e.session
             /\ \A c \in Appearances : calls'[c].session # e.session
  <2>1. PICK old \in q : /\ e.kind = old.kind /\ e.session = old.session
    BY <1>1, MarkSentFrom
  <2>2. e.session \in Addresses
    BY <2>1 DEF Entry
  <2>3. CASE e.session = a
    BY <1>1, <1>2, <2>3
  <2>4. CASE e.session # a
    <3>1. /\ "connect" \notin jb[e.session]
          /\ registration.session # e.session
          /\ \A c \in Appearances : calls[c].session # e.session
      BY <1>8, <2>1, <2>4 DEF OwnInv, FramesInv, FinalsUnowned
    <3>2. None.session # e.session
      BY <2>2, AddressesAssumption DEF None
    <3> QED
      BY <1>1, <1>2, <2>2, <2>4, <3>1, <3>2
  <2> QED
    BY <2>3, <2>4
<1>9. FramesInv'
  BY <1>7, <1>8 DEF FramesInv, FramesOwn, FinalsUnowned
<1>10. CallersWait'
  <2> SUFFICES ASSUME NEW b \in Addresses, "connect" \in jb'[b]
               PROVE  /\ registration'.session # b
                      /\ \A c \in Appearances : calls'[c].session # b
    BY DEF CallersWait
  <2>1. b # a /\ "connect" \in jb[b]
    BY <1>1, <1>2
  <2>2. None.session # b
    BY AddressesAssumption DEF None
  <2> QED
    BY <2>1, <2>2 DEF OwnInv, CallersWait
<1> QED
  BY <1>5, <1>9, <1>10 DEF OwnInv

\* The session at a lives on with a final frame, and no pointer to it is left
LEMMA EndingOwned ==
    ASSUME OwnInv, TypeInv', NEW a \in Addresses, UNCHANGED sessions,
           \A b \in Addresses : "connect" \in jb'[b] => "connect" \in jb[b] /\ b # a,
           \A e \in schedq' : e \in schedq \/
               (e.kind = "final" /\ e.session = a /\ e.callno = sessions[a]),
           \A c \in Appearances : calls'[c] \in {calls[c], None} /\ calls'[c].session # a,
           registration' \in {registration, None}, registration'.session # a
    PROVE  OwnInv'
<1>1. \A b \in Addresses : None.session # b
  BY AddressesAssumption DEF None
<1>2. \A e \in schedq' : e.session \in Addresses
  BY DEF TypeInv, TypeOK, Entry
<1>3. PointersOwn'
  <2>1. PointersOwn
    BY DEF OwnInv
  <2>2. \A c \in Appearances : OwnPointer(calls[c])'
    BY <2>1 DEF PointersOwn, OwnPointer
  <2>3. OwnPointer(registration)'
    BY <2>1 DEF PointersOwn, OwnPointer
  <2> QED
    BY <2>1, <2>2, <2>3 DEF PointersOwn
<1>4. FramesOwn'
  BY DEF OwnInv, FramesInv, FramesOwn
<1>5. FinalsUnowned'
  <2> SUFFICES ASSUME NEW e \in schedq', e.kind = "final"
               PROVE  /\ "connect" \notin jb'[e.session]
                      /\ registration'.session # e.session
                      /\ \A c \in Appearances : calls'[c].session # e.session
    BY DEF FinalsUnowned
  <2>1. CASE e.session = a
    BY <1>2, <2>1
  <2>2. CASE e \in schedq
    <3>1. /\ "connect" \notin jb[e.session]
          /\ registration.session # e.session
          /\ \A c \in Appearances : calls[c].session # e.session
      BY <2>2 DEF OwnInv, FramesInv, FinalsUnowned
    <3> QED
      BY <1>1, <1>2, <3>1
  <2> QED
    BY <2>1, <2>2
<1>6. CallersWait'
  BY <1>1 DEF OwnInv, CallersWait
<1> QED
  BY <1>3, <1>4, <1>5, <1>6 DEF OwnInv, FramesInv

\* A session is made at address a, where none was, nor any final frame: the
\* pointers are those of before, or the new one, and so are the frames
LEMMA NewOwned ==
    ASSUME OwnInv, TypeInv', NEW a \in Addresses,
           NEW live \in [Addresses -> {0} \cup CallNo], live[a] = 0,
           callnums \in CallNo, sessions' = [live EXCEPT ![a] = callnums],
           \A b \in Addresses : b # a => jb'[b] \subseteq jb[b],
           "connect" \in jb'[a] => calls' = calls /\ registration' = registration,
           \A c \in Appearances : calls'[c] = New(a) \/
                /\ calls'[c] = calls[c]
                /\ calls[c] # None => live[calls[c].session] = calls[c].callno,
           registration' = New(a) \/
                /\ registration' = registration
                /\ registration # None => live[registration.session] = registration.callno,
           \A c \in Appearances : calls'[c] = New(a) =>
                /\ registration' # New(a)
                /\ \A d \in Appearances : d # c => calls'[d] # New(a),
           \A e \in schedq' : e.kind # "ping" /\ e.retries > 0 =>
                \/ e.session = a /\ e.callno = callnums
                \/ live[e.session] = e.callno,
           \A e \in schedq' : e.kind = "final" => e.session # a /\
                \E old \in schedq : old.kind = "final" /\ old.session = e.session
    PROVE  OwnInv'
<1>1. callnums # 0 /\ callnums \in {0} \cup CallNo /\ 0 \notin CallNo
  BY DEF CallNo
<1>2. New(a) \in Pointer /\ New(a).callno = callnums /\ New(a).session = a
  BY NewPointer
<1>3. PointersTyped' /\ PointersTyped /\ PointersOwn
  BY TypesOfPointers, PointersApart DEF TypeInv, TypeOK, NumbersAreOld, PointersTyped, OwnInv
<1>4. \A p \in Pointer : p.session \in Addresses /\ p.callno \in CallNo
  BY DEF Pointer
<1>5. None.session = NULL /\ NULL # a
  BY AddressesAssumption DEF None
<1>6. /\ \A c \in Appearances : calls[c] \in Pointer \cup {None}
      /\ registration \in Pointer \cup {None}
  BY <1>3 DEF PointersTyped
\* An old pointer that stays does not point to a, and is as it was
<1>7. ASSUME NEW p \in Pointer \cup {None},
             p # None => live[p.session] = p.callno
      PROVE  p.session # a /\ (p # None => /\ p.session \in Addresses
                                           /\ sessions'[p.session] = p.callno)
  <2>1. CASE p = None
    BY <2>1, <1>5
  <2>2. CASE p # None
    <3>1. p \in Pointer
      BY <2>2
    <3>2. p.session \in Addresses /\ p.callno # 0
      BY <3>1, <1>1, <1>4
    <3>3. p.session # a
      BY <3>2, <2>2, <1>7
    <3> QED
      BY <3>2, <3>3, <2>2, <1>7
  <2> QED
    BY <2>1, <2>2
<1>8. ASSUME NEW c \in Appearances PROVE OwnPointer(calls[c])'
  BY <1>1, <1>2, <1>6, <1>7 DEF OwnPointer
<1>9. OwnPointer(registration)'
  BY <1>1, <1>2, <1>6, <1>7 DEF OwnPointer
<1>10. ASSUME NEW c \in Appearances, calls'[c] # None
       PROVE  /\ calls'[c] # registration'
              /\ \A d \in Appearances : d # c => calls'[c] # calls'[d]
  <2>1. CASE calls'[c] = New(a)
    BY <2>1
  <2>2. CASE calls'[c] # New(a)
    <3>1. calls'[c] = calls[c] /\ calls[c] # None
      BY <2>2, <1>10
    <3>2. calls[c] # registration
      BY <3>1, <1>3 DEF PointersOwn
    <3>3. \A d \in Appearances : d # c => calls[c] # calls[d]
      BY <3>1, <1>3 DEF PointersOwn
    <3> QED
      BY <2>2, <3>1, <3>2, <3>3
  <2> QED
    BY <2>1, <2>2
<1>11. PointersOwn'
  BY <1>8, <1>9, <1>10 DEF PointersOwn
<1>12. \A e \in schedq' : e \in Entry
  BY DEF TypeInv, TypeOK
<1>13. FramesOwn'
  <2> SUFFICES ASSUME NEW e \in schedq', e.kind # "ping", e.retries > 0
               PROVE  sessions'[e.session] = e.callno
    BY DEF FramesOwn
  <2>1. e.session \in Addresses /\ e.callno # 0
    BY <1>1, <1>12 DEF Entry
  <2>2. CASE e.session = a /\ e.callno = callnums
    BY <2>2
  <2>3. CASE live[e.session] = e.callno
    BY <2>1, <2>3
  <2> QED
    BY <2>2, <2>3
<1>14. FinalsUnowned'
  <2> SUFFICES ASSUME NEW e \in schedq', e.kind = "final"
               PROVE  /\ "connect" \notin jb'[e.session]
                      /\ registration'.session # e.session
                      /\ \A c \in Appearances : calls'[c].session # e.session
    BY DEF FinalsUnowned
  <2>1. e.session \in Addresses /\ e.session # a
    BY <1>12 DEF Entry
  <2>2. PICK old \in schedq : old.kind = "final" /\ old.session = e.session
    OBVIOUS
  <2>3. /\ "connect" \notin jb[e.session]
        /\ registration.session # e.session
        /\ \A c \in Appearances : calls[c].session # e.session
    BY <2>2 DEF OwnInv, FramesInv, FinalsUnowned
  <2> QED
    BY <1>2, <2>1, <2>3
<1>15. CallersWait'
  <2> SUFFICES ASSUME NEW b \in Addresses, "connect" \in jb'[b]
               PROVE  /\ registration'.session # b
                      /\ \A c \in Appearances : calls'[c].session # b
    BY DEF CallersWait
  <2>1. CASE b # a
    <3>1. "connect" \in jb[b]
      BY <2>1
    <3>2. registration.session # b /\ \A c \in Appearances : calls[c].session # b
      BY <3>1 DEF OwnInv, CallersWait
    <3> QED
      BY <2>1, <3>2, <1>2
  <2>2. CASE b = a
    <3>1. calls' = calls /\ registration' = registration
      BY <2>2
    <3>2. \A p \in Pointer : p = New(a) => live[p.session] # p.callno
      BY <1>1, <1>2
    <3>3. ASSUME NEW p \in Pointer \cup {None}, OwnPointer(p), p = New(a)
          PROVE  FALSE
      <4>1. sessions[a] = callnums /\ sessions[a] < callnums
        BY <3>3, <1>2, <1>5 DEF OwnPointer, OwnInv, TypeInv, NumbersAreOld
      <4> QED
        BY <4>1, <1>1 DEF CallNo
    <3>4. registration # New(a) /\ \A c \in Appearances : calls[c] # New(a)
      BY <3>3, <1>3, <1>6 DEF PointersOwn
    <3>5. registration.session # a
      BY <3>1, <3>4, <1>6, <1>7
    <3>6. ASSUME NEW c \in Appearances PROVE calls[c].session # a
      BY <3>1, <3>4, <1>6, <1>7
    <3> QED
      BY <2>2, <3>1, <3>5, <3>6
  <2> QED
    BY <2>1, <2>2
<1> QED
  BY <1>11, <1>13, <1>14, <1>15 DEF OwnInv, FramesInv

\* A step that leaves the sessions and pointers, and takes nothing but events
\* other than "connect" into the jitter buffers
LEMMA FramesOwned ==
    ASSUME OwnInv, TypeInv', UNCHANGED <<sessions, calls, registration>>,
           \A a \in Addresses : "connect" \in jb'[a] => "connect" \in jb[a],
           \A e \in schedq' : e.kind # "ping" /\ e.retries > 0 =>
                e \in schedq \/ sessions[e.session] = e.callno,
           \A e \in schedq' : e.kind = "final" =>
                \E old \in schedq : old.kind = "final" /\ old.session = e.session
    PROVE  OwnInv'
<1>1. PointersOwn'
  BY DEF OwnInv, PointersOwn, OwnPointer
<1>2. FramesInv'
  <2>1. \A e \in schedq' : e.session \in Addresses
    BY DEF TypeInv, TypeOK, Entry
  <2> QED
    BY <2>1 DEF OwnInv, FramesInv, FramesOwn, FinalsUnowned
<1>3. CallersWait'
  BY DEF OwnInv, CallersWait
<1> QED
  BY <1>1, <1>2, <1>3 DEF OwnInv

\* Every step keeps OwnInv, if addresses wait for their final frames, but a POKE
\* that frees a session under iaxclient
LEMMA OwnStep ==
    ASSUME ~Reuse, OwnInv, [Next]_vars, ~poked' PROVE OwnInv'
<1> USE DEF memory
<1>t. TypeInv'
  BY TypeStep DEF OwnInv
<1>a. /\ sessions \in [Addresses -> {0} \cup CallNo]
      /\ jb \in [Addresses -> SUBSET Events]
      /\ calls \in [Appearances -> Pointer \cup {None}]
      /\ registration \in Pointer \cup {None}
      /\ schedq \in SUBSET Entry
  BY DEF OwnInv, TypeInv, TypeOK
<1>b. \A a \in Addresses : sessions[a] = 0 => jb[a] = {}
  BY DEF OwnInv, TypeInv, DeadAreSilent
<1>p. /\ \A c \in Appearances : calls[c] # None =>
           /\ calls[c].session \in Addresses
           /\ sessions[calls[c].session] = calls[c].callno
           /\ sessions[calls[c].session] # 0
           /\ registration.session # calls[c].session
           /\ \A d \in Appearances : d # c => calls[d].session # calls[c].session
      /\ registration # None =>
           /\ registration.session \in Addresses
           /\ sessions[registration.session] = registration.callno
           /\ sessions[registration.session] # 0
  BY PointersApart
<1>f. /\ \A e \in schedq : e.kind # "ping" /\ e.retries > 0 =>
                              sessions[e.session] = e.callno
      /\ \A e \in schedq : e.kind = "final" =>
            /\ registration.session # e.session
            /\ \A c \in Appearances : calls[c].session # e.session
  BY DEF OwnInv, FramesInv, FramesOwn, FinalsUnowned
<1>w. \A a \in Addresses : "connect" \in jb[a] =>
          registration.session # a /\ \A c \in Appearances : calls[c].session # a
  BY DEF OwnInv, CallersWait
<1>n. /\ None.session = NULL
      /\ \A a \in Addresses : None.session # a
  BY AddressesAssumption DEF None
\* What iax_sched_add adds
<1>s. \A kind, a, n : /\ Sched(kind, a, n).kind = kind
                      /\ Sched(kind, a, n).session = a
                      /\ Sched(kind, a, n).callno = n
  BY DEF Sched
\* Nobody has the pointer to the session that is made next
<1>o. ASSUME callnums \in CallNo, NEW a \in Addresses
      PROVE  /\ New(a) # None /\ New(a).session = a /\ New(a).callno = callnums
             /\ registration # New(a)
             /\ \A c \in Appearances : calls[c] # New(a)
  <2>1. New(a).callno = callnums /\ New(a).session = a
    BY <1>o, NewPointer
  <2>2. registration.callno < callnums /\ \A c \in Appearances : calls[c].callno < callnums
    BY DEF OwnInv, TypeInv, NumbersAreOld
  <2>3. callnums \in Int
    BY <1>o DEF CallNo
  <2> QED
    BY <1>n, <2>1, <2>2, <2>3
\* The session made at a, where none was
<1>m. ASSUME NEW a \in Addresses, NEW live, NEW buffers,
             iax_session_new(a, live, buffers)
      PROVE  /\ callnums \in CallNo
             /\ live[a] = 0
             /\ sessions' = [live EXCEPT ![a] = callnums]
             /\ jb' = buffers
             /\ \A e \in schedq : e.kind = "final" => e.session # a
  <2>1. callnums \in 1 .. MaxSessions + 1 /\ callnums <= MaxSessions
    BY <1>m DEF iax_session_new, Allocates, OwnInv, TypeInv, TypeOK
  <2>2. callnums \in CallNo
    BY <2>1, BoundsAssumption DEF CallNo
  <2> QED
    BY <1>m, <2>2 DEF iax_session_new, Allocates
<1>1. CASE Dial
  <2>1. PICK c \in Appearances, a \in Addresses :
            /\ calls[c] = None
            /\ iax_session_new(a, sessions, jb)
            /\ calls' = [calls EXCEPT ![c] = New(a)]
            /\ \E frames \in SUBSET {Sched("frame", a, callnums)} :
                  schedq' = schedq \cup {Sched("ping", a, callnums)} \cup frames
            /\ UNCHANGED <<registration, registered>>
    BY <1>1 DEF Dial
  <2>2. /\ callnums \in CallNo /\ sessions[a] = 0
        /\ sessions' = [sessions EXCEPT ![a] = callnums] /\ jb' = jb
        /\ \A e \in schedq : e.kind = "final" => e.session # a
    BY <2>1, <1>m
  <2>3. \A d \in Appearances : calls'[d] = IF d = c THEN New(a) ELSE calls[d]
    BY <2>1, <1>a
  <2>4. ASSUME NEW e \in schedq'
        PROVE  \/ e \in schedq
               \/ e = Sched("ping", a, callnums)
               \/ e = Sched("frame", a, callnums)
    BY <2>1
  <2>5. \A e \in schedq' : e.kind # "ping" /\ e.retries > 0 =>
            \/ e.session = a /\ e.callno = callnums
            \/ sessions[e.session] = e.callno
    BY <1>f, <1>s, <2>4
  <2>6. \A e \in schedq' : e.kind = "final" => e.session # a /\
            \E old \in schedq : old.kind = "final" /\ old.session = e.session
    BY <1>s, <2>2, <2>4
  <2>7. \A d \in Appearances : calls'[d] = New(a) \/
            /\ calls'[d] = calls[d]
            /\ calls[d] # None => sessions[calls[d].session] = calls[d].callno
    BY <1>p, <2>3
  <2>8. "connect" \notin jb'[a]
    BY <1>b, <2>2
  <2>9. \A d \in Appearances : calls'[d] = New(a) =>
            /\ registration' # New(a)
            /\ \A g \in Appearances : g # d => calls'[g] # New(a)
    BY <1>o, <2>1, <2>2, <2>3
  <2>10. /\ \A b \in Addresses : b # a => jb'[b] \subseteq jb[b]
         /\ "connect" \in jb'[a] => calls' = calls /\ registration' = registration
         /\ registration' = New(a) \/
                /\ registration' = registration
                /\ registration # None =>
                       sessions[registration.session] = registration.callno
    BY <1>p, <2>1, <2>2, <2>8
  <2> QED
    BY <1>t, <1>a, <2>2, <2>5, <2>6, <2>7, <2>9, <2>10, NewOwned
<1>2. CASE Register
  <2>1. PICK a \in Addresses :
            /\ iax_session_new(a, sessions, jb)
            /\ registration' = New(a) /\ registered' = "listed"
            /\ schedq' = schedq \cup {Sched("frame", a, callnums)}
            /\ UNCHANGED calls
    BY <1>2 DEF Register
  <2>2. /\ callnums \in CallNo /\ sessions[a] = 0
        /\ sessions' = [sessions EXCEPT ![a] = callnums] /\ jb' = jb
        /\ \A e \in schedq : e.kind = "final" => e.session # a
    BY <2>1, <1>m
  <2>3. \A e \in schedq' : e \in schedq \/ e = Sched("frame", a, callnums)
    BY <2>1
  <2>4. \A e \in schedq' : e.kind # "ping" /\ e.retries > 0 =>
            \/ e.session = a /\ e.callno = callnums
            \/ sessions[e.session] = e.callno
    BY <1>f, <1>s, <2>3
  <2>5. \A e \in schedq' : e.kind = "final" => e.session # a /\
            \E old \in schedq : old.kind = "final" /\ old.session = e.session
    BY <1>s, <2>2, <2>3
  <2>6. \A d \in Appearances : calls'[d] # New(a) /\ calls'[d] = calls[d] /\
            (calls[d] # None => sessions[calls[d].session] = calls[d].callno)
    BY <1>p, <1>o, <2>1, <2>2
  <2>7. "connect" \notin jb'[a]
    BY <1>b, <2>2
  <2>8. /\ \A b \in Addresses : b # a => jb'[b] \subseteq jb[b]
        /\ "connect" \in jb'[a] => calls' = calls /\ registration' = registration
        /\ \A d \in Appearances : calls'[d] = New(a) \/
               /\ calls'[d] = calls[d]
               /\ calls[d] # None => sessions[calls[d].session] = calls[d].callno
        /\ \A d \in Appearances : calls'[d] = New(a) =>
               /\ registration' # New(a)
               /\ \A g \in Appearances : g # d => calls'[g] # New(a)
    BY <2>2, <2>6, <2>7
  <2> QED
    BY <1>t, <1>a, <2>1, <2>2, <2>4, <2>5, <2>8, NewOwned
<1>3. CASE Refresh
  <2> DEFINE old == registration.session
             live == IF old = NULL THEN sessions ELSE Without(old)
             buffers == IF old = NULL THEN jb ELSE Emptied(old)
  <2>1. PICK a \in Addresses :
            /\ iax_session_new(a, live, buffers)
            /\ registration' = New(a)
            /\ schedq' = (IF old = NULL THEN schedq ELSE MarkSent(schedq, old))
                            \cup {Sched("frame", a, callnums)}
            /\ UNCHANGED <<calls, registered>>
    BY <1>3 DEF Refresh
  <2>2. /\ live \in [Addresses -> {0} \cup CallNo]
        /\ \A b \in Addresses : b # old => live[b] = sessions[b]
        /\ \A b \in Addresses : b = old => live[b] = 0
        /\ \A b \in Addresses : live[b] = 0 => buffers[b] = {}
        /\ \A b \in Addresses : buffers[b] \subseteq jb[b]
    BY <1>a, <1>b, AddressesAssumption DEF Without, Emptied
  <2> HIDE DEF live, buffers
  <2>3. /\ callnums \in CallNo /\ live[a] = 0
        /\ sessions' = [live EXCEPT ![a] = callnums] /\ jb' = buffers
        /\ \A e \in schedq : e.kind = "final" => e.session # a
    BY <2>1, <1>m
  <2>4. \A d \in Appearances : calls'[d] # New(a) /\ calls'[d] = calls[d] /\
            (calls[d] # None => live[calls[d].session] = calls[d].callno)
    BY <1>p, <1>o, <2>1, <2>2, <2>3
  <2>5. "connect" \notin jb'[a]
    BY <2>2, <2>3
  <2>6. ASSUME NEW e \in schedq', e # Sched("frame", a, callnums)
        PROVE  \E was \in schedq :
                  /\ e.kind = was.kind /\ e.session = was.session
                  /\ e.kind # "ping" /\ e.retries > 0 => e = was /\ e.session # old
    <3>1. CASE old = NULL
      <4>1. e \in schedq
        BY <2>1, <2>6, <3>1
      <4>2. e.session # old
        BY <1>a, <3>1, <4>1, AddressesAssumption DEF Entry
      <4> QED
        BY <4>1, <4>2
    <3>2. CASE old # NULL
      <4>1. e \in MarkSent(schedq, old)
        BY <2>1, <2>6, <3>2
      <4> QED
        BY <1>a, <4>1, MarkSentFrom
    <3> QED
      BY <3>1, <3>2
  <2>7. \A e \in schedq : e.session \in Addresses
    BY <1>a DEF Entry
  <2>8. \A e \in schedq' : e.kind # "ping" /\ e.retries > 0 =>
            \/ e.session = a /\ e.callno = callnums
            \/ live[e.session] = e.callno
    BY <1>f, <1>s, <2>2, <2>6, <2>7
  <2>9. \A e \in schedq' : e.kind = "final" => e.session # a /\
            \E was \in schedq : was.kind = "final" /\ was.session = e.session
    BY <1>s, <2>3, <2>6
  <2>10. /\ \A b \in Addresses : b # a => jb'[b] \subseteq jb[b]
         /\ "connect" \in jb'[a] => calls' = calls /\ registration' = registration
         /\ \A d \in Appearances : calls'[d] = New(a) \/
                /\ calls'[d] = calls[d]
                /\ calls[d] # None => live[calls[d].session] = calls[d].callno
         /\ \A d \in Appearances : calls'[d] = New(a) =>
                /\ registration' # New(a)
                /\ \A g \in Appearances : g # d => calls'[g] # New(a)
    BY <2>2, <2>3, <2>4, <2>5
  <2>11. live \in [Addresses -> {0} \cup CallNo] /\ registration' = New(a)
    BY <2>1, <2>2
  <2> HIDE DEF old
  <2> QED
    BY <1>t, <2>3, <2>8, <2>9, <2>10, <2>11, NewOwned
<1>4. CASE Arrive
  <2>1. PICK a \in Addresses, events \in {{}, {"connect"}} :
            /\ iax_session_new(a, sessions, [jb EXCEPT ![a] = events])
            /\ schedq' = schedq \cup {Sched("ping", a, callnums)}
            /\ UNCHANGED <<calls, registration, registered>>
    BY <1>4 DEF Arrive
  <2>2. /\ callnums \in CallNo /\ sessions[a] = 0
        /\ sessions' = [sessions EXCEPT ![a] = callnums]
        /\ jb' = [jb EXCEPT ![a] = events]
        /\ \A e \in schedq : e.kind = "final" => e.session # a
    BY <2>1, <1>m
  <2>3. \A e \in schedq' : e \in schedq \/ e = Sched("ping", a, callnums)
    BY <2>1
  <2>4. \A e \in schedq' : e.kind # "ping" /\ e.retries > 0 =>
            sessions[e.session] = e.callno
    BY <1>f, <1>s, <2>3
  <2>5. \A e \in schedq' : e.kind = "final" => e.session # a /\
            \E old \in schedq : old.kind = "final" /\ old.session = e.session
    BY <1>s, <2>2, <2>3
  <2>6. \A d \in Appearances : calls'[d] # New(a) /\ calls'[d] = calls[d] /\
            (calls[d] # None => sessions[calls[d].session] = calls[d].callno)
    BY <1>p, <1>o, <2>1, <2>2
  <2>7. \A b \in Addresses : b # a => jb'[b] \subseteq jb[b]
    BY <1>a, <2>2
  <2>8. /\ "connect" \in jb'[a] => calls' = calls /\ registration' = registration
        /\ \A d \in Appearances : calls'[d] = New(a) \/
               /\ calls'[d] = calls[d]
               /\ calls[d] # None => sessions[calls[d].session] = calls[d].callno
        /\ \A d \in Appearances : calls'[d] = New(a) =>
               /\ registration' # New(a)
               /\ \A g \in Appearances : g # d => calls'[g] # New(a)
        /\ registration' = New(a) \/
               /\ registration' = registration
               /\ registration # None =>
                      sessions[registration.session] = registration.callno
    BY <1>p, <2>1, <2>6
  <2>9. \A e \in schedq' : e.kind # "ping" /\ e.retries > 0 =>
            \/ e.session = a /\ e.callno = callnums
            \/ sessions[e.session] = e.callno
    BY <2>4
  <2> QED
    BY <1>t, <1>a, <2>2, <2>5, <2>7, <2>8, <2>9, NewOwned
<1>5. CASE Poke
  <2>1. PICK a \in Addresses :
          /\ \/ /\ schedq' = MarkSent(schedq \cup {Sched("ping", a, callnums),
                                                   Sched("frame", a, callnums)}, a)
                /\ callnums <= MaxSessions
                /\ UNCHANGED <<sessions, jb>>
             \/ /\ sessions[a] # 0
                /\ destroy_session(a, schedq \cup {Sched("frame", a, sessions[a])})
                /\ \A p \in Pointers : p.session # a
          /\ UNCHANGED <<calls, registration, registered>>
    BY <1>5 DEF Poke, Allocates
  <2>2. CASE /\ schedq' = MarkSent(schedq \cup {Sched("ping", a, callnums),
                                                Sched("frame", a, callnums)}, a)
             /\ callnums <= MaxSessions
             /\ UNCHANGED <<sessions, jb>>
    <3>1. callnums \in CallNo
      BY <2>2, BoundsAssumption DEF CallNo, OwnInv, TypeInv, TypeOK
    <3> DEFINE q == schedq \cup {Sched("ping", a, callnums), Sched("frame", a, callnums)}
    <3>2. q \in SUBSET Entry
      BY <1>a, <3>1, SchedType
    <3>3. ASSUME NEW e \in schedq'
          PROVE  \E was \in q :
                    /\ e.kind = was.kind /\ e.session = was.session
                    /\ e.kind # "ping" /\ e.retries > 0 => e = was /\ e.session # a
      BY <2>2, <3>2, MarkSentFrom
    <3>4. \A e \in schedq' : e.kind # "ping" /\ e.retries > 0 => e \in schedq
      BY <1>s, <3>3
    <3>5. \A e \in schedq' : e.kind = "final" =>
              \E was \in schedq : was.kind = "final" /\ was.session = e.session
      BY <1>s, <3>3
    <3> QED
      BY <1>t, <2>1, <2>2, <3>4, <3>5, FramesOwned
  <2>3. CASE /\ sessions[a] # 0
             /\ destroy_session(a, schedq \cup {Sched("frame", a, sessions[a])})
             /\ \A p \in Pointers : p.session # a
    <3> DEFINE q == schedq \cup {Sched("frame", a, sessions[a])}
    <3>1. q \in SUBSET Entry
      BY <1>a, <2>3, SchedType
    <3>2. \A e \in q : e \in schedq \/ e.session = a
      BY <1>s
    <3>3. registration.session # a /\ \A c \in Appearances : calls[c].session # a
      BY <2>3 DEF Pointers, CallPointers
    <3> HIDE DEF q
    <3>4. destroy_session(a, q)
      BY <2>3 DEF q
    <3> QED
      BY <1>t, <2>1, <3>1, <3>2, <3>3, <3>4, DestroyOwned
  <2> QED
    BY <2>1, <2>2, <2>3
\* Through any pointer iaxclient sends on its own session
<1>6. CASE Send
  <2>1. PICK p \in (CallPointers \ {None})
                     \cup {[session |-> a, callno |-> sessions[a]] :
                              a \in {b \in Addresses : sessions[b] # 0}} :
            /\ schedq' = schedq \cup {Sched("frame", p.session, NumberAt(p))}
            /\ UNCHANGED <<memory, calls, registration, registered>>
    BY <1>6 DEF Send
  <2>2. sessions[p.session] # 0
    BY <1>p DEF CallPointers
  <2>3. NumberAt(p) = sessions[p.session]
    BY <2>2 DEF NumberAt
  <2>4. \A e \in schedq' : e \in schedq \/
            (e.kind = "frame" /\ sessions[e.session] = e.callno)
    BY <1>s, <2>1, <2>3
  <2> QED
    BY <1>t, <2>1, <2>4, FramesOwned
<1>7. CASE Hear
  <2>1. PICK a \in Addresses :
            /\ jb' = [jb EXCEPT ![a] = @ \cup {"hangup"}]
            /\ UNCHANGED <<sessions, callnums, calls, registration, registered, schedq>>
    BY <1>7 DEF Hear
  <2>2. \A b \in Addresses : "connect" \in jb'[b] => "connect" \in jb[b]
    BY <1>a, <2>1
  <2> QED
    BY <1>t, <2>1, <2>2, FramesOwned
<1>20. CASE HearUnknown
  <2>1. PICK a \in Addresses :
            /\ jb' = [jb EXCEPT ![a] = @ \ {"connect"}]
            /\ UNCHANGED <<sessions, callnums, calls, registration, registered, schedq>>
    BY <1>20 DEF HearUnknown
  <2>2. \A b \in Addresses : "connect" \in jb'[b] => "connect" \in jb[b]
    BY <1>a, <2>1
  <2> QED
    BY <1>t, <2>1, <2>2, FramesOwned
\* An appearance is cleared: no pointer to the session it had is left
<1>8. ASSUME NEW c \in Appearances, calls[c] # None, ClearCall(c)
      PROVE  /\ registration.session # calls[c].session
             /\ \A d \in Appearances : calls'[d] \in {calls[d], None}
                                       /\ calls'[d].session # calls[c].session
  <2>1. \A d \in Appearances : calls'[d] = IF d = c THEN None ELSE calls[d]
    BY <1>8, <1>a DEF ClearCall
  <2> QED
    BY <1>8, <1>n, <1>p, <2>1
<1>9. CASE HearHangup
  <2>1. PICK a \in Addresses :
            /\ \/ /\ \E c \in Appearances : calls[c].session = a /\ ClearCall(c)
                  /\ UNCHANGED registration
               \/ /\ ~OfACall(a)
                  /\ registration' = IF registration.session = a THEN None
                                     ELSE registration
                  /\ UNCHANGED calls
            /\ destroy_session(a, schedq)
    BY <1>9 DEF HearHangup
  <2>2. /\ registration' \in {registration, None} /\ registration'.session # a
        /\ \A c \in Appearances : calls'[c] \in {calls[c], None}
                                  /\ calls'[c].session # a
    <3>1. CASE /\ \E c \in Appearances : calls[c].session = a /\ ClearCall(c)
               /\ UNCHANGED registration
      BY <1>8, <1>n, <3>1
    <3>2. CASE /\ ~OfACall(a)
               /\ registration' = IF registration.session = a THEN None
                                  ELSE registration
               /\ UNCHANGED calls
      BY <1>n, <3>2 DEF OfACall
    <3> QED
      BY <2>1, <3>1, <3>2
  <2> QED
    BY <1>t, <1>a, <2>1, <2>2, DestroyOwned
<1>10. CASE HearReply
  <2> DEFINE a == registration.session
  <2>1. /\ registration # None /\ ~OfACall(a)
        /\ registration' = None
        /\ destroy_session(a, schedq)
        /\ UNCHANGED calls
    BY <1>10 DEF HearReply
  <2>2. \A c \in Appearances : calls'[c] \in {calls[c], None} /\ calls'[c].session # a
    BY <2>1 DEF OfACall
  <2>3. a \in Addresses /\ registration'.session # a
    BY <1>n, <1>p, <2>1
  <2> HIDE DEF a
  <2> QED
    BY <1>t, <1>a, <2>1, <2>2, <2>3, DestroyOwned
<1>11. CASE Connect
  <2>1. PICK a \in Addresses :
          /\ "connect" \in jb[a]
          /\ UNCHANGED <<registration, registered>>
          /\ \/ /\ \E c \in Appearances :
                      /\ calls[c] = None
                      /\ calls' = [calls EXCEPT ![c] =
                                      [session |-> a, callno |-> sessions[a]]]
                /\ jb' = [jb EXCEPT ![a] = @ \ {"connect"}]
                /\ schedq' = schedq \cup {Sched("frame", a, sessions[a])}
                /\ UNCHANGED <<sessions, callnums>>
             \/ /\ send_command_final(a, sessions[a], schedq,
                                      [jb EXCEPT ![a] = @ \ {"connect"}])
                /\ UNCHANGED calls
             \/ /\ jb' = [jb EXCEPT ![a] = @ \ {"connect"}]
                /\ schedq' = schedq \cup {Sched("frame", a, sessions[a])}
                /\ UNCHANGED <<sessions, callnums, calls>>
    BY <1>11 DEF Connect
  <2>2. registration.session # a /\ \A c \in Appearances : calls[c].session # a
    BY <1>w, <2>1
  <2>3. sessions[a] # 0 /\ sessions[a] \in CallNo
    BY <1>a, <1>b, <2>1
  <2>4. ASSUME schedq' = schedq \cup {Sched("frame", a, sessions[a])}
        PROVE  \A e \in schedq' : e \in schedq \/
                   (e.kind = "frame" /\ sessions[e.session] = e.callno)
    BY <2>4 DEF Sched
  <2>5. ASSUME NEW c \in Appearances, calls[c] = None,
               calls' = [calls EXCEPT ![c] = [session |-> a, callno |-> sessions[a]]],
               jb' = [jb EXCEPT ![a] = @ \ {"connect"}],
               schedq' = schedq \cup {Sched("frame", a, sessions[a])},
               UNCHANGED <<sessions, callnums>>
        PROVE  OwnInv'
    <3> DEFINE new == [session |-> a, callno |-> sessions[a]]
    <3>1. new.session = a /\ new.callno = sessions[a]
      OBVIOUS
    <3> HIDE DEF new
    <3>2. \A d \in Appearances : calls'[d] = IF d = c THEN new ELSE calls[d]
      BY <1>a, <2>5 DEF new
    <3>3. PointersOwn
      BY PointersApart
    <3>4. PointersOwn'
      <4>1. \A d \in Appearances : OwnPointer(calls[d])'
        BY <2>5, <3>1, <3>2, <3>3 DEF PointersOwn, OwnPointer
      <4>2. OwnPointer(registration)'
        BY <2>1, <2>5, <3>3 DEF PointersOwn, OwnPointer
      <4>3. \A d, g \in Appearances : calls'[d] # None /\ d # g => calls'[d] # calls'[g]
        BY <2>2, <3>1, <3>2, <3>3 DEF PointersOwn
      <4>4. \A d \in Appearances : calls'[d] # None => calls'[d] # registration'
        BY <2>1, <2>2, <3>1, <3>2, <3>3 DEF PointersOwn
      <4> QED
        BY <4>1, <4>2, <4>3, <4>4 DEF PointersOwn
    <3>7. FramesOwn'
      BY <1>f, <2>4, <2>5 DEF FramesOwn
    <3>9. FinalsUnowned'
      <4> SUFFICES ASSUME NEW e \in schedq', e.kind = "final"
                   PROVE  /\ "connect" \notin jb'[e.session]
                          /\ registration'.session # e.session
                          /\ \A d \in Appearances : calls'[d].session # e.session
        BY DEF FinalsUnowned
      <4>1. e \in schedq /\ e.session \in Addresses
        BY <1>a, <1>s, <2>5 DEF Entry
      <4>2. "connect" \notin jb[e.session]
        BY <4>1 DEF OwnInv, FramesInv, FinalsUnowned
      <4> QED
        BY <1>a, <1>f, <2>1, <2>5, <3>1, <3>2, <4>1, <4>2
    <3>8. CallersWait'
      <4> SUFFICES ASSUME NEW b \in Addresses, "connect" \in jb'[b]
                   PROVE  /\ registration'.session # b
                          /\ \A d \in Appearances : calls'[d].session # b
        BY DEF CallersWait
      <4>1. b # a /\ "connect" \in jb[b]
        BY <1>a, <2>5
      <4> QED
        BY <1>w, <2>1, <3>1, <3>2, <4>1
    <3> QED
      BY <1>t, <3>4, <3>7, <3>8, <3>9 DEF OwnInv, FramesInv
  <2>6. CASE /\ send_command_final(a, sessions[a], schedq,
                                   [jb EXCEPT ![a] = @ \ {"connect"}])
             /\ UNCHANGED calls
    <3> DEFINE sent == schedq \cup {Sched("final", a, sessions[a])}
               handled == [jb EXCEPT ![a] = @ \ {"connect"}]
    <3>1. sent \in SUBSET Entry
      BY <1>a, <2>3, SchedType
    <3>2. \A e \in sent : e \in schedq \/
              (e.kind = "final" /\ e.session = a /\ e.callno = sessions[a])
      BY <1>s
    <3>3. \A b \in Addresses : "connect" \in handled[b] => "connect" \in jb[b] /\ b # a
      BY <1>a
    <3>4. \/ destroy_session(a, sent)
          \/ schedq' = sent /\ jb' = handled /\ UNCHANGED <<sessions, callnums>>
      BY <2>6, FinalCases
    <3> HIDE DEF sent, handled
    <3>5. CASE destroy_session(a, sent)
      BY <1>t, <2>1, <2>2, <2>6, <3>1, <3>2, <3>5, DestroyOwned
    <3>6. CASE schedq' = sent /\ jb' = handled /\ UNCHANGED <<sessions, callnums>>
      BY <1>t, <2>1, <2>2, <2>6, <3>2, <3>3, <3>6, EndingOwned
    <3> QED
      BY <3>4, <3>5, <3>6
  <2>7. CASE /\ jb' = [jb EXCEPT ![a] = @ \ {"connect"}]
             /\ schedq' = schedq \cup {Sched("frame", a, sessions[a])}
             /\ UNCHANGED <<sessions, callnums, calls>>
    <3>1. \A b \in Addresses : "connect" \in jb'[b] => "connect" \in jb[b]
      BY <1>a, <2>7
    <3> QED
      BY <1>t, <2>1, <2>4, <2>7, <3>1, FramesOwned
  <2> QED
    BY <2>1, <2>5, <2>6, <2>7
<1>12. CASE Ack
  <2>1. PICK e \in schedq :
            /\ schedq' \in {(schedq \ {e}) \cup {MarkedSent(e)},
                            schedq \cup {MarkedSent(e)}}
            /\ UNCHANGED <<memory, calls, registration, registered>>
    BY <1>12 DEF Ack
  <2>2. /\ MarkedSent(e).kind = e.kind /\ MarkedSent(e).session = e.session
        /\ ~(MarkedSent(e).retries > 0)
    BY <1>a, MarkedType
  <2>3. \A f \in schedq' : f \in schedq \/ f = MarkedSent(e)
    BY <2>1
  <2> QED
    BY <1>t, <2>1, <2>2, <2>3, FramesOwned
<1>13. ASSUME NEW e, schedq' = schedq \ {e},
              UNCHANGED <<sessions, jb, calls, registration>>
       PROVE  OwnInv'
  BY <1>t, <1>13, FramesOwned
\* A final frame destroys the session at its address, which nobody points to
<1>14. ASSUME NEW e \in schedq, e.kind = "final",
              destroy_session(e.session, schedq \ {e}),
              UNCHANGED <<calls, registration, registered>>
       PROVE  OwnInv'
  <2>1. e.session \in Addresses /\ schedq \ {e} \in SUBSET Entry
    BY <1>a DEF Entry
  <2>2. /\ registration.session # e.session
        /\ \A c \in Appearances : calls[c].session # e.session
    BY <1>f, <1>14
  <2> QED
    BY <1>t, <1>14, <2>1, <2>2, DestroyOwned
<1>21. CASE Reap
  BY <1>13, <1>14, <1>21 DEF Reap
<1>22. CASE FinalTimeout
  BY <1>14, <1>22 DEF FinalTimeout
\* iax_hangup of the call of an appearance, which then has none
<1>15. ASSUME NEW c \in Appearances, calls[c] # None,
              NEW q \in SUBSET schedq, Hangup(calls[c], q), ClearCall(c),
              UNCHANGED registration
       PROVE  OwnInv'
  <2> DEFINE a == calls[c].session
             sent == NoPings(a, q) \cup {Sched("final", a, NumberAt(calls[c]))}
  <2>1. calls[c] \in Pointer /\ q \in SUBSET Entry /\ TypeInv
    BY <1>a, <1>15 DEF OwnInv
  <2>2. a \in Addresses /\ sent \in SUBSET Entry
    BY <2>1, NumberType, HangupType
  <2>3. NumberAt(calls[c]) = sessions[a]
    BY <1>p, <1>15 DEF NumberAt
  <2>4. \A f \in sent : f \in schedq \/
            (f.kind = "final" /\ f.session = a /\ f.callno = sessions[a])
    BY <1>s, <2>3 DEF NoPings
  <2>5. /\ registration.session # a
        /\ \A d \in Appearances : calls'[d] \in {calls[d], None}
                                  /\ calls'[d].session # a
    BY <1>8, <1>15
  <2>6. \/ destroy_session(a, sent)
        \/ schedq' = sent /\ jb' = jb /\ UNCHANGED <<sessions, callnums>>
    BY <1>15, HangupCases
  <2>7. \A b \in Addresses : "connect" \in jb[b] => b # a
    BY <1>15, <1>w
  <2> HIDE DEF a, sent
  <2>8. CASE destroy_session(a, sent)
    BY <1>t, <1>15, <2>2, <2>4, <2>5, <2>8, DestroyOwned
  <2>9. CASE schedq' = sent /\ jb' = jb /\ UNCHANGED <<sessions, callnums>>
    BY <1>t, <1>15, <2>2, <2>4, <2>5, <2>7, <2>9, EndingOwned
  <2> QED
    BY <2>6, <2>8, <2>9
<1>16. CASE Dump
  BY <1>15, <1>16 DEF Dump
<1>17. CASE Timeout
  <2>1. PICK e \in schedq :
          \/ /\ \E c \in Appearances :
                   /\ calls[c].session = e.session
                   /\ Hangup(calls[c], schedq \ {e})
                   /\ ClearCall(c)
             /\ UNCHANGED registration
          \/ /\ ~OfACall(e.session)
             /\ destroy_session(e.session, schedq \ {e})
             /\ registration' = None
             /\ UNCHANGED calls
          \/ /\ schedq' = schedq \ {e}
             /\ UNCHANGED <<memory, calls, registration>>
    BY <1>17 DEF Timeout
  <2>2. e.session \in Addresses
    BY <1>a DEF Entry
  <2>3. CASE /\ \E c \in Appearances :
                    /\ calls[c].session = e.session
                    /\ Hangup(calls[c], schedq \ {e})
                    /\ ClearCall(c)
             /\ UNCHANGED registration
    <3>1. \A c \in Appearances : calls[c].session = e.session => calls[c] # None
      BY <1>n, <2>2
    <3> QED
      BY <1>15, <2>3, <3>1
  <2>4. CASE /\ ~OfACall(e.session)
             /\ destroy_session(e.session, schedq \ {e})
             /\ registration' = None /\ UNCHANGED calls
    <3>1. \A c \in Appearances : calls'[c] \in {calls[c], None}
                                 /\ calls'[c].session # e.session
      BY <2>4 DEF OfACall
    <3>2. schedq \ {e} \in SUBSET Entry
      BY <1>a
    <3> QED
      BY <1>t, <1>n, <2>2, <2>4, <3>1, <3>2, DestroyOwned
  <2>5. CASE schedq' = schedq \ {e} /\ UNCHANGED <<memory, calls, registration>>
    BY <1>13, <2>5
  <2> QED
    BY <2>1, <2>3, <2>4, <2>5
<1>18. CASE PingTimer
  <2>1. PICK e \in schedq :
            /\ schedq' = IF sessions[e.session] = 0 THEN schedq \ {e}
                         ELSE schedq \cup {Sched("frame", e.session,
                                                 sessions[e.session])}
            /\ UNCHANGED <<memory, calls, registration, registered>>
    BY <1>18 DEF PingTimer
  <2>2. \A f \in schedq' : f \in schedq \/
            (f.kind = "frame" /\ sessions[f.session] = f.callno)
    BY <2>1 DEF Sched
  <2> QED
    BY <1>t, <2>1, <2>2, FramesOwned
<1>19. CASE UNCHANGED vars
  BY <1>t, <1>19, FramesOwned DEF vars
<1> QED
  BY <1>1, <1>2, <1>3, <1>4, <1>5, <1>6, <1>7, <1>9, <1>10, <1>11, <1>12,
     <1>16, <1>17, <1>18, <1>19, <1>20, <1>21, <1>22
     DEF Next, Fgcom, ProcessingThread

\* Every step keeps OwnedInv
LEMMA OwnedStep == ASSUME ~Reuse PROVE OwnedInv /\ [Next]_vars => OwnedInv'
<1> SUFFICES ASSUME OwnedInv, [Next]_vars PROVE OwnedInv'
  OBVIOUS
<1>1. TypeInv'
  BY TypeStep DEF OwnedInv
<1>2. ~poked' => ~poked
  BY DEF Next, Poke, vars, TypeInv, TypeOK, OwnedInv
<1>3. ASSUME ~poked' PROVE OwnInv'
  BY <1>2, <1>3, OwnStep DEF OwnedInv
<1> QED
  BY <1>1, <1>3 DEF OwnedInv

\* There are no pointers and no frames at first
LEMMA OwnStart == Init => OwnedInv
<1> SUFFICES ASSUME Init PROVE OwnedInv
  OBVIOUS
<1>1. TypeInv
  BY TypeStart
<1>2. PointersOwn
  BY DEF Init, PointersOwn, OwnPointer
<1>3. FramesInv /\ CallersWait
  BY DEF Init, FramesInv, FramesOwn, FinalsUnowned, CallersWait
<1> QED
  BY <1>1, <1>2, <1>3 DEF OwnInv, OwnedInv

\* As long as malloc does not return the address of a session while the frame
\* that ended it is in schedq, and no POKE had the numbers of a call of
\* iaxclient, the pointers of the calls and of the registration are to their
\* own sessions: no hangup, timeout, timer or refresh frees them under
\* iaxclient, a final frame that could not be sent included.
THEOREM PointersStayValid == ASSUME ~Reuse PROVE Spec => []PointersValid
<1>1. OwnedInv /\ [Next]_vars => OwnedInv'
  BY OwnedStep
<1>2. OwnedInv => PointersValid
  BY OwnIsValid
<1> QED
  BY <1>1, <1>2, OwnStart, PTL DEF Spec

\* Under the same assumptions iax_get_event sends frames again on the session
\* they belong to, those of iax_send_voice through a pointer and the final
\* frames that could not be sent among them.
THEOREM RetransmissionsStayOwn == ASSUME ~Reuse PROVE Spec => []RetransmitsOnOwn
<1>1. OwnedInv /\ [Next]_vars => OwnedInv'
  BY OwnedStep
<1>2. OwnedInv => RetransmitsOnOwn
  BY OwnIsValid
<1> QED
  BY <1>1, <1>2, OwnStart, PTL DEF Spec
-----------------------------------------------------------------------------
(* Nobody's session is left on the list *)

\* Before iaxc_register there is no registration
RegisteredFirst == registered = "never" => registration = None

DropInv == TypeInv /\ RegisteredFirst

\* What NoneLeaked asks of a step that drops the pointer p
Ended(p) ==
    \/ p = None
    \/ sessions'[p.session] # p.callno
    \/ Closing(p.session, p.callno, schedq')

\* destroy_session ends whatever was at its address
LEMMA DestroyEnds ==
    ASSUME TypeInv, NEW a \in Addresses, NEW q, destroy_session(a, q)
    PROVE  sessions'[a] = 0 /\ \A p \in Pointer : p.session = a => Ended(p)
  BY DEF destroy_session, Without, Ended, TypeInv, TypeOK, Pointer, CallNo

\* So does iax_hangup, at once or with the final frame it leaves
LEMMA HangupEnds ==
    ASSUME TypeInv, NEW p \in Pointer, NEW q, Hangup(p, q)
    PROVE  Ended(p)
<1> DEFINE sent == NoPings(p.session, q)
                      \cup {Sched("final", p.session, NumberAt(p))}
<1>1. p.session \in Addresses
  BY NumberType
<1>2. \/ destroy_session(p.session, sent)
      \/ schedq' = sent /\ UNCHANGED sessions
  BY HangupCases
<1>3. CASE destroy_session(p.session, sent)
  BY <1>1, <1>3, DestroyEnds
<1>4. CASE schedq' = sent /\ UNCHANGED sessions
  <2>1. CASE NumberAt(p) = p.callno
    <3> DEFINE e == Sched("final", p.session, NumberAt(p))
    <3>1. e \in schedq'
      BY <1>4
    <3>2. e.kind = "final" /\ e.session = p.session /\ e.callno = p.callno
      BY <2>1 DEF Sched
    <3> QED
      BY <3>1, <3>2 DEF Ended, Closing
  <2>2. CASE NumberAt(p) # p.callno
    BY <1>4, <2>2 DEF Ended, NumberAt
  <2> QED
    BY <2>1, <2>2
<1> QED
  BY <1>2, <1>3, <1>4

\* What a step does to the pointers: each stays, or its session is ended
LEMMA DropStep ==
    ASSUME DropInv, [Next]_vars
    PROVE  /\ RegisteredFirst'
           /\ \A c \in Appearances : calls'[c] = calls[c] \/ Ended(calls[c])
           /\ registration' = registration \/ Ended(registration)
<1> USE DEF memory
<1>a. /\ sessions \in [Addresses -> {0} \cup CallNo]
      /\ calls \in [Appearances -> Pointer \cup {None}]
      /\ registration \in Pointer \cup {None}
      /\ registered \in {"never", "listed", "removed"}
      /\ schedq \in SUBSET Entry
  BY DEF DropInv, TypeInv, TypeOK
<1>b. TypeInv /\ RegisteredFirst /\ Ended(None)
  BY DEF DropInv, Ended
<1>n. None.session = NULL /\ \A p \in Pointer : p.session \in Addresses
  BY DEF None, Pointer
\* Steps that leave the registration, and change no appearance that has a call
<1>1. ASSUME UNCHANGED <<registration, registered>>,
             \A c \in Appearances : calls'[c] = calls[c] \/ Ended(calls[c])
      PROVE  /\ RegisteredFirst'
             /\ \A c \in Appearances : calls'[c] = calls[c] \/ Ended(calls[c])
             /\ registration' = registration \/ Ended(registration)
  BY <1>1, <1>b DEF RegisteredFirst
\* Steps that destroy the session of the registration
<1>2. ASSUME NEW q, destroy_session(registration.session, q),
             registration.session \in Addresses, registration' = None,
             UNCHANGED calls, registered' = "never" => registered = "never"
      PROVE  /\ RegisteredFirst'
             /\ \A c \in Appearances : calls'[c] = calls[c] \/ Ended(calls[c])
             /\ registration' = registration \/ Ended(registration)
  BY <1>2, <1>a, <1>b, DestroyEnds DEF RegisteredFirst
\* Steps that clear an appearance, and end its session
<1>3. ASSUME NEW c \in Appearances, Ended(calls[c]), ClearCall(c)
      PROVE  \A d \in Appearances : calls'[d] = calls[d] \/ Ended(calls[d])
  BY <1>3, <1>a DEF ClearCall
<1>4. ASSUME NEW c \in Appearances, NEW q, calls[c] # None, Hangup(calls[c], q)
      PROVE  Ended(calls[c])
  BY <1>4, <1>a, <1>b, HangupEnds
<1>5. CASE Dial
  BY <1>1, <1>5, <1>a, <1>b DEF Dial
<1>6. CASE Dump
  BY <1>1, <1>3, <1>4, <1>6 DEF Dump
<1>7. CASE Register
  <2>1. registered = "never" /\ registered' = "listed" /\ UNCHANGED calls
    BY <1>7 DEF Register
  <2> QED
    BY <1>b, <2>1 DEF RegisteredFirst
\* The session of the registration is destroyed, and the new one may get its address
<1>8. CASE Refresh
  <2> DEFINE old == registration.session
             live == IF old = NULL THEN sessions ELSE Without(old)
  <2>1. PICK a \in Addresses :
            /\ sessions' = [live EXCEPT ![a] = callnums]
            /\ registered = "listed"
            /\ UNCHANGED <<calls, registered>>
    BY <1>8 DEF Refresh, iax_session_new
  <2>2. RegisteredFirst'
    BY <2>1 DEF RegisteredFirst
  <2>3. Ended(registration)
    <3>1. CASE registration = None
      BY <1>b, <3>1
    <3>2. CASE registration # None
      <4>1. old \in Addresses /\ old # NULL
        BY <1>a, <1>n, <3>2, AddressesAssumption
      <4>2. sessions' = [[sessions EXCEPT ![old] = 0] EXCEPT ![a] = callnums]
        BY <2>1, <4>1 DEF Without
      <4>3. sessions'[old] \in {0, callnums}
        BY <1>a, <4>1, <4>2
      <4>4. /\ registration.callno \in CallNo /\ registration.callno < callnums
            /\ callnums \in Int
        BY <1>a, <1>b, <3>2, BoundsAssumption
           DEF Pointer, TypeInv, TypeOK, NumbersAreOld
      <4> QED
        BY <4>3, <4>4 DEF Ended, CallNo
    <3> QED
      BY <3>1, <3>2
  <2> QED
    BY <2>1, <2>2, <2>3
<1>9. CASE Arrive \/ Poke \/ Send \/ Hear \/ HearUnknown \/ Ack \/ PingTimer
  BY <1>1, <1>9 DEF Arrive, Poke, Send, Hear, HearUnknown, Ack, PingTimer
<1>10. CASE HearHangup
  <2>1. PICK a \in Addresses :
            /\ \/ /\ \E c \in Appearances : calls[c].session = a /\ ClearCall(c)
                  /\ UNCHANGED registration
               \/ /\ registration' = IF registration.session = a THEN None
                                     ELSE registration
                  /\ UNCHANGED calls
            /\ destroy_session(a, schedq)
            /\ UNCHANGED registered
    BY <1>10 DEF HearHangup
  <2>2. CASE /\ \E c \in Appearances : calls[c].session = a /\ ClearCall(c)
             /\ UNCHANGED registration
    <3>1. PICK c \in Appearances : calls[c].session = a /\ ClearCall(c)
      BY <2>2
    <3>2. calls[c] \in Pointer
      BY <1>a, <1>n, <3>1, AddressesAssumption
    <3>3. Ended(calls[c])
      BY <1>b, <2>1, <3>1, <3>2, DestroyEnds
    <3> QED
      BY <1>1, <1>3, <2>1, <2>2, <3>1, <3>3
  <2>3. CASE /\ registration' = IF registration.session = a THEN None
                                ELSE registration
             /\ UNCHANGED calls
    <3>1. CASE registration.session = a
      BY <1>2, <2>1, <2>3, <3>1
    <3>2. CASE registration.session # a
      BY <1>1, <2>1, <2>3, <3>2
    <3> QED
      BY <3>1, <3>2
  <2> QED
    BY <2>1, <2>2, <2>3
<1>11. CASE HearReply
  <2>1. /\ registration # None
        /\ registration' = None
        /\ registered' \in {registered, "removed"}
        /\ destroy_session(registration.session, schedq)
        /\ UNCHANGED calls
    BY <1>11 DEF HearReply
  <2>2. registration.session \in Addresses
    BY <1>a, <1>n, <2>1
  <2> QED
    BY <1>2, <2>1, <2>2
<1>12. CASE Connect
  <2>1. PICK a \in Addresses :
          /\ UNCHANGED <<registration, registered>>
          /\ \/ \E c \in Appearances :
                   /\ calls[c] = None
                   /\ calls' = [calls EXCEPT ![c] =
                                   [session |-> a, callno |-> sessions[a]]]
             \/ UNCHANGED calls
    BY <1>12 DEF Connect
  <2>2. \A c \in Appearances : calls'[c] = calls[c] \/ Ended(calls[c])
    BY <1>a, <1>b, <2>1
  <2> QED
    BY <1>1, <2>1, <2>2
<1>13. CASE Reap \/ FinalTimeout
  BY <1>1, <1>13 DEF Reap, FinalTimeout
<1>14. CASE Timeout
  <2>1. PICK e \in schedq :
          /\ UNCHANGED registered
          /\ \/ /\ \E c \in Appearances :
                      /\ calls[c].session = e.session
                      /\ Hangup(calls[c], schedq \ {e})
                      /\ ClearCall(c)
                /\ UNCHANGED registration
             \/ /\ registration.session = e.session
                /\ destroy_session(e.session, schedq \ {e})
                /\ registration' = None
                /\ UNCHANGED calls
             \/ UNCHANGED <<calls, registration>>
    BY <1>14 DEF Timeout
  <2>2. e.session \in Addresses
    BY <1>a DEF Entry
  <2>3. CASE /\ \E c \in Appearances :
                    /\ calls[c].session = e.session
                    /\ Hangup(calls[c], schedq \ {e})
                    /\ ClearCall(c)
             /\ UNCHANGED registration
    <3>1. PICK c \in Appearances :
              /\ calls[c].session = e.session
              /\ Hangup(calls[c], schedq \ {e})
              /\ ClearCall(c)
      BY <2>3
    <3>2. calls[c] # None
      BY <1>n, <2>2, <3>1, AddressesAssumption
    <3> QED
      BY <1>1, <1>3, <1>4, <2>1, <2>3, <3>1, <3>2
  <2>4. CASE /\ registration.session = e.session
             /\ destroy_session(e.session, schedq \ {e})
             /\ registration' = None
             /\ UNCHANGED calls
    BY <1>2, <2>1, <2>2, <2>4
  <2>5. CASE UNCHANGED <<calls, registration>>
    BY <1>1, <2>1, <2>5
  <2> QED
    BY <2>1, <2>3, <2>4, <2>5
<1>15. CASE UNCHANGED vars
  BY <1>1, <1>15 DEF vars
<1> QED
  BY <1>5, <1>6, <1>7, <1>8, <1>9, <1>10, <1>11, <1>12, <1>13, <1>14, <1>15
     DEF Next, Fgcom, ProcessingThread

\* A final frame that keeps its place may be marked as sent
Kept(e, q) == \E f \in q : /\ f.kind = "final" /\ f.session = e.session
                           /\ f.callno = e.callno

\* Marking frames as sent keeps the final ones
LEMMA MarkSentKeeps ==
    ASSUME NEW q \in SUBSET Entry, NEW a, NEW e \in q, e.kind = "final"
    PROVE  Kept(e, MarkSent(q, a))
<1>1. (IF e.session = a /\ e.kind # "ping" THEN MarkedSent(e) ELSE e)
          \in MarkSent(q, a)
  BY DEF MarkSent
<1> QED
  BY <1>1, MarkedType DEF Kept

\* A final frame stays in schedq until it destroys the session at its address
LEMMA FinalStep ==
    ASSUME TypeInv, [Next]_vars, NEW e \in schedq, e.kind = "final"
    PROVE  Kept(e, schedq') \/ sessions'[e.session] = 0
<1>a. schedq \in SUBSET Entry /\ e.session \in Addresses
  BY DEF TypeInv, TypeOK, Entry
<1>s. \A kind, a, n : Sched(kind, a, n).kind = kind
  BY DEF Sched
<1>1. ASSUME schedq \subseteq schedq' PROVE Kept(e, schedq')
  BY <1>1 DEF Kept
<1>2. ASSUME NEW a, NEW q, e \in q, schedq' = MarkSent(q, a), q \in SUBSET Entry
      PROVE  Kept(e, schedq')
  BY <1>2, MarkSentKeeps
\* destroy_session, when schedq has no final frame less, and maybe one more
<1>3. ASSUME NEW a, NEW q, e \in q, destroy_session(a, q)
      PROVE  Kept(e, schedq')
  <2>1. (IF e.session = a /\ e.kind # "ping" THEN MarkedSent(e) ELSE e) \in schedq'
    BY <1>3 DEF destroy_session, MarkSent
  <2>2. e \in Entry
    BY <1>a
  <2> QED
    BY <2>1, <2>2, MarkedType DEF Kept
<1>4. ASSUME NEW p, NEW q, e \in q, Hangup(p, q) PROVE Kept(e, schedq')
  <2> DEFINE sent == NoPings(p.session, q)
                        \cup {Sched("final", p.session, NumberAt(p))}
  <2>1. e \in sent
    BY <1>4 DEF NoPings
  <2>2. destroy_session(p.session, sent) \/ schedq' = sent
    BY <1>4, HangupCases
  <2> HIDE DEF sent
  <2> QED
    BY <1>3, <2>1, <2>2 DEF Kept
<1>5. CASE Dial \/ Register \/ Arrive \/ Send \/ Hear \/ HearUnknown
  BY <1>1, <1>5 DEF Dial, Register, Arrive, Send, Hear, HearUnknown
<1>6. CASE Dump
  BY <1>4, <1>6 DEF Dump
<1>7. CASE Refresh
  <2>1. \/ schedq \subseteq schedq'
        \/ \E a : MarkSent(schedq, a) \subseteq schedq'
    BY <1>7 DEF Refresh
  <2> QED
    BY <1>1, <1>a, <2>1, MarkSentKeeps DEF Kept
<1>8. CASE Poke
  <2>1. PICK a \in Addresses :
          \/ schedq' = MarkSent(schedq \cup {Sched("ping", a, callnums),
                                             Sched("frame", a, callnums)}, a)
          \/ destroy_session(a, schedq \cup {Sched("frame", a, sessions[a])})
    BY <1>8 DEF Poke
  <2>2. CASE schedq' = MarkSent(schedq \cup {Sched("ping", a, callnums),
                                             Sched("frame", a, callnums)}, a)
    <3>1. (IF e.session = a /\ e.kind # "ping" THEN MarkedSent(e) ELSE e) \in schedq'
      BY <2>2 DEF MarkSent
    <3>2. e \in Entry
      BY <1>a
    <3> QED
      BY <3>1, <3>2, MarkedType DEF Kept
  <2>3. CASE destroy_session(a, schedq \cup {Sched("frame", a, sessions[a])})
    BY <1>3, <2>3
  <2> QED
    BY <2>1, <2>2, <2>3
<1>9. CASE HearHangup \/ HearReply
  BY <1>3, <1>9 DEF HearHangup, HearReply
<1>10. CASE Connect
  <2>1. PICK a \in Addresses :
          \/ schedq \subseteq schedq'
          \/ send_command_final(a, sessions[a], schedq,
                                [jb EXCEPT ![a] = @ \ {"connect"}])
    BY <1>10 DEF Connect
  <2>2. CASE send_command_final(a, sessions[a], schedq,
                                [jb EXCEPT ![a] = @ \ {"connect"}])
    <3>1. \/ destroy_session(a, schedq \cup {Sched("final", a, sessions[a])})
          \/ schedq \subseteq schedq'
      BY <2>2, FinalCases
    <3> QED
      BY <1>1, <1>3, <3>1
  <2> QED
    BY <1>1, <2>1, <2>2
<1>11. CASE Ack
  <2>1. PICK f \in schedq :
            schedq' \in {(schedq \ {f}) \cup {MarkedSent(f)},
                         schedq \cup {MarkedSent(f)}}
    BY <1>11 DEF Ack
  <2>2. CASE e = f
    BY <1>a, <2>1, <2>2, MarkedType DEF Kept
  <2>3. CASE e # f
    BY <2>1, <2>3 DEF Kept
  <2> QED
    BY <2>2, <2>3
\* A final frame is taken out of schedq, this one or another
<1>12. ASSUME NEW f \in schedq, destroy_session(f.session, schedq \ {f})
       PROVE  Kept(e, schedq') \/ sessions'[e.session] = 0
  <2>1. CASE e = f
    BY <1>12, <1>a, <2>1, DestroyEnds
  <2>2. CASE e # f
    BY <1>3, <1>12, <2>2
  <2> QED
    BY <2>1, <2>2
<1>13. ASSUME NEW f, f.kind # "final", schedq' = schedq \ {f} PROVE Kept(e, schedq')
  BY <1>13 DEF Kept
<1>14. CASE Reap \/ FinalTimeout
  BY <1>12, <1>13, <1>14 DEF Reap, FinalTimeout
<1>15. CASE Timeout
  <2>1. PICK f \in schedq :
          /\ f.kind = "frame"
          /\ \/ \E c \in Appearances : Hangup(calls[c], schedq \ {f})
             \/ destroy_session(f.session, schedq \ {f})
             \/ schedq' = schedq \ {f}
    BY <1>15 DEF Timeout
  <2>2. e \in schedq \ {f} /\ f.kind # "final"
    BY <2>1
  <2> QED
    BY <1>3, <1>4, <1>13, <2>1, <2>2
<1>16. CASE PingTimer
  <2>1. PICK f \in schedq :
          /\ f.kind = "ping"
          /\ schedq \subseteq schedq' \/ schedq' = schedq \ {f}
    BY <1>16 DEF PingTimer
  <2>2. f.kind # "final"
    BY <2>1
  <2> QED
    BY <1>1, <1>13, <2>1, <2>2
<1>17. CASE UNCHANGED vars
  BY <1>1, <1>17 DEF vars
<1> QED
  BY <1>5, <1>6, <1>7, <1>8, <1>9, <1>10, <1>11, <1>14, <1>15, <1>16, <1>17
     DEF Next, Fgcom, ProcessingThread

\* Whatever malloc returns and whatever frames the peer sends, a session that
\* iaxclient drops its pointer to does not stay on the list: the step destroys
\* it (iaxc_clear_call after a hangup, iaxc_handle_regreply, a timeout, the
\* refresh of the registrations, iax_hangup), or, if sendto failed in
\* iax_hangup, leaves a final frame that stays until it destroys it.
THEOREM NothingLeaks == Spec => NoneLeaked
<1>1. Init => DropInv
  BY TypeStart DEF Init, DropInv, RegisteredFirst
<1>2. DropInv /\ [Next]_vars => DropInv'
  BY TypeStep, DropStep DEF DropInv
<1> DEFINE Dropped == \A p \in Pointers \ {None} :
               \/ p \in Pointers'
               \/ sessions'[p.session] # p.callno
               \/ Closing(p.session, p.callno, schedq')
           StaysClosing == \A a \in Addresses : Closing(a, sessions[a], schedq) =>
               \/ sessions'[a] # sessions[a]
               \/ Closing(a, sessions[a], schedq')
<1>3. DropInv /\ [Next]_vars => Dropped
  <2> SUFFICES ASSUME DropInv, [Next]_vars, NEW p \in Pointers \ {None},
                      p \notin Pointers'
               PROVE  Ended(p)
    BY DEF Ended
  <2> QED
    BY DropStep DEF Pointers, CallPointers
<1>4. DropInv /\ [Next]_vars => StaysClosing
  <2> SUFFICES ASSUME DropInv, [Next]_vars, NEW a \in Addresses,
                      Closing(a, sessions[a], schedq)
               PROVE  \/ sessions'[a] # sessions[a]
                      \/ Closing(a, sessions[a], schedq')
    OBVIOUS
  <2>1. PICK e \in schedq :
            e.kind = "final" /\ e.session = a /\ e.callno = sessions[a]
    BY DEF Closing
  <2>2. sessions[a] # 0
    BY <2>1 DEF DropInv, TypeInv, TypeOK, Entry, CallNo
  <2>3. Kept(e, schedq') \/ sessions'[a] = 0
    BY <2>1, FinalStep DEF DropInv
  <2> QED
    BY <2>1, <2>2, <2>3 DEF Kept, Closing
<1>5. DropInv /\ [Next]_vars => [Dropped /\ StaysClosing]_vars
  BY <1>3, <1>4
<1> QED
  BY <1>1, <1>2, <1>5, PTL DEF Spec, NoneLeaked
-----------------------------------------------------------------------------
(* What a final frame destroys *)

\* There is nothing at the address of a final frame, or the session it ends
FinalsOwnOrDead == \A e \in schedq : e.kind = "final" =>
    sessions[e.session] \in {0, e.callno}

FinalsInv == TypeInv /\ FinalsOwnOrDead

\* What a step does to the session at address a: nothing, destroy it, or make
\* one where there was none and no final frame points to
Waited(a) ==
    \/ sessions'[a] \in {sessions[a], 0}
    \/ \A e \in schedq : e.kind = "final" => e.session # a

\* Where a final frame comes from: it was there, or ends the session it is of
Rightful(e) ==
    \/ \E old \in schedq : /\ old.kind = "final" /\ old.session = e.session
                           /\ old.callno = e.callno
    \/ /\ sessions[e.session] \in {0, e.callno}
       /\ sessions'[e.session] \in {0, sessions[e.session]}

\* If addresses wait for their final frames, every step is of that kind
LEMMA FinalsStep ==
    ASSUME ~Reuse, TypeInv, [Next]_vars
    PROVE  /\ \A a \in Addresses : Waited(a)
           /\ \A e \in schedq' : e.kind = "final" => Rightful(e)
<1> USE DEF memory
<1>a. /\ sessions \in [Addresses -> {0} \cup CallNo]
      /\ calls \in [Appearances -> Pointer \cup {None}]
      /\ schedq \in SUBSET Entry
  BY DEF TypeInv, TypeOK
<1>s. \A kind, a, n : /\ Sched(kind, a, n).kind = kind
                      /\ Sched(kind, a, n).session = a
                      /\ Sched(kind, a, n).callno = n
  BY DEF Sched
\* The steps that make no final frame
<1>1. ASSUME \A e \in schedq' : e.kind = "final" => e \in schedq
      PROVE  \A e \in schedq' : e.kind = "final" => Rightful(e)
  BY <1>1 DEF Rightful
<1>2. ASSUME NEW a, NEW live, NEW buffers, iax_session_new(a, live, buffers),
             live \in [Addresses -> {0} \cup CallNo],
             \A b \in Addresses : live[b] \in {sessions[b], 0}
      PROVE  \A b \in Addresses : Waited(b)
  <2>1. \A e \in schedq : e.kind = "final" => e.session # a
    BY <1>2 DEF iax_session_new, Allocates
  <2>2. \A b \in Addresses : b # a => sessions'[b] = live[b]
    BY <1>2 DEF iax_session_new
  <2> QED
    BY <1>2, <2>1, <2>2 DEF Waited
<1>3. ASSUME UNCHANGED sessions PROVE \A a \in Addresses : Waited(a)
  BY <1>3 DEF Waited
\* The frames MarkSent leaves were there, marked or not
<1>4. ASSUME NEW q \in SUBSET Entry, NEW a,
             \A e \in q : e \in schedq \/ e.kind # "final",
             NEW e \in MarkSent(q, a), e.kind = "final"
      PROVE  Rightful(e)
  <2>1. PICK old \in q : /\ e.kind = old.kind /\ e.session = old.session
                         /\ e.callno = old.callno
    BY <1>4, MarkSentFrom
  <2> QED
    BY <1>4, <2>1 DEF Rightful
\* destroy_session(a), when schedq has at most a final frame more: the one of
\* the session at a, if there still is one
<1>5. ASSUME NEW a \in Addresses, NEW n, NEW q \in SUBSET Entry, destroy_session(a, q),
             \A e \in q : e \in schedq \/ e.kind # "final"
                                      \/ (e.session = a /\ e.callno = n),
             sessions[a] \in {0, n}
      PROVE  /\ \A b \in Addresses : Waited(b)
             /\ \A e \in schedq' : e.kind = "final" => Rightful(e)
  <2>1. /\ sessions' = [sessions EXCEPT ![a] = 0] /\ schedq' = MarkSent(q, a)
    BY <1>5 DEF destroy_session, Without
  <2>2. \A b \in Addresses : Waited(b)
    BY <1>a, <2>1 DEF Waited
  <2>3. ASSUME NEW e \in schedq', e.kind = "final" PROVE Rightful(e)
    <3>1. PICK old \in q : /\ e.kind = old.kind /\ e.session = old.session
                           /\ e.callno = old.callno
      BY <2>1, <2>3, MarkSentFrom
    <3>2. CASE old \in schedq
      BY <2>3, <3>1, <3>2 DEF Rightful
    <3>3. CASE old.session = a /\ old.callno = n
      BY <1>5, <1>a, <2>1, <3>1, <3>3 DEF Rightful
    <3> QED
      BY <1>5, <2>3, <3>1, <3>2, <3>3
  <2> QED
    BY <2>2, <2>3
\* The same when the session lives on
<1>6. ASSUME NEW a \in Addresses, NEW n, UNCHANGED sessions,
             \A e \in schedq' : e \in schedq \/ e.kind # "final"
                                            \/ (e.session = a /\ e.callno = n),
             sessions[a] \in {0, n}
      PROVE  /\ \A b \in Addresses : Waited(b)
             /\ \A e \in schedq' : e.kind = "final" => Rightful(e)
  BY <1>6, <1>3 DEF Rightful
<1>7. ASSUME NEW c \in Appearances, calls[c] # None, NEW q \in SUBSET schedq,
             Hangup(calls[c], q)
      PROVE  /\ \A b \in Addresses : Waited(b)
             /\ \A e \in schedq' : e.kind = "final" => Rightful(e)
  <2> DEFINE a == calls[c].session
             n == NumberAt(calls[c])
             sent == NoPings(a, q) \cup {Sched("final", a, n)}
  <2>1. calls[c] \in Pointer /\ q \in SUBSET Entry
    BY <1>7, <1>a
  <2>2. a \in Addresses /\ sent \in SUBSET Entry
    BY <2>1, NumberType, HangupType
  <2>3. sessions[a] \in {0, n}
    BY DEF NumberAt
  <2>4. \A e \in sent : e \in schedq \/ (e.session = a /\ e.callno = n)
    BY <1>s DEF NoPings
  <2>5. \/ destroy_session(a, sent)
        \/ schedq' = sent /\ UNCHANGED sessions
    BY <1>7, HangupCases
  <2> HIDE DEF a, n, sent
  <2>6. CASE destroy_session(a, sent)
    BY <1>5, <2>2, <2>3, <2>4, <2>6
  <2>7. CASE schedq' = sent /\ UNCHANGED sessions
    BY <1>6, <2>2, <2>3, <2>4, <2>7
  <2> QED
    BY <2>5, <2>6, <2>7
<1>8. CASE Dial \/ Register \/ Arrive
  <2>1. \A e \in schedq' : e.kind = "final" => e \in schedq
    <3>1. CASE Dial
      <4>1. PICK a \in Addresses :
              \E frames \in SUBSET {Sched("frame", a, callnums)} :
                schedq' = schedq \cup {Sched("ping", a, callnums)} \cup frames
        BY <3>1 DEF Dial
      <4> QED
        BY <1>s, <4>1
    <3>2. CASE Register
      <4>1. PICK a \in Addresses : schedq' = schedq \cup {Sched("frame", a, callnums)}
        BY <3>2 DEF Register
      <4> QED
        BY <1>s, <4>1
    <3>3. CASE Arrive
      <4>1. PICK a \in Addresses : schedq' = schedq \cup {Sched("ping", a, callnums)}
        BY <3>3 DEF Arrive
      <4> QED
        BY <1>s, <4>1
    <3> QED
      BY <1>8, <3>1, <3>2, <3>3
  <2>2. \A a \in Addresses : Waited(a)
    BY <1>8, <1>a, <1>2 DEF Dial, Register, Arrive
  <2> QED
    BY <1>1, <2>1, <2>2
<1>9. CASE Refresh
  <2> DEFINE old == registration.session
             live == IF old = NULL THEN sessions ELSE Without(old)
             left == IF old = NULL THEN schedq ELSE MarkSent(schedq, old)
  <2>1. PICK a \in Addresses :
            /\ \E buffers : iax_session_new(a, live, buffers)
            /\ schedq' = left \cup {Sched("frame", a, callnums)}
    BY <1>9 DEF Refresh
  <2>2. /\ live \in [Addresses -> {0} \cup CallNo]
        /\ \A b \in Addresses : live[b] \in {sessions[b], 0}
    BY <1>a DEF Without
  <2>3. ASSUME NEW e \in left, e.kind = "final" PROVE Rightful(e)
    <3>1. CASE old = NULL
      BY <2>3, <3>1 DEF Rightful
    <3>2. CASE old # NULL
      BY <1>4, <1>a, <2>3, <3>2
    <3> QED
      BY <3>1, <3>2
  <2>4. \A b \in Addresses : Waited(b)
    <3> HIDE DEF live
    <3> QED
      BY <1>2, <2>1, <2>2
  <2> HIDE DEF left
  <2> QED
    BY <1>s, <2>1, <2>3, <2>4
<1>10. CASE Dump
  BY <1>7, <1>10 DEF Dump
<1>11. CASE Poke
  <2>1. PICK a \in Addresses :
          \/ /\ UNCHANGED sessions
             /\ callnums <= MaxSessions
             /\ schedq' = MarkSent(schedq \cup {Sched("ping", a, callnums),
                                                Sched("frame", a, callnums)}, a)
          \/ /\ sessions[a] # 0
             /\ destroy_session(a, schedq \cup {Sched("frame", a, sessions[a])})
    BY <1>11 DEF Poke, Allocates
  <2>2. CASE /\ UNCHANGED sessions
             /\ callnums <= MaxSessions
             /\ schedq' = MarkSent(schedq \cup {Sched("ping", a, callnums),
                                                Sched("frame", a, callnums)}, a)
    <3> DEFINE q == schedq \cup {Sched("ping", a, callnums), Sched("frame", a, callnums)}
    <3>1. callnums \in CallNo
      BY <2>2, BoundsAssumption DEF TypeInv, TypeOK, CallNo
    <3>2. q \in SUBSET Entry
      BY <1>a, <3>1, SchedType
    <3>3. \A e \in q : e \in schedq \/ e.kind # "final"
      BY <1>s
    <3>4. schedq' = MarkSent(q, a)
      BY <2>2
    <3> HIDE DEF q
    <3> QED
      BY <1>3, <1>4, <2>2, <3>2, <3>3, <3>4
  <2>3. CASE /\ sessions[a] # 0
             /\ destroy_session(a, schedq \cup {Sched("frame", a, sessions[a])})
    <3> DEFINE q == schedq \cup {Sched("frame", a, sessions[a])}
    <3>1. q \in SUBSET Entry
      BY <1>a, <2>3, SchedType
    <3>2. \A e \in q : e \in schedq \/ e.kind # "final"
      BY <1>s
    <3>3. destroy_session(a, q)
      BY <2>3
    <3> HIDE DEF q
    <3> QED
      BY <1>5, <3>1, <3>2, <3>3
  <2> QED
    BY <2>1, <2>2, <2>3
<1>12. CASE Send \/ Hear \/ HearUnknown \/ PingTimer \/ UNCHANGED vars
  <2>1. \A e \in schedq' : e.kind = "final" => e \in schedq
    BY <1>12, <1>s DEF Send, Hear, HearUnknown, PingTimer, vars
  <2>2. UNCHANGED sessions
    BY <1>12 DEF Send, Hear, HearUnknown, PingTimer, vars
  <2> QED
    BY <1>1, <1>3, <2>1, <2>2
\* A session is destroyed, and schedq has no frame more
<1>13. ASSUME NEW a \in Addresses, NEW q \in SUBSET schedq, destroy_session(a, q)
       PROVE  /\ \A b \in Addresses : Waited(b)
              /\ \A e \in schedq' : e.kind = "final" => Rightful(e)
  <2>1. q \in SUBSET Entry
    BY <1>a
  <2> QED
    BY <1>5, <1>13, <2>1
<1>14. CASE HearHangup
  BY <1>13, <1>14 DEF HearHangup
<1>15. CASE HearReply
  <2>1. registration.session \in Addresses
    BY <1>15 DEF HearReply, TypeInv, TypeOK, Pointer
  <2> QED
    BY <1>13, <1>15, <2>1 DEF HearReply
<1>16. CASE Connect
  <2>1. PICK a \in Addresses :
          \/ /\ schedq' = schedq \cup {Sched("frame", a, sessions[a])}
             /\ UNCHANGED sessions
          \/ /\ "connect" \in jb[a]
             /\ send_command_final(a, sessions[a], schedq,
                                   [jb EXCEPT ![a] = @ \ {"connect"}])
    BY <1>16 DEF Connect
  <2>2. CASE /\ schedq' = schedq \cup {Sched("frame", a, sessions[a])}
             /\ UNCHANGED sessions
    BY <1>1, <1>3, <1>s, <2>2
  <2>3. CASE /\ "connect" \in jb[a]
             /\ send_command_final(a, sessions[a], schedq,
                                   [jb EXCEPT ![a] = @ \ {"connect"}])
    <3> DEFINE n == sessions[a]
               sent == schedq \cup {Sched("final", a, n)}
    <3>1. sessions[a] \in CallNo
      BY <1>a, <2>3 DEF TypeInv, DeadAreSilent
    <3>2. sent \in SUBSET Entry
      BY <1>a, <3>1, SchedType
    <3>3. \A e \in sent : e \in schedq \/ (e.session = a /\ e.callno = n)
      BY <1>s
    <3>4. \/ destroy_session(a, sent)
          \/ schedq' = sent /\ UNCHANGED sessions
      BY <2>3, FinalCases
    <3> HIDE DEF sent
    <3>5. sessions[a] \in {0, n}
      OBVIOUS
    <3> HIDE DEF n
    <3>6. CASE destroy_session(a, sent)
      BY <1>5, <3>2, <3>3, <3>5, <3>6
    <3>7. CASE schedq' = sent /\ UNCHANGED sessions
      BY <1>6, <3>2, <3>3, <3>5, <3>7
    <3> QED
      BY <3>4, <3>6, <3>7
  <2> QED
    BY <2>1, <2>2, <2>3
<1>17. CASE Ack
  <2>1. PICK f \in schedq :
            /\ schedq' \in {(schedq \ {f}) \cup {MarkedSent(f)},
                            schedq \cup {MarkedSent(f)}}
            /\ UNCHANGED sessions
    BY <1>17 DEF Ack
  <2>2. /\ MarkedSent(f).kind = f.kind /\ MarkedSent(f).session = f.session
        /\ MarkedSent(f).callno = f.callno
    BY <1>a, MarkedType
  <2>3. \A e \in schedq' : e \in schedq \/ e = MarkedSent(f)
    BY <2>1
  <2>4. \A e \in schedq' : e.kind = "final" => Rightful(e)
    BY <2>2, <2>3 DEF Rightful
  <2> QED
    BY <1>3, <2>1, <2>4
<1>18. CASE Reap \/ FinalTimeout \/ Timeout
  <2>1. PICK f \in schedq :
          \/ destroy_session(f.session, schedq \ {f})
          \/ \E c \in Appearances : /\ calls[c].session = f.session
                                    /\ Hangup(calls[c], schedq \ {f})
          \/ schedq' = schedq \ {f} /\ UNCHANGED sessions
    BY <1>18 DEF Reap, FinalTimeout, Timeout
  <2>2. f.session \in Addresses /\ schedq \ {f} \in SUBSET schedq
    BY <1>a DEF Entry
  <2>3. CASE destroy_session(f.session, schedq \ {f})
    BY <1>13, <2>2, <2>3
  <2>4. CASE \E c \in Appearances : /\ calls[c].session = f.session
                                    /\ Hangup(calls[c], schedq \ {f})
    <3>1. \A c \in Appearances : calls[c].session = f.session => calls[c] # None
      BY <2>2, AddressesAssumption DEF None
    <3> QED
      BY <1>7, <2>2, <2>4, <3>1
  <2>5. CASE schedq' = schedq \ {f} /\ UNCHANGED sessions
    BY <1>1, <1>3, <2>5
  <2> QED
    BY <2>1, <2>3, <2>4, <2>5
<1> QED
  BY <1>8, <1>9, <1>10, <1>11, <1>12, <1>14, <1>15, <1>16, <1>17, <1>18
     DEF Next, Fgcom, ProcessingThread

\* As long as malloc returns no address a final frame in schedq points to,
\* "If final, destroy the session" of iax_get_event never takes the session of
\* somebody else, POKE or not: at the address there is the session the frame
\* was sent on, because sendto had failed, or none, and none comes while the
\* frame waits.
THEOREM FinalsDestroyTheirOwn == ASSUME ~Reuse PROVE Spec => FinalDestroysItsOwn
<1>1. Init => FinalsInv
  BY TypeStart DEF Init, FinalsInv, FinalsOwnOrDead
<1>2. FinalsInv /\ [Next]_vars => FinalsInv'
  <2> SUFFICES ASSUME FinalsInv, [Next]_vars, NEW e \in schedq', e.kind = "final"
               PROVE  sessions'[e.session] \in {0, e.callno}
    BY TypeStep DEF FinalsInv, FinalsOwnOrDead
  <2>1. e.session \in Addresses
    BY TypeStep DEF FinalsInv, TypeInv, TypeOK, Entry
  <2>2. Rightful(e) /\ Waited(e.session)
    BY <2>1, FinalsStep DEF FinalsInv
  <2> QED
    BY <2>2 DEF Rightful, Waited, FinalsInv, FinalsOwnOrDead
<1>3. FinalsInv /\ [Next]_vars =>
        [\A e \in schedq \ schedq' :
            e.kind = "final" /\ sessions'[e.session] # sessions[e.session]
                => sessions[e.session] = e.callno]_vars
  <2> SUFFICES ASSUME FinalsInv, [Next]_vars, NEW e \in schedq, e.kind = "final",
                      sessions'[e.session] # sessions[e.session]
               PROVE  sessions[e.session] = e.callno
    OBVIOUS
  <2>1. e.session \in Addresses
    BY DEF FinalsInv, TypeInv, TypeOK, Entry
  <2>2. Waited(e.session)
    BY <2>1, FinalsStep DEF FinalsInv
  <2> QED
    BY <2>2 DEF Waited, FinalsInv, FinalsOwnOrDead
<1> QED
  BY <1>1, <1>2, <1>3, PTL DEF Spec, FinalDestroysItsOwn

=============================================================================
