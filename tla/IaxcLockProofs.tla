--------------------------- MODULE IaxcLockProofs ---------------------------
(***************************************************************************)
(* Proofs about IaxcLock, for any number of events and of sections of the  *)
(* main thread, and signals on either thread.                              *)
(*                                                                         *)
(* LockInv is the inductive invariant: the types, what the locals of each  *)
(* context are where it stands, and, while the mutex exists, that whoever  *)
(* is between get_iaxc_lock and put_iaxc_lock owns it and that iaxc_locked *)
(* is set until it has read and cleared the queue.  OnceInv and LossInv    *)
(* are about the list; the latter needs no mutex, and holds until a race.  *)
(***************************************************************************)
EXTENDS IaxcLock, TLAPS

\* The node being delivered and the event being posted are there when used
Located ==
    \A c \in Contexts :
        /\ pc[c] \in {"out", "in"} => event[c] = Null
        /\ pc[c] \in {"deliver", "free"} => event[c] # Null
        /\ pc[c] \in Posting => e[c] # NoEvent

\* Whoever holds the lock owns the mutex, and no handler runs where there was
\* no signal
Owned ==
    /\ interrupted = NoOne => pc[Handler] = "out"
    /\ ~destroyed => \A c \in Contexts : Holds(c) => owner = Thread(c)

\* The flag is set as long as its holder may post
Flagged ==
    ~destroyed => \A c \in Contexts :
        Holds(c) /\ pc[c] # "unlock" => iaxc_locked

LockInv ==
    /\ TypeOK /\ Located
    /\ Owned /\ Exclusive /\ Flagged /\ NoCallbackInside

USE DEF program, mutex, list, locals, history

-----------------------------------------------------------------------------
(* Types, one lemma for each action that has more to it *)

LEMMA FaultIsTyped ==
    ASSUME TypeOK, Located, Fault PROVE TypeOK' /\ Located'
  BY DEF TypeOK, Located, Fault

LEMMA LockIsTyped ==
    ASSUME TypeOK, Located, NEW c \in Contexts, Lock(c)
    PROVE  TypeOK' /\ Located'
<1>1. Thread(c) \in Threads \cup {NoOne}
  BY DEF TypeOK, Thread, Contexts
<1>2. left' \in [Contexts -> 0 .. MaxSections + 4]
  <2>1. CASE c = Processing
    BY <2>1 DEF TypeOK, Lock
  <2>2. CASE c # Processing
    <3>1. left[c] - 1 \in 0 .. MaxSections + 4
      BY <2>2, LimitsAssumption DEF TypeOK, Lock
    <3> QED
      BY <2>2, <3>1 DEF TypeOK, Lock
  <2> QED
    BY <2>1, <2>2
<1>3. pc' \in [Contexts -> Outside \cup Inside \cup Posting]
  BY DEF TypeOK, Lock, Goto, Inside
<1>4. TypeOK'
  BY <1>1, <1>2, <1>3 DEF TypeOK, Lock
<1>5. Located'
  BY DEF TypeOK, Located, Lock, At, Goto, Posting
<1> QED
  BY <1>4, <1>5

LEMMA PostIsTyped ==
    ASSUME TypeOK, Located, NEW c \in Contexts, Post(c)
    PROVE  TypeOK' /\ Located'
<1>1. posted' \in 0 .. MaxEvents /\ posted' \in Events /\ posted' # NoEvent
  BY LimitsAssumption DEF TypeOK, Post, Events, NoEvent
<1>2. pc' \in [Contexts -> Outside \cup Inside \cup Posting]
  BY DEF TypeOK, Post, TestLocked, Goto, Posting
<1>3. TypeOK'
  BY <1>1, <1>2 DEF TypeOK, Post
<1>4. Located'
  BY <1>1 DEF TypeOK, Located, Post, At, TestLocked, Goto, Posting
<1> QED
  BY <1>3, <1>4

LEMMA WalkIsTyped ==
    ASSUME TypeOK, Located, NEW c \in Contexts, Walk(c)
    PROVE  TypeOK' /\ Located'
<1>1. CASE Freed(tail[c])
  BY <1>1, FaultIsTyped DEF Walk
<1>2. CASE ~Freed(tail[c])
  <2>1. pc' \in [Contexts -> Outside \cup Inside \cup Posting]
    BY <1>2 DEF TypeOK, Walk, Goto, Posting
  <2>2. tail' \in [Contexts -> Nodes \cup {event_queue}]
    BY <1>2 DEF TypeOK, Walk
  <2>3. TypeOK'
    BY <1>2, <2>1, <2>2 DEF TypeOK, Walk
  <2>4. Located'
    BY <1>2 DEF TypeOK, Located, Walk, At, Goto, Posting
  <2> QED
    BY <2>3, <2>4
<1> QED
  BY <1>1, <1>2

LEMMA LinkIsTyped ==
    ASSUME TypeOK, Located, NEW c \in Contexts, Link(c)
    PROVE  TypeOK' /\ Located'
<1>1. CASE Freed(tail[c])
  BY <1>1, FaultIsTyped DEF Link
<1>2. CASE ~Freed(tail[c])
  <2>1. malloc \in Nodes
    BY DEF Link, malloc
  <2>2. raced' \in BOOLEAN
    BY <1>2 DEF Link, Race, TypeOK
  <2>3. pc' \in [Contexts -> Outside \cup Inside \cup Posting]
    BY <1>2 DEF Link, Return, Goto, TypeOK, Outside, Inside
  <2>4. next' \in [Nodes \cup {event_queue} -> Nodes \cup {Null}]
        /\ content' \in [Nodes -> Events \cup {NoEvent}]
    BY <1>2, <2>1 DEF TypeOK, Link
  <2>5. TypeOK'
    BY <1>2, <2>2, <2>3, <2>4 DEF TypeOK, Link
  <2>6. Located'
    BY <1>2 DEF TypeOK, Located, Link, At, Return, Goto, Posting
  <2> QED
    BY <2>5, <2>6
<1> QED
  BY <1>1, <1>2

LEMMA CallbackIsTyped ==
    ASSUME TypeOK, Located, NEW c \in Contexts, Callback(c)
    PROVE  TypeOK' /\ Located'
<1>1. e[c] \in Events
  BY DEF TypeOK, Located, Callback, At, Posting
<1>2. called' \in Seq(Events)
  BY <1>1 DEF TypeOK, Callback
<1>3. pc' \in [Contexts -> Outside \cup Inside \cup Posting]
  BY DEF Callback, Return, Goto, TypeOK, Outside, Inside
<1>4. TypeOK'
  BY <1>2, <1>3 DEF TypeOK, Callback
<1>5. Located'
  BY DEF TypeOK, Located, Callback, At, Return, Goto, Posting
<1> QED
  BY <1>4, <1>5

LEMMA TakeAndClearAreTyped ==
    ASSUME TypeOK, Located, NEW c \in Contexts, Take(c) \/ Clear(c)
    PROVE  TypeOK' /\ Located'
<1>1. pc' \in [Contexts -> Outside \cup Inside \cup Posting]
  BY DEF TypeOK, Take, Clear, Goto, Inside
<1>2. raced' \in BOOLEAN
  BY DEF TypeOK, Take, Clear, Race
<1>3. TypeOK'
  BY <1>1, <1>2 DEF TypeOK, Take, Clear
<1>4. Located'
  BY DEF TypeOK, Located, Take, Clear, At, Goto, Posting
<1> QED
  BY <1>3, <1>4

LEMMA UnlockIsTyped ==
    ASSUME TypeOK, Located, NEW c \in Contexts, SetUnlocked(c) \/ Unlock(c)
    PROVE  TypeOK' /\ Located'
<1>1. pc' \in [Contexts -> Outside \cup Inside \cup Posting]
  BY DEF TypeOK, SetUnlocked, Unlock, Goto, Loop, Inside, Outside
<1>2. TypeOK'
  BY <1>1 DEF TypeOK, SetUnlocked, Unlock
<1>3. Located'
  BY DEF TypeOK, Located, SetUnlocked, Unlock, At, Goto, Loop, Posting
<1> QED
  BY <1>2, <1>3

LEMMA DeliverIsTyped ==
    ASSUME TypeOK, Located, NEW c \in Contexts, Deliver(c)
    PROVE  TypeOK' /\ Located'
<1>1. CASE Freed(event[c])
  BY <1>1, FaultIsTyped DEF Deliver
<1>2. CASE ~Freed(event[c])
  <2>1. event[c] \in Nodes
    BY DEF TypeOK, Located, Deliver, At
  <2>2. content[event[c]] \in Events /\ content[event[c]] # NoEvent
    BY <1>2, <2>1 DEF TypeOK, Freed
  <2>3. pc' \in [Contexts -> Outside \cup Inside \cup Posting]
    BY <1>2 DEF TypeOK, Deliver, TestLocked, Goto, Posting
  <2>4. TypeOK'
    BY <1>2, <2>2, <2>3 DEF TypeOK, Deliver
  <2>5. Located'
    BY <1>2, <2>2 DEF TypeOK, Located, Deliver, At, TestLocked, Goto, Posting
  <2> QED
    BY <2>4, <2>5
<1> QED
  BY <1>1, <1>2

LEMMA FreeIsTyped ==
    ASSUME TypeOK, Located, NEW c \in Contexts, Free(c)
    PROVE  TypeOK' /\ Located'
<1>1. CASE Freed(event[c])
  BY <1>1, FaultIsTyped DEF Free
<1>2. CASE ~Freed(event[c])
  <2>1. event[c] \in Nodes
    BY DEF TypeOK, Located, Free, At
  <2>2. next[event[c]] \in Nodes \cup {Null}
    BY <2>1 DEF TypeOK
  <2>3. pc' \in [Contexts -> Outside \cup Inside \cup Posting]
    BY <1>2 DEF TypeOK, Free, Goto, Loop, Outside
  <2>4. raced' \in BOOLEAN
    BY <1>2 DEF TypeOK, Free, Race
  <2>5. TypeOK'
    BY <1>2, <2>1, <2>2, <2>3, <2>4 DEF TypeOK, Free
  <2>6. Located'
    BY <1>2 DEF TypeOK, Located, Free, At, Goto, Loop, Posting
  <2> QED
    BY <2>5, <2>6
<1> QED
  BY <1>1, <1>2

LEMMA ProgramIsTyped ==
    ASSUME TypeOK, Located,
           \/ StartProcessing \/ Destroy \/ Exit
           \/ \E t \in Interruptible : Signal(t)
    PROVE  TypeOK' /\ Located'
<1>1. CASE StartProcessing \/ Exit
  BY <1>1 DEF TypeOK, Located, StartProcessing, Exit
<1>4. 1 \in 0 .. MaxSections + 4 /\ 4 \in 0 .. MaxSections + 4
  BY LimitsAssumption
<1>2. CASE Destroy
  <2>1. left' \in [Contexts -> 0 .. MaxSections + 4]
    BY <1>2, <1>4 DEF TypeOK, Destroy
  <2> QED
    BY <1>2, <2>1 DEF TypeOK, Located, Destroy
<1>3. CASE \E t \in Interruptible : Signal(t)
  <2>1. left' \in [Contexts -> 0 .. MaxSections + 4]
    BY <1>3, <1>4 DEF TypeOK, Signal
  <2>2. interrupted' \in Threads \cup {NoOne}
    BY <1>3, ContextsAssumption DEF Signal
  <2> QED
    BY <1>3, <2>1, <2>2 DEF TypeOK, Located, Signal
<1> QED
  BY <1>1, <1>2, <1>3

LEMMA InitIsTyped ==
    ASSUME Init PROVE TypeOK /\ Located
<1>1. left \in [Contexts -> 0 .. MaxSections + 4]
  <2>1. MaxSections \in 0 .. MaxSections + 4 /\ 0 \in 0 .. MaxSections + 4
    BY LimitsAssumption
  <2> QED
    BY <2>1 DEF Init
<1>4. posted \in 0 .. MaxEvents /\ called \in Seq(Events)
  BY LimitsAssumption DEF Init
<1>5. pc \in [Contexts -> Outside \cup Inside \cup Posting]
  BY DEF Init, Outside
<1>2. TypeOK
  BY <1>1, <1>4, <1>5 DEF Init, TypeOK
<1>3. Located
  BY DEF Init, Located, Posting
<1> QED
  BY <1>2, <1>3

LEMMA NextIsTyped ==
    ASSUME TypeOK, Located, [Next]_vars PROVE TypeOK' /\ Located'
<1>1. CASE UNCHANGED vars
  BY <1>1 DEF TypeOK, Located, vars
<1> QED
  BY <1>1, LockIsTyped, PostIsTyped, WalkIsTyped, LinkIsTyped, CallbackIsTyped,
     TakeAndClearAreTyped, UnlockIsTyped, DeliverIsTyped, FreeIsTyped,
     ProgramIsTyped DEF Next, Proceed

\* Every variable of the lock and of the queue keeps its type, whatever
\* get_iaxc_lock, put_iaxc_lock, iaxc_post_event and quit do to each other: in
\* particular no context uses a node or an event it does not have.
THEOREM TypeCorrect == Spec => []TypeOK
<1>1. Init => TypeOK /\ Located
  BY InitIsTyped
<1>2. (TypeOK /\ Located) /\ [Next]_vars => (TypeOK /\ Located)'
  BY NextIsTyped
<1> QED
  BY <1>1, <1>2, PTL DEF Spec


-----------------------------------------------------------------------------
(* Mutual exclusion, and what it gives to the callback *)

\* A step inside the library that leaves the mutex and iaxc_locked alone, and
\* neither begins to hold nor calls back without leave, keeps the invariant.
LEMMA LocalStep ==
    ASSUME LockInv, NEW c \in Contexts, Runs(c),
           UNCHANGED <<interrupted, owner, destroyed, iaxc_locked>>,
           \A d \in Contexts \ {c} : pc'[d] = pc[d] /\ event'[d] = event[d],
           Holds(c)' => Holds(c) /\ pc[c] # "unlock",
           pc'[c] = "call" /\ Holds(c)' => ~iaxc_locked
    PROVE  (Owned /\ Exclusive /\ Flagged /\ NoCallbackInside)'
<1>1. \A d \in Contexts \ {c} : Holds(d)' <=> Holds(d)
  BY DEF Holds
<1>2. \A d \in Contexts : Thread(d)' = Thread(d)
  BY DEF Thread
<1>3. \A d \in Contexts : Holds(d)' => Holds(d)
  BY <1>1
<1>4. interrupted = NoOne => c # Handler
  BY ContextsAssumption DEF Runs, Contexts, Threads
<1>5. Owned'
  BY <1>2, <1>3, <1>4 DEF Owned, LockInv, Contexts
<1>6. Exclusive'
  BY <1>3 DEF Exclusive, LockInv
<1>7. Flagged'
  BY <1>1, <1>3 DEF Flagged, LockInv
<1>8. NoCallbackInside'
  BY <1>1, <1>3 DEF NoCallbackInside, Flagged, LockInv
<1> QED
  BY <1>5, <1>6, <1>7, <1>8

LEMMA LockExcludes ==
    ASSUME LockInv, NEW c \in Contexts, Lock(c)
    PROVE  (Owned /\ Exclusive /\ Flagged /\ NoCallbackInside)'
<1> SUFFICES ASSUME ~destroyed'
             PROVE  (Owned /\ Exclusive /\ Flagged /\ NoCallbackInside)'
  <2>1. interrupted = NoOne => c # Handler
    BY ContextsAssumption DEF Lock, At, Runs, Contexts, Threads
  <2>2. Owned' \/ ~destroyed'
    BY <2>1 DEF Owned, Lock, Goto, LockInv, TypeOK, Contexts
  <2> QED
    BY <2>2 DEF Exclusive, Flagged, NoCallbackInside
<1>1. ~destroyed /\ owner = NoOne /\ owner' = Thread(c) /\ iaxc_locked'
  BY DEF Lock
<1>2. \A d \in Contexts : Thread(d)' = Thread(d)
  BY DEF Thread, Lock
<1>3. \A d \in Contexts : Holds(d) => Thread(d) = NoOne
  BY <1>1 DEF Owned, LockInv
<1>4. \A d \in Contexts : Thread(d) = NoOne => pc[d] = "out"
  BY ContextsAssumption DEF Thread, Owned, LockInv, Contexts, Threads
<1>5. \A d \in Contexts : ~Holds(d)
  BY <1>3, <1>4 DEF Holds, Inside, Posting
<1>6. /\ pc' = [pc EXCEPT ![c] = "in"] /\ event' = event
      /\ pc \in [Contexts -> Outside \cup Inside \cup Posting]
  BY DEF Lock, Goto, LockInv, TypeOK
<1>7. \A d \in Contexts : Holds(d)' => d = c
  BY <1>5, <1>6 DEF Holds
<1>8. Owned'
  <2>1. interrupted = NoOne => c # Handler
    BY ContextsAssumption DEF Lock, At, Runs, Contexts, Threads
  <2> QED
    BY <1>1, <1>2, <1>6, <1>7, <2>1 DEF Owned, LockInv, Lock, Contexts
<1>9. Exclusive' /\ Flagged'
  BY <1>1, <1>7 DEF Exclusive, Flagged
<1>10. NoCallbackInside'
  BY <1>6, <1>7 DEF NoCallbackInside
<1> QED
  BY <1>8, <1>9, <1>10

LEMMA UnlockExcludes ==
    ASSUME LockInv, NEW c \in Contexts, SetUnlocked(c) \/ Unlock(c)
    PROVE  (Owned /\ Exclusive /\ Flagged /\ NoCallbackInside)'
<1>1. Holds(c) /\ Runs(c)
  BY DEF SetUnlocked, Unlock, At, Holds, Inside
<1>2. \A d \in Contexts : Thread(d)' = Thread(d)
  BY DEF Thread, SetUnlocked, Unlock
<1>3. \A d \in Contexts \ {c} : Holds(d)' <=> Holds(d)
  BY DEF Holds, SetUnlocked, Unlock, Goto, LockInv, TypeOK
<1>4. ~destroyed => \A d \in Contexts \ {c} : ~Holds(d)
  BY <1>1 DEF Exclusive, LockInv
<1>5. interrupted = NoOne => c # Handler
  BY <1>1, ContextsAssumption DEF Runs, Contexts, Threads
<1>6. destroyed' = destroyed /\ interrupted' = interrupted
  BY DEF SetUnlocked, Unlock
<1>7. CASE SetUnlocked(c)
  <2>1. pc'[c] = "unlock" /\ owner' = owner
    BY <1>7 DEF SetUnlocked, Goto, LockInv, TypeOK
  <2>2. Owned'
    BY <1>1, <1>2, <1>3, <1>5, <1>6, <1>7, <2>1
    DEF Owned, LockInv, SetUnlocked, Goto, TypeOK, Contexts
  <2> QED
    BY <1>3, <1>4, <1>6, <2>1, <2>2 DEF Exclusive, Flagged, NoCallbackInside
<1>8. CASE Unlock(c)
  <2>1. ~Holds(c)' /\ pc'[c] # "call"
    BY <1>8 DEF Unlock, Goto, Loop, LockInv, TypeOK, Holds, Inside, Posting
  <2>2. Owned'
    BY <1>3, <1>4, <1>5, <1>6, <1>8, <2>1
    DEF Owned, LockInv, Unlock, Goto, TypeOK, Contexts
  <2> QED
    BY <1>3, <1>4, <1>6, <2>1, <2>2 DEF Exclusive, Flagged, NoCallbackInside
<1> QED
  BY <1>7, <1>8

LEMMA SignalExcludes ==
    ASSUME LockInv, NEW t \in Interruptible, Signal(t)
    PROVE  (Owned /\ Exclusive /\ Flagged /\ NoCallbackInside)'
<1>1. interrupted = NoOne /\ interrupted' # NoOne
  BY ContextsAssumption DEF Signal, Contexts, Threads
<1>2. UNCHANGED <<pc, event, owner, destroyed, iaxc_locked>>
  BY DEF Signal
<1>3. ~Holds(Handler)
  BY <1>1 DEF Owned, LockInv, Holds, Inside, Posting
<1>4. \A d \in Contexts : Holds(d)' <=> Holds(d)
  BY <1>2 DEF Holds
<1>5. \A d \in Contexts : Holds(d) => Thread(d)' = Thread(d)
  BY <1>3 DEF Thread
<1>6. Owned'
  BY <1>1, <1>2, <1>4, <1>5 DEF Owned, LockInv
<1> QED
  BY <1>2, <1>4, <1>6 DEF Exclusive, Flagged, NoCallbackInside, LockInv

LEMMA NextExcludes ==
    ASSUME LockInv, [Next]_vars
    PROVE  (Owned /\ Exclusive /\ Flagged /\ NoCallbackInside)'
<1> USE DEF Outside, Inside, Posting
<1>1. CASE Fault \/ StartProcessing \/ Exit \/ UNCHANGED vars
  <2>1. UNCHANGED <<interrupted, pc, event, owner, destroyed, iaxc_locked>>
    BY <1>1 DEF Fault, StartProcessing, Exit, vars
  <2> QED
    BY <2>1 DEF LockInv, Owned, Exclusive, Flagged, NoCallbackInside, Holds,
       Thread
<1>2. CASE Destroy
  <2>1. UNCHANGED <<interrupted, pc, event, owner, iaxc_locked>>
        /\ (destroyed => destroyed')
    BY <1>2 DEF Destroy
  <2> QED
    BY <1>2, <2>1 DEF LockInv, Owned, Exclusive, Flagged, NoCallbackInside, Holds,
       Thread
<1>3. ASSUME NEW c \in Contexts, Lock(c)
      PROVE  (Owned /\ Exclusive /\ Flagged /\ NoCallbackInside)'
  BY <1>3, LockExcludes
<1>4. ASSUME NEW c \in Contexts, SetUnlocked(c) \/ Unlock(c)
      PROVE  (Owned /\ Exclusive /\ Flagged /\ NoCallbackInside)'
  BY <1>4, UnlockExcludes
<1>5. ASSUME NEW t \in Interruptible, Signal(t)
      PROVE  (Owned /\ Exclusive /\ Flagged /\ NoCallbackInside)'
  BY <1>5, SignalExcludes
<1>6. ASSUME NEW c \in Contexts, ~Fault,
             \/ Post(c) \/ Walk(c) \/ Link(c) \/ Callback(c)
             \/ Take(c) \/ Clear(c) \/ Deliver(c) \/ Free(c)
      PROVE  (Owned /\ Exclusive /\ Flagged /\ NoCallbackInside)'
  <2>1. Runs(c) /\ UNCHANGED <<interrupted, owner, destroyed, iaxc_locked>>
    BY <1>6 DEF Post, Walk, Link, Callback, Take, Clear, Deliver, Free, At
  <2>2. \A d \in Contexts \ {c} : pc'[d] = pc[d] /\ event'[d] = event[d]
    BY <1>6 DEF Post, Walk, Link, Callback, Take, Clear, Deliver, Free, At,
       TestLocked, Return, Goto, LockInv, TypeOK
  <2>3. Holds(c)' => Holds(c) /\ pc[c] # "unlock"
    BY <1>6 DEF Post, Walk, Link, Callback, Take, Clear, Deliver, Free, At,
       TestLocked, Return, Goto, Loop, LockInv, TypeOK, Located, Holds
  <2>4. pc'[c] = "call" /\ Holds(c)' => ~iaxc_locked
    BY <1>6 DEF Post, Walk, Link, Callback, Take, Clear, Deliver, Free, At,
       TestLocked, Return, Goto, Loop, LockInv, TypeOK, Located, Holds
  <2> QED
    BY <2>1, <2>2, <2>3, <2>4, LocalStep
<1> QED
  BY <1>1, <1>2, <1>3, <1>4, <1>5, <1>6 DEF Next, Proceed

LEMMA InitExcludes ==
    ASSUME Init PROVE Owned /\ Exclusive /\ Flagged /\ NoCallbackInside
<1>1. \A c \in Contexts : ~Holds(c)
  BY DEF Init, Holds, Inside, Posting
<1>2. pc[Handler] = "out"
  BY DEF Init, Contexts
<1> QED
  BY <1>1, <1>2 DEF Owned, Exclusive, Flagged, NoCallbackInside

LEMMA LockInvariant == Spec => []LockInv
<1>1. Init => LockInv
  BY InitIsTyped, InitExcludes DEF LockInv
<1>2. LockInv /\ [Next]_vars => LockInv'
  <2> SUFFICES ASSUME LockInv, [Next]_vars PROVE LockInv'
    OBVIOUS
  <2>1. TypeOK' /\ Located'
    BY NextIsTyped DEF LockInv
  <2>2. (Owned /\ Exclusive /\ Flagged /\ NoCallbackInside)'
    BY NextExcludes
  <2> QED
    BY <2>1, <2>2 DEF LockInv
<1> QED
  BY <1>1, <1>2, PTL DEF Spec

\* While the mutex exists, the threads and the signal handler are never two
\* between get_iaxc_lock and put_iaxc_lock.
THEOREM LockIsExclusive == Spec => []Exclusive
<1>1. LockInv => Exclusive
  BY DEF LockInv
<1> QED
  BY <1>1, LockInvariant, PTL

\* While the mutex exists, put_iaxc_lock and iaxc_post_event never call fgcom
\* back with the lock held, so that the callback may use iaxclient.
THEOREM CallbacksOutsideLock == Spec => []NoCallbackInside
<1>1. LockInv => NoCallbackInside
  BY DEF LockInv
<1> QED
  BY <1>1, LockInvariant, PTL

-----------------------------------------------------------------------------
(* No event twice *)

\* While the mutex exists no two pointers lead to the same node, but for the
\* moment between the two halves of put_iaxc_lock, and none to a freed node
Distinct ==
    ~destroyed =>
        /\ \A m, n \in Nodes \cup {event_queue} :
              next[m] = next[n] /\ next[m] # Null => m = n
        /\ \A c, d \in Contexts :
              event[c] = event[d] /\ event[c] # Null => c = d
        /\ \A c \in Contexts, m \in Nodes \cup {event_queue} :
              event[c] = next[m] /\ event[c] # Null =>
                  m = event_queue /\ pc[c] = "clear"
        /\ \A m \in Nodes \cup {event_queue} : ~Freed(next[m])
        /\ \A c \in Contexts : ~Freed(event[c])
        /\ \A n \in Nodes : Freed(n) => next[n] = Null

\* The event of a node that put_iaxc_lock is at is elsewhere by now
Done(n) ==
    \E c \in Contexts : event[c] = n /\ pc[c] \in Posting \cup {"free"}

\* Each event waits in one node, or is being posted by one context, or has been
\* called back once
Once ==
    ~destroyed =>
        /\ \A m, n \in Nodes :
              content[m] = content[n] /\ ~Freed(m) /\ ~Done(m) /\ ~Done(n)
                  => m = n
        /\ \A n \in Nodes, c \in Contexts :
              ~Done(n) /\ pc[c] \in Posting => content[n] # e[c]
        /\ \A n \in Nodes, k \in DOMAIN called :
              ~Done(n) => content[n] # called[k]
        /\ \A c, d \in Contexts :
              pc[c] \in Posting /\ pc[d] \in Posting /\ e[c] = e[d] => c = d
        /\ \A c \in Contexts, k \in DOMAIN called :
              pc[c] \in Posting => e[c] # called[k]
        /\ \A n \in Nodes : content[n] <= posted
        /\ \A c \in Contexts : e[c] <= posted
        /\ \A k \in DOMAIN called : called[k] <= posted

OnceInv == LockInv /\ Distinct /\ Once /\ CalledBackOnce

\* What changes none of the lists keeps the pointers apart
LEMMA ListsApart ==
    ASSUME OnceInv, ~destroyed',
           UNCHANGED <<destroyed, next, content, event>>,
           \A c \in Contexts : pc[c] = "clear" => pc'[c] = "clear"
    PROVE  Distinct'
  BY DEF OnceInv, Distinct, Freed

LEMMA LinkApart ==
    ASSUME OnceInv, NEW c \in Contexts, Link(c), ~Fault, ~destroyed
    PROVE  Distinct'
<1> DEFINE Links == Nodes \cup {event_queue}
<1>1. /\ next' = [next EXCEPT ![tail[c]] = malloc, ![malloc] = Null]
      /\ content' = [content EXCEPT ![malloc] = e[c]]
      /\ event' = event /\ ~Freed(tail[c])
  BY DEF Link
<1>2. malloc \in Nodes /\ Freed(malloc)
  BY DEF Link, malloc
<1>3. /\ next \in [Links -> Nodes \cup {Null}]
      /\ content \in [Nodes -> Events \cup {NoEvent}]
      /\ tail[c] \in Links /\ e[c] # NoEvent
      /\ pc \in [Contexts -> Outside \cup Inside \cup Posting]
  BY DEF OnceInv, LockInv, TypeOK, Located, Link, At, Posting
<1>4. tail[c] # malloc /\ malloc # event_queue
  BY <1>1, <1>2, NodesAssumption
<1>5. \A m \in Links : next'[m] = IF m = tail[c] THEN malloc
                                 ELSE IF m = malloc THEN Null ELSE next[m]
  BY <1>1, <1>2, <1>3, <1>4
<1>6. \A n \in Nodes : Freed(n)' => Freed(n) /\ n # malloc
  BY <1>1, <1>2, <1>3 DEF Freed
<1>7. \A m \in Links : next[m] # malloc
  BY <1>2 DEF OnceInv, Distinct
<1>8. \A d \in Contexts : event[d] # malloc
  BY <1>2 DEF OnceInv, Distinct
<1>9. \A d \in Contexts : pc[d] = "clear" => pc'[d] = "clear"
  BY <1>3 DEF Link, At, Return, Goto
<1>10. \A n \in Nodes \cup {Null} : Freed(n)' => Freed(n) /\ n # malloc
  BY <1>6, NodesAssumption DEF Freed
<1>11. \A m, n \in Links : next'[m] = next'[n] /\ next'[m] # Null => m = n
  BY <1>5, <1>7 DEF OnceInv, Distinct
<1>12. \A d \in Contexts, m \in Links : event'[d] = next'[m] /\ event'[d] # Null
          => m = event_queue /\ pc'[d] = "clear"
  BY <1>1, <1>5, <1>8, <1>9 DEF OnceInv, Distinct
<1>14. \A m \in Links : next'[m] \in Nodes \cup {Null} /\ ~(Freed(next[m]))'
  BY <1>1, <1>2, <1>3, <1>5, <1>10, NodesAssumption DEF OnceInv, Distinct, Freed
<1> QED
  BY <1>1, <1>5, <1>6, <1>8, <1>10, <1>11, <1>12, <1>14
  DEF OnceInv, Distinct, Freed

LEMMA TakeApart ==
    ASSUME OnceInv, NEW c \in Contexts, Take(c), ~destroyed
    PROVE  Distinct'
<1>1. /\ event' = [event EXCEPT ![c] = next[event_queue]]
      /\ next' = next /\ content' = content
      /\ pc' = [pc EXCEPT ![c] = "clear"] /\ pc[c] = "in"
      /\ event \in [Contexts -> Nodes \cup {Null}]
      /\ pc \in [Contexts -> Outside \cup Inside \cup Posting]
  BY DEF Take, At, Goto, OnceInv, LockInv, TypeOK
<1>2. \A d \in Contexts : pc[d] # "clear"
  <2>1. Holds(c) /\ \A d \in Contexts : pc[d] = "clear" => Holds(d)
    BY <1>1 DEF Holds, Inside
  <2> QED
    BY <1>1, <2>1 DEF OnceInv, LockInv, Exclusive
<1>3. \A d \in Contexts, m \in Nodes \cup {event_queue} :
        event[d] = next[m] => event[d] = Null
  BY <1>2 DEF OnceInv, Distinct
<1>4. \A d \in Contexts \ {c} : event'[d] = event[d]
  BY <1>1
<1>5. event'[c] = next[event_queue] /\ pc'[c] = "clear"
  BY <1>1
<1>6. \A d \in Contexts, m \in Nodes \cup {event_queue} :
        event'[d] = next'[m] /\ event'[d] # Null => m = event_queue /\ d = c
  BY <1>1, <1>3, <1>4, <1>5 DEF OnceInv, Distinct
<1>7. \A d1, d2 \in Contexts : event'[d1] = event'[d2] /\ event'[d1] # Null
        => d1 = d2
  BY <1>3, <1>4, <1>5 DEF OnceInv, Distinct
<1>8. \A d \in Contexts : ~Freed(event[d])'
  BY <1>1, <1>4, <1>5 DEF OnceInv, Distinct, Freed
<1> QED
  BY <1>1, <1>5, <1>6, <1>7, <1>8 DEF OnceInv, Distinct, Freed

LEMMA ClearApart ==
    ASSUME OnceInv, NEW c \in Contexts, Clear(c), ~destroyed
    PROVE  Distinct'
<1>1. /\ next' = [next EXCEPT ![event_queue] = Null]
      /\ event' = event /\ content' = content
      /\ pc' = [pc EXCEPT ![c] = "unset"] /\ pc[c] = "clear"
      /\ next \in [Nodes \cup {event_queue} -> Nodes \cup {Null}]
      /\ pc \in [Contexts -> Outside \cup Inside \cup Posting]
  BY DEF Clear, At, Goto, OnceInv, LockInv, TypeOK
<1>2. \A m \in Nodes \cup {event_queue} :
        next'[m] = IF m = event_queue THEN Null ELSE next[m]
  BY <1>1
<1>3. ~Freed(Null)
  BY NodesAssumption DEF Freed
<1>4. \A d \in Contexts, m \in Nodes \cup {event_queue} :
        event'[d] = next'[m] => event'[d] = Null
  BY <1>1, <1>2 DEF OnceInv, Distinct
<1> QED
  BY <1>1, <1>2, <1>3, <1>4 DEF OnceInv, Distinct, Freed

LEMMA FreeApart ==
    ASSUME OnceInv, NEW c \in Contexts, Free(c), ~Fault, ~destroyed
    PROVE  Distinct'
<1> DEFINE n == event[c]
<1>1. /\ event' = [event EXCEPT ![c] = next[n]]
      /\ content' = [content EXCEPT ![n] = NoEvent]
      /\ next' = [next EXCEPT ![n] = Null]
      /\ pc[c] = "free" /\ \A d \in Contexts \ {c} : pc'[d] = pc[d]
  BY DEF Free, At, Goto, OnceInv, LockInv, TypeOK
<1>2. /\ next \in [Nodes \cup {event_queue} -> Nodes \cup {Null}]
      /\ event \in [Contexts -> Nodes \cup {Null}]
      /\ content \in [Nodes -> Events \cup {NoEvent}]
      /\ n \in Nodes
  BY <1>1 DEF OnceInv, LockInv, TypeOK, Located
<1>3. \A m \in Nodes \cup {event_queue} :
        next'[m] = IF m = n THEN Null ELSE next[m]
  BY <1>1, <1>2
<1>4. \A d \in Contexts \ {c} : event'[d] = event[d] /\ event[d] # n
  BY <1>1, <1>2, NodesAssumption DEF OnceInv, Distinct
<1>5. event'[c] = next[n]
  BY <1>1, <1>2
<1>6. \A m \in Nodes \cup {event_queue} : next[m] # n
  BY <1>1, <1>2, NodesAssumption DEF OnceInv, Distinct
<1>7. \A m \in Nodes : Freed(m)' <=> Freed(m) \/ m = n
  BY <1>1, <1>2 DEF Freed
<1>8. ~Freed(Null) /\ ~Freed(Null)'
  BY NodesAssumption DEF Freed
<1>9. \A m, k \in Nodes \cup {event_queue} :
        next'[m] = next'[k] /\ next'[m] # Null => m = k
  BY <1>3 DEF OnceInv, Distinct
<1>10. \A d1, d2 \in Contexts :
         event'[d1] = event'[d2] /\ event'[d1] # Null => d1 = d2
  <2>1. \A d \in Contexts \ {c} : event[d] = next[n] => event[d] = Null
    BY <1>2, NodesAssumption DEF OnceInv, Distinct
  <2> QED
    BY <1>4, <1>5, <2>1 DEF OnceInv, Distinct
<1>11. \A d \in Contexts, m \in Nodes \cup {event_queue} :
         event'[d] = next'[m] /\ event'[d] # Null
           => m = event_queue /\ pc'[d] = "clear"
  <2> SUFFICES ASSUME NEW d \in Contexts, NEW m \in Nodes \cup {event_queue},
                      event'[d] = next'[m], event'[d] # Null
               PROVE  m = event_queue /\ pc'[d] = "clear"
    OBVIOUS
  <2>1. m # n /\ next'[m] = next[m]
    BY <1>3
  <2>2. CASE d = c
    BY <1>2, <1>5, <2>1, <2>2 DEF OnceInv, Distinct
  <2>3. CASE d # c
    BY <1>1, <1>4, <2>1, <2>3 DEF OnceInv, Distinct
  <2> QED
    BY <2>2, <2>3
<1>12. \A m \in Nodes \cup {event_queue} : ~Freed(next[m])'
  <2> TAKE m \in Nodes \cup {event_queue}
  <2>1. next'[m] \in Nodes => ~Freed(next[m]) /\ next[m] # n /\ next'[m] = next[m]
    BY <1>3, <1>6, NodesAssumption DEF OnceInv, Distinct
  <2> QED
    BY <1>7, <2>1 DEF Freed
<1>13. \A d \in Contexts : ~Freed(event[d])'
  <2> TAKE d \in Contexts
  <2>1. CASE d = c
    BY <1>2, <1>5, <1>6, <1>7, <2>1 DEF OnceInv, Distinct, Freed
  <2>2. CASE d # c
    BY <1>4, <1>7, <2>2 DEF OnceInv, Distinct, Freed
  <2> QED
    BY <2>1, <2>2
<1>14. \A m \in Nodes : Freed(m)' => next'[m] = Null
  BY <1>3, <1>7 DEF OnceInv, Distinct
<1> QED
  BY <1>9, <1>10, <1>11, <1>12, <1>13, <1>14 DEF Distinct

LEMMA NextApart ==
    ASSUME OnceInv, [Next]_vars PROVE Distinct'
<1> SUFFICES ASSUME ~destroyed' PROVE Distinct'
  BY DEF Distinct
<1>1. ~destroyed
  BY DEF Next, Proceed, Lock, Post, Walk, Link, Callback, Take, Clear,
     SetUnlocked, Unlock, Deliver, Free, Fault, StartProcessing, Signal,
     Destroy, Exit, vars
<1>2. CASE Fault \/ StartProcessing \/ Exit \/ Destroy \/ UNCHANGED vars
           \/ \E t \in Interruptible : Signal(t)
  <2>1. UNCHANGED <<next, content, event, pc>>
    BY <1>2 DEF Fault, StartProcessing, Exit, Destroy, Signal, vars
  <2> QED
    BY <1>1, <2>1 DEF OnceInv, Distinct, Freed
<1>3. ASSUME NEW c \in Contexts, ~Fault,
             \/ Lock(c) \/ Post(c) \/ Walk(c) \/ Callback(c)
             \/ SetUnlocked(c) \/ Unlock(c) \/ Deliver(c)
      PROVE  Distinct'
  <2>1. UNCHANGED <<destroyed, next, content, event>>
    BY <1>3 DEF Lock, Post, Walk, Callback, SetUnlocked, Unlock, Deliver
  <2>2. \A d \in Contexts : pc[d] = "clear" => pc'[d] = "clear"
    BY <1>3 DEF Lock, Post, Walk, Callback, SetUnlocked, Unlock, Deliver, At,
       TestLocked, Return, Goto, OnceInv, LockInv, TypeOK
  <2> QED
    BY <2>1, <2>2, ListsApart
<1> QED
  BY <1>1, <1>2, <1>3, LinkApart, TakeApart, ClearApart, FreeApart
  DEF Next, Proceed

-----------------------------------------------------------------------------

\* A step that moves no event keeps each in its place
LEMMA QuietStep ==
    ASSUME OnceInv, ~destroyed, UNCHANGED <<content, e, posted, called>>,
           \A d \in Contexts : pc'[d] \in Posting <=> pc[d] \in Posting,
           \A n \in Nodes : Done(n)' <=> Done(n)
    PROVE  Once' /\ CalledBackOnce'
  BY DEF OnceInv, Once, CalledBackOnce, Freed

LEMMA PostOnce ==
    ASSUME OnceInv, ~destroyed, NEW c \in Contexts, Post(c)
    PROVE  Once' /\ CalledBackOnce'
<1>1. /\ e' = [e EXCEPT ![c] = posted + 1] /\ posted' = posted + 1
      /\ UNCHANGED <<content, event, called>>
      /\ pc[c] = "in" /\ pc'[c] \in {"walk", "call"}
      /\ \A d \in Contexts \ {c} : pc'[d] = pc[d]
  BY DEF Post, At, TestLocked, Goto, OnceInv, LockInv, TypeOK
<1>2. /\ e \in [Contexts -> Events \cup {NoEvent}] /\ posted \in Nat
      /\ content \in [Nodes -> Events \cup {NoEvent}] /\ called \in Seq(Events)
      /\ Events \subseteq Nat /\ NoEvent \in Nat
  BY LimitsAssumption DEF OnceInv, LockInv, TypeOK, Events, NoEvent
<1>3. event[c] = Null
  BY <1>1 DEF OnceInv, LockInv, Located
<1>4. \A n \in Nodes : Done(n)' <=> Done(n)
  BY <1>1, <1>3, NodesAssumption DEF Done, Posting
<1>5. \A d \in Contexts : e'[d] = IF d = c THEN posted + 1 ELSE e[d]
  BY <1>1, <1>2
<1>6. \A d \in Contexts \ {c} : pc'[d] \in Posting <=> pc[d] \in Posting
  BY <1>1
<1>7. /\ \A n \in Nodes : content[n] \in Nat /\ content[n] <= posted
      /\ \A d \in Contexts : e[d] \in Nat /\ e[d] <= posted
      /\ \A k \in DOMAIN called : called[k] \in Nat /\ called[k] <= posted
  <2>1. \A n \in Nodes : content[n] \in Nat
    BY <1>2
  <2>2. \A d \in Contexts : e[d] \in Nat
    BY <1>2
  <2>3. \A k \in DOMAIN called : called[k] \in Events
    BY <1>2
  <2>4. \A k \in DOMAIN called : called[k] \in Nat
    BY <2>3, <1>2
  <2>5. Once
    BY DEF OnceInv
  <2> QED
    BY <2>1, <2>2, <2>4, <2>5 DEF Once
<1>8. CalledBackOnce'
  BY <1>1 DEF OnceInv, CalledBackOnce, Post
<1>9. /\ \A n \in Nodes : content[n] <= posted'
      /\ \A d \in Contexts : e'[d] <= posted'
      /\ \A k \in DOMAIN called : called[k] <= posted'
  <2>1. posted' = posted + 1 /\ posted \in Nat
    BY <1>1, <1>2
  <2>2. \A x \in Nat : x <= posted => x <= posted'
    BY <2>1
  <2>3. posted + 1 <= posted'
    BY <2>1
  <2> QED
    BY <2>2, <2>3, <1>5, <1>7
<1>10. \A n \in Nodes, d \in Contexts :
         ~Done(n) /\ pc'[d] \in Posting => content[n] # e'[d]
  BY <1>2, <1>5, <1>6, <1>7 DEF OnceInv, Once
<1>11. \A d1, d2 \in Contexts :
         pc'[d1] \in Posting /\ pc'[d2] \in Posting /\ e'[d1] = e'[d2] => d1 = d2
  BY <1>2, <1>5, <1>6, <1>7 DEF OnceInv, Once
<1>12. \A d \in Contexts, k \in DOMAIN called :
         pc'[d] \in Posting => e'[d] # called[k]
  BY <1>2, <1>5, <1>6, <1>7 DEF OnceInv, Once
<1>13. Once'
  BY <1>1, <1>4, <1>9, <1>10, <1>11, <1>12 DEF OnceInv, Once, Freed
<1> QED
  BY <1>8, <1>13

LEMMA LinkOnce ==
    ASSUME OnceInv, ~destroyed, NEW c \in Contexts, Link(c), ~Fault
    PROVE  Once' /\ CalledBackOnce'
<1>1. /\ content' = [content EXCEPT ![malloc] = e[c]]
      /\ e' = [e EXCEPT ![c] = NoEvent]
      /\ UNCHANGED <<event, posted, called, destroyed>>
      /\ pc[c] = "link" /\ pc'[c] = IF event[c] = Null THEN "in" ELSE "free"
      /\ \A d \in Contexts \ {c} : pc'[d] = pc[d]
  BY DEF Link, At, Return, Goto, OnceInv, LockInv, TypeOK
<1>2. malloc \in Nodes /\ Freed(malloc)
  BY DEF Link, malloc
<1>3. /\ e \in [Contexts -> Events \cup {NoEvent}]
      /\ content \in [Nodes -> Events \cup {NoEvent}]
      /\ e[c] # NoEvent /\ posted \in Nat /\ NoEvent = 0
  BY <1>1, LimitsAssumption
  DEF OnceInv, LockInv, TypeOK, Located, Posting, NoEvent
<1>4. \A n \in Nodes : Done(n)' <=> Done(n)
  BY <1>1, NodesAssumption DEF Done, Posting
<1>5. ~Done(malloc)
  BY <1>2 DEF OnceInv, Distinct, Done
<1>6. \A n \in Nodes : content'[n] = IF n = malloc THEN e[c] ELSE content[n]
  BY <1>1, <1>2, <1>3
<1>7. /\ \A d \in Contexts : pc'[d] \in Posting <=> d # c /\ pc[d] \in Posting
      /\ \A d \in Contexts \ {c} : e'[d] = e[d]
      /\ e'[c] = NoEvent /\ pc[c] \in Posting
  BY <1>1, <1>3 DEF Posting
<1>8. \A m, n \in Nodes :
        content'[m] = content'[n] /\ ~Freed(m)' /\ ~Done(m) /\ ~Done(n) => m = n
  BY <1>2, <1>6, <1>7 DEF OnceInv, Once, Freed
<1>9. \A n \in Nodes, d \in Contexts :
        ~Done(n) /\ pc'[d] \in Posting => content'[n] # e'[d]
  BY <1>6, <1>7 DEF OnceInv, Once
<1>10. \A n \in Nodes, k \in DOMAIN called : ~Done(n) => content'[n] # called[k]
  BY <1>6, <1>7 DEF OnceInv, Once
<1>11. \A n \in Nodes : content'[n] <= posted
  BY <1>6 DEF OnceInv, Once
<1>12. \A d \in Contexts : e'[d] <= posted
  BY <1>3, <1>7 DEF OnceInv, Once
<1>13. CalledBackOnce'
  BY <1>1 DEF OnceInv, CalledBackOnce
<1>14. Once'
  BY <1>1, <1>4, <1>7, <1>8, <1>9, <1>10, <1>11, <1>12 DEF OnceInv, Once
<1> QED
  BY <1>13, <1>14

LEMMA CallbackOnce ==
    ASSUME OnceInv, ~destroyed, NEW c \in Contexts, Callback(c)
    PROVE  Once' /\ CalledBackOnce'
<1>1. /\ called' = Append(called, e[c]) /\ e' = [e EXCEPT ![c] = NoEvent]
      /\ UNCHANGED <<content, event, posted, destroyed>>
      /\ pc[c] = "call" /\ pc'[c] = IF event[c] = Null THEN "in" ELSE "free"
      /\ \A d \in Contexts \ {c} : pc'[d] = pc[d]
  BY DEF Callback, At, Return, Goto, OnceInv, LockInv, TypeOK
<1>2. /\ e \in [Contexts -> Events \cup {NoEvent}] /\ called \in Seq(Events)
      /\ e[c] \in Events /\ posted \in Nat /\ NoEvent = 0
  BY <1>1, LimitsAssumption
  DEF OnceInv, LockInv, TypeOK, Located, Posting, NoEvent
<1>3. \A n \in Nodes : Done(n)' <=> Done(n)
  BY <1>1, NodesAssumption DEF Done, Posting
<1>4. \A k \in DOMAIN called' : \/ k \in DOMAIN called /\ called'[k] = called[k]
                                \/ k = Len(called) + 1 /\ called'[k] = e[c]
  BY <1>1, <1>2
<1>5. /\ \A d \in Contexts : pc'[d] \in Posting <=> d # c /\ pc[d] \in Posting
      /\ \A d \in Contexts \ {c} : e'[d] = e[d]
      /\ e'[c] = NoEvent /\ pc[c] \in Posting
  BY <1>1, <1>2 DEF Posting
<1>6. CalledBackOnce'
  BY <1>4, <1>5 DEF OnceInv, Once, CalledBackOnce
<1>7. \A n \in Nodes, k \in DOMAIN called' : ~Done(n) => content[n] # called'[k]
  BY <1>4, <1>5 DEF OnceInv, Once
<1>8. \A d \in Contexts, k \in DOMAIN called' :
        pc'[d] \in Posting => e'[d] # called'[k]
  BY <1>4, <1>5 DEF OnceInv, Once
<1>9. \A k \in DOMAIN called' : called'[k] <= posted
  BY <1>4, <1>5 DEF OnceInv, Once
<1>10. \A d \in Contexts : e'[d] <= posted
  BY <1>2, <1>5 DEF OnceInv, Once
<1>11. Once'
  BY <1>1, <1>3, <1>5, <1>7, <1>8, <1>9, <1>10 DEF OnceInv, Once, Freed
<1> QED
  BY <1>6, <1>11

LEMMA DeliverOnce ==
    ASSUME OnceInv, ~destroyed, NEW c \in Contexts, Deliver(c), ~Fault
    PROVE  Once' /\ CalledBackOnce'
<1> DEFINE n == event[c]
<1>1. /\ e' = [e EXCEPT ![c] = content[n]]
      /\ UNCHANGED <<content, event, posted, called, destroyed>>
      /\ pc[c] = "deliver" /\ pc'[c] \in {"walk", "call"} /\ ~Freed(n)
      /\ \A d \in Contexts \ {c} : pc'[d] = pc[d]
  BY DEF Deliver, At, TestLocked, Goto, OnceInv, LockInv, TypeOK
<1>2. /\ e \in [Contexts -> Events \cup {NoEvent}]
      /\ n \in Nodes /\ NoEvent = 0
  BY <1>1 DEF OnceInv, LockInv, TypeOK, Located, NoEvent
<1>3. ~Done(n)
  BY <1>1, <1>2, NodesAssumption DEF OnceInv, Distinct, Done, Posting
<1>4. \A m \in Nodes : Done(m)' <=> Done(m) \/ m = n
  BY <1>1 DEF Done, Posting
<1>5. /\ \A d \in Contexts : pc'[d] \in Posting <=> d = c \/ pc[d] \in Posting
      /\ \A d \in Contexts \ {c} : e'[d] = e[d]
      /\ e'[c] = content[n]
  BY <1>1, <1>2 DEF Posting
<1>6. \A m \in Nodes, d \in Contexts :
        ~Done(m)' /\ pc'[d] \in Posting => content[m] # e'[d]
  BY <1>1, <1>2, <1>3, <1>4, <1>5 DEF OnceInv, Once
<1>7. \A d1, d2 \in Contexts :
        pc'[d1] \in Posting /\ pc'[d2] \in Posting /\ e'[d1] = e'[d2] => d1 = d2
  BY <1>2, <1>3, <1>5 DEF OnceInv, Once
<1>8. \A d \in Contexts, k \in DOMAIN called :
        pc'[d] \in Posting => e'[d] # called[k]
  BY <1>2, <1>3, <1>5 DEF OnceInv, Once
<1>9. \A d \in Contexts : e'[d] <= posted
  BY <1>2, <1>5 DEF OnceInv, Once
<1>10. CalledBackOnce'
  BY <1>1 DEF OnceInv, CalledBackOnce
<1>11. Once'
  BY <1>1, <1>4, <1>6, <1>7, <1>8, <1>9 DEF OnceInv, Once, Freed
<1> QED
  BY <1>10, <1>11

LEMMA FreeOnce ==
    ASSUME OnceInv, ~destroyed, NEW c \in Contexts, Free(c), ~Fault
    PROVE  Once' /\ CalledBackOnce'
<1> DEFINE n == event[c]
<1>1. /\ event' = [event EXCEPT ![c] = next[n]]
      /\ content' = [content EXCEPT ![n] = NoEvent]
      /\ UNCHANGED <<e, posted, called, destroyed>>
      /\ pc[c] = "free" /\ pc'[c] \in {"out", "deliver"}
      /\ \A d \in Contexts \ {c} : pc'[d] = pc[d]
  BY DEF Free, At, Goto, Loop, OnceInv, LockInv, TypeOK
<1>2. /\ event \in [Contexts -> Nodes \cup {Null}]
      /\ content \in [Nodes -> Events \cup {NoEvent}]
      /\ n \in Nodes /\ NoEvent = 0 /\ posted \in Nat
  BY <1>1, LimitsAssumption
  DEF OnceInv, LockInv, TypeOK, Located, NoEvent
<1>3. \A m \in Nodes \ {n} : Done(m)' <=> Done(m)
  BY <1>1, <1>2 DEF Done, Posting
<1>4. \A m \in Nodes : content'[m] = IF m = n THEN NoEvent ELSE content[m]
  BY <1>1, <1>2
<1>5. \A d \in Contexts : pc'[d] \in Posting <=> pc[d] \in Posting
  BY <1>1 DEF Posting
<1>6. \A d \in Contexts : pc[d] \in Posting => e[d] # NoEvent
  BY DEF OnceInv, LockInv, Located
<1>7. \A k \in DOMAIN called : called[k] # NoEvent
  <2>1. called \in Seq(Events)
    BY DEF OnceInv, LockInv, TypeOK
  <2>2. \A k \in DOMAIN called : called[k] \in Events
    BY <2>1
  <2> QED
    BY <1>2, <2>2 DEF Events
<1>8. \A m, k \in Nodes :
        content'[m] = content'[k] /\ ~Freed(m)' /\ ~Done(m)' /\ ~Done(k)' => m = k
  BY <1>3, <1>4 DEF OnceInv, Once, Freed
<1>9. \A m \in Nodes, d \in Contexts :
        ~Done(m)' /\ pc'[d] \in Posting => content'[m] # e[d]
  BY <1>3, <1>4, <1>5, <1>6 DEF OnceInv, Once
<1>10. \A m \in Nodes, k \in DOMAIN called : ~Done(m)' => content'[m] # called[k]
  BY <1>3, <1>4, <1>7 DEF OnceInv, Once
<1>11. \A m \in Nodes : content'[m] <= posted
  BY <1>2, <1>4 DEF OnceInv, Once
<1>12. CalledBackOnce'
  BY <1>1 DEF OnceInv, CalledBackOnce
<1>13. Once'
  BY <1>1, <1>5, <1>8, <1>9, <1>10, <1>11 DEF OnceInv, Once
<1> QED
  BY <1>12, <1>13

LEMMA NextOnce ==
    ASSUME OnceInv, [Next]_vars PROVE Once' /\ CalledBackOnce'
<1> SUFFICES ASSUME ~destroyed' PROVE Once' /\ CalledBackOnce'
  BY DEF Once, CalledBackOnce
<1>1. ~destroyed
  BY DEF Next, Proceed, Lock, Post, Walk, Link, Callback, Take, Clear,
     SetUnlocked, Unlock, Deliver, Free, Fault, StartProcessing, Signal,
     Destroy, Exit, vars
<1>2. CASE Fault \/ StartProcessing \/ Exit \/ Destroy \/ UNCHANGED vars
           \/ \E t \in Interruptible : Signal(t)
  <2>1. UNCHANGED <<content, e, posted, called, event, pc>>
    BY <1>2 DEF Fault, StartProcessing, Exit, Destroy, Signal, vars
  <2> QED
    BY <1>1, <2>1, QuietStep DEF Done
<1>3. ASSUME NEW c \in Contexts, ~Fault,
             \/ Lock(c) \/ Walk(c) \/ Take(c) \/ Clear(c)
             \/ SetUnlocked(c) \/ Unlock(c)
      PROVE  Once' /\ CalledBackOnce'
  <2>1. /\ UNCHANGED <<content, e, posted, called>>
        /\ \A d \in Contexts \ {c} : event'[d] = event[d] /\ pc'[d] = pc[d]
    BY <1>3 DEF Lock, Walk, Take, Clear, SetUnlocked, Unlock, Goto, OnceInv,
       LockInv, TypeOK
  <2>2. \/ pc[c] \in Posting /\ pc'[c] \in Posting /\ event'[c] = event[c]
        \/ pc[c] \notin Posting \cup {"free"} /\ pc'[c] \notin Posting \cup {"free"}
    BY <1>3 DEF Lock, Walk, Take, Clear, SetUnlocked, Unlock, At, Goto, Loop,
       OnceInv, LockInv, TypeOK, Posting
  <2>3. \A d \in Contexts : pc'[d] \in Posting <=> pc[d] \in Posting
    BY <2>1, <2>2
  <2>4. \A n \in Nodes : Done(n)' <=> Done(n)
    BY <2>1, <2>2 DEF Done
  <2> QED
    BY <1>1, <2>1, <2>3, <2>4, QuietStep
<1> QED
  BY <1>1, <1>2, <1>3, PostOnce, LinkOnce, CallbackOnce, DeliverOnce, FreeOnce
  DEF Next, Proceed

\* While the mutex exists, no event is called back twice: the nodes of the
\* queue are never in two lists, however the threads, put_iaxc_lock and the
\* signal handler interleave.
THEOREM EventsCalledBackOnce == Spec => []CalledBackOnce
<1>1. Init => OnceInv
  <2> SUFFICES ASSUME Init PROVE OnceInv
    OBVIOUS
  <2>1. LockInv
    BY InitIsTyped, InitExcludes DEF LockInv
  <2>2. Distinct
    BY NodesAssumption DEF Init, Distinct, Freed
  <2>3. Once /\ CalledBackOnce
    BY LimitsAssumption DEF Init, Once, CalledBackOnce, Freed, Posting, NoEvent
  <2> QED
    BY <2>1, <2>2, <2>3 DEF OnceInv
<1>2. OnceInv /\ [Next]_vars => OnceInv'
  <2> SUFFICES ASSUME OnceInv, [Next]_vars PROVE OnceInv'
    OBVIOUS
  <2>1. LockInv'
    BY NextIsTyped, NextExcludes DEF OnceInv, LockInv
  <2> QED
    BY <2>1, NextApart, NextOnce DEF OnceInv
<1>3. OnceInv => CalledBackOnce
  BY DEF OnceInv
<1> QED
  BY <1>1, <1>2, <1>3, PTL DEF Spec

-----------------------------------------------------------------------------
(* No event lost *)

\* Without a race no two pointers lead to the same node, destroyed mutex or
\* not, but for contexts that are between the halves of put_iaxc_lock; and none
\* leads to a freed node
Untangled ==
    /\ \A m, n \in Nodes \cup {event_queue} :
          next[m] = next[n] /\ next[m] # Null => m = n
    /\ \A c, d \in Contexts :
          event[c] = event[d] /\ event[c] # Null =>
              c = d \/ (pc[c] = "clear" /\ pc[d] = "clear")
    /\ \A c \in Contexts, m \in Nodes \cup {event_queue} :
          event[c] = next[m] /\ event[c] # Null =>
              m = event_queue /\ pc[c] = "clear"
    /\ \A m \in Nodes \cup {event_queue} : ~Freed(next[m])
    /\ \A c \in Contexts : ~Freed(event[c])
    /\ \A n \in Nodes : Freed(n) => next[n] = Null

\* What a context has read of the list is still so when it uses it, and each walk
\* starts at the head
UpToDate ==
    \A c \in Contexts :
        /\ pc[c] \notin {"walk", "link"} => tail[c] = event_queue
        /\ pc[c] = "clear" => event[c] = next[event_queue]
        /\ pc[c] \in {"walk", "link"} /\ tail[c] # event_queue =>
              Present(tail[c])
        /\ pc[c] = "link" => next[tail[c]] = Null

\* Kept, in a node whose event is not elsewhere by now
Waits(i) ==
    \/ \E c \in Contexts : pc[c] \in Posting /\ e[c] = i
    \/ \E k \in DOMAIN called : called[k] = i
    \/ \E n \in Nodes : content[n] = i /\ ~Done(n) /\ Present(n)

Lossless ==
    status # "fault" /\ Untangled /\ UpToDate /\ \A i \in 1 .. posted : Waits(i)

LossInv == TypeOK /\ Located /\ (~raced => Lossless)

\* The nodes that are not freed are closed under next
LEMMA PresentIsAllocated ==
    ASSUME TypeOK, Untangled, NEW n \in Nodes, Present(n) PROVE ~Freed(n)
<1> DEFINE S == {m \in Nodes : ~Freed(m)}
<1>1. Found \ {Null} \subseteq S
  <2>1. next[event_queue] \in Nodes \cup {Null} /\ ~Freed(next[event_queue])
    BY DEF TypeOK, Untangled
  <2>2. \A c \in Contexts : event[c] \in Nodes \cup {Null} /\ ~Freed(event[c])
    BY DEF TypeOK, Untangled
  <2> QED
    BY <2>1, <2>2 DEF Found
<1>2. \A m \in S : next[m] \in S \cup {Null}
  BY DEF TypeOK, Untangled
<1>3. S \in SUBSET Nodes
  OBVIOUS
<1>4. n \in S
  <2> HIDE DEF S
  <2> QED
    BY <1>1, <1>2, <1>3 DEF Present
<1> QED
  BY <1>4

LEMMA PresentNext ==
    ASSUME NEW n \in Nodes, Present(n), next[n] \in Nodes
    PROVE  Present(next[n])
<1> SUFFICES ASSUME NEW S \in SUBSET Nodes, Found \ {Null} \subseteq S,
                    \A m \in S : next[m] \in S \cup {Null}
             PROVE  next[n] \in S
  BY DEF Present
<1>1. n \in S
  BY DEF Present
<1> QED
  BY <1>1, NodesAssumption

LEMMA HeadIsPresent ==
    ASSUME next[event_queue] \in Nodes PROVE Present(next[event_queue])
  BY NodesAssumption DEF Present, Found

\* A step that moves no link and drops no pointer to a node
LEMMA PresentStays ==
    ASSUME NEW n, Present(n), UNCHANGED next, Found \ {Null} \subseteq Found'
    PROVE  Present(n)'
<1> SUFFICES ASSUME NEW S \in SUBSET Nodes, Found' \ {Null} \subseteq S,
                    \A m \in S : next[m] \in S \cup {Null}
             PROVE  n \in S
  BY DEF Present
<1>1. Found \ {Null} \subseteq S
  OBVIOUS
<1> QED
  BY <1>1 DEF Present

\* A step that changes neither the list nor what put_iaxc_lock delivers
LEMMA ListUntouched ==
    ASSUME Untangled, UNCHANGED <<next, content, event>>,
           \A c \in Contexts : pc[c] = "clear" => pc'[c] = "clear"
    PROVE  Untangled'
  BY DEF Untangled, Freed

LEMMA PresentUntouched ==
    ASSUME UNCHANGED <<next, event>>, NEW n, Present(n) PROVE Present(n)'
<1>1. Found' = Found
  BY DEF Found
<1> QED
  BY <1>1, PresentStays

\* Nobody else is at the list when a context changes it without a race
LEMMA Alone ==
    ASSUME TypeOK, NEW c \in Contexts, Race(c), ~raced'
    PROVE  /\ ~raced
           /\ \A d \in Contexts \ {c} :
                 /\ pc[d] \notin {"link", "clear"}
                 /\ pc[d] = "walk" => tail[d] = event_queue
  BY DEF Race, OnList, TypeOK

\* How *tail = malloc(...) changes the list: what was found before is found
\* still, and the new node as well
LEMMA LinkedIsFound ==
    ASSUME TypeOK, Untangled, UpToDate, NEW c \in Contexts, Link(c), ~Fault,
           NEW m, m = malloc
    PROVE  /\ \A n \in Nodes : Present(n) => Present(n)'
           /\ Present(m)'
<1>1. /\ next' = [next EXCEPT ![tail[c]] = malloc, ![malloc] = Null]
      /\ event' = event /\ ~Freed(tail[c]) /\ pc[c] = "link"
  BY DEF Link, At
<1>2. m \in Nodes /\ Freed(m)
  BY DEF Link, malloc
<1>3. /\ next \in [Nodes \cup {event_queue} -> Nodes \cup {Null}]
      /\ tail[c] \in Nodes \cup {event_queue}
      /\ m \in Nodes /\ tail[c] # m /\ m # event_queue
  BY <1>1, <1>2, NodesAssumption DEF TypeOK
<1>4. \A k \in Nodes \cup {event_queue} :
        next'[k] = IF k = tail[c] THEN m ELSE IF k = m THEN Null ELSE next[k]
  BY <1>1, <1>3
<1>5. next[m] = Null /\ next[tail[c]] = Null
  BY <1>1, <1>2 DEF Untangled, UpToDate
<1>6. Found \ {Null} \subseteq Found'
  BY <1>1, <1>3, <1>4, <1>5 DEF Found
<1>7. ASSUME NEW S \in SUBSET Nodes, Found' \ {Null} \subseteq S,
             \A k \in S : next'[k] \in S \cup {Null}
      PROVE  \A k \in S : next[k] \in S \cup {Null}
  BY <1>3, <1>4, <1>5, <1>7
<1>8. ASSUME NEW n \in Nodes, Present(n) PROVE Present(n)'
  <2> SUFFICES ASSUME NEW S \in SUBSET Nodes, Found' \ {Null} \subseteq S,
                      \A k \in S : next'[k] \in S \cup {Null}
               PROVE  n \in S
    BY DEF Present
  <2> QED
    BY <1>6, <1>7, <1>8 DEF Present
<1>9. Present(m)'
  <2> SUFFICES ASSUME NEW S \in SUBSET Nodes, Found' \ {Null} \subseteq S,
                      \A k \in S : next'[k] \in S \cup {Null}
               PROVE  m \in S
    BY DEF Present
  <2>1. m \in S
    <3>1. CASE tail[c] = event_queue
      <4>1. next'[event_queue] = m
        BY <1>4, <3>1
      <4> QED
        BY <1>3, <4>1, NodesAssumption DEF Found
    <3>2. CASE tail[c] # event_queue
      <4>1. Present(tail[c])
        BY <1>1, <3>2 DEF UpToDate
      <4>2. tail[c] \in S
        BY <1>6, <1>7, <4>1 DEF Present
      <4>3. next'[tail[c]] = m
        BY <1>3, <1>4
      <4> QED
        BY <1>3, <4>2, <4>3, NodesAssumption
    <3> QED
      BY <3>1, <3>2
  <2> QED
    BY <2>1
<1> QED
  BY <1>8, <1>9

LEMMA LinkLosesNone ==
    ASSUME LossInv, NEW c \in Contexts, Link(c), ~Fault, ~raced'
    PROVE  Lossless'
<1>1. PICK m \in Nodes : m = malloc
  BY DEF Link, malloc
<1>2. Freed(m)
  BY <1>1 DEF Link, malloc
<1>3. Lossless /\ TypeOK /\ ~raced /\ \A d \in Contexts \ {c} :
         /\ pc[d] \notin {"link", "clear"}
         /\ pc[d] = "walk" => tail[d] = event_queue
  BY Alone DEF LossInv, Link
<1>4. /\ next' = [next EXCEPT ![tail[c]] = m, ![m] = Null]
      /\ content' = [content EXCEPT ![m] = e[c]]
      /\ e' = [e EXCEPT ![c] = NoEvent]
      /\ UNCHANGED <<event, posted, called, status>> /\ ~Freed(tail[c])
      /\ pc[c] = "link" /\ pc'[c] = IF event[c] = Null THEN "in" ELSE "free"
      /\ tail'[c] = event_queue
      /\ \A d \in Contexts \ {c} : pc'[d] = pc[d] /\ tail'[d] = tail[d]
  BY <1>1, <1>3 DEF Link, At, Return, Goto, TypeOK
<1>5. /\ next \in [Nodes \cup {event_queue} -> Nodes \cup {Null}]
      /\ content \in [Nodes -> Events \cup {NoEvent}]
      /\ e \in [Contexts -> Events \cup {NoEvent}]
      /\ tail[c] \in Nodes \cup {event_queue}
      /\ tail[c] # m /\ m # event_queue /\ e[c] # NoEvent
      /\ posted \in Nat /\ NoEvent = 0
  BY <1>2, <1>4, LimitsAssumption, NodesAssumption
  DEF LossInv, TypeOK, Located, Posting, NoEvent
<1>6. \A k \in Nodes \cup {event_queue} :
        next'[k] = IF k = tail[c] THEN m ELSE IF k = m THEN Null ELSE next[k]
  BY <1>4, <1>5
<1>7. \A k \in Nodes : content'[k] = IF k = m THEN e[c] ELSE content[k]
  BY <1>4, <1>5
<1>8. \A n : Freed(n)' <=> Freed(n) /\ n # m
  BY <1>2, <1>5, <1>7 DEF Freed
<1>9. /\ \A k \in Nodes \cup {event_queue} : next[k] # m
      /\ \A d \in Contexts : event[d] # m
      /\ ~Freed(m)' /\ ~Freed(Null)'
  BY <1>2, <1>3, <1>8, NodesAssumption DEF Lossless, Untangled, Freed
<1>10. Untangled'
  <2>1. \A k, n \in Nodes \cup {event_queue} :
          next'[k] = next'[n] /\ next'[k] # Null => k = n
    BY <1>3, <1>6, <1>9 DEF Lossless, Untangled
  <2>2. \A d1, d2 \in Contexts :
          event'[d1] = event'[d2] /\ event'[d1] # Null => d1 = d2
    BY <1>3, <1>4 DEF Lossless, Untangled
  <2>3. \A d \in Contexts, k \in Nodes \cup {event_queue} :
          event'[d] # next'[k] \/ event'[d] = Null
    <3> SUFFICES ASSUME NEW d \in Contexts, NEW k \in Nodes \cup {event_queue},
                        event[d] = next'[k], event[d] # Null
                 PROVE  FALSE
      BY <1>4
    <3>1. next'[k] = next[k]
      BY <1>6, <1>9
    <3>2. pc[d] = "clear"
      BY <1>3, <3>1 DEF Lossless, Untangled
    <3> QED
      BY <1>3, <1>4, <3>2
  <2>4. \A k \in Nodes \cup {event_queue} : ~(Freed(next[k])')
    BY <1>3, <1>6, <1>8, <1>9 DEF Lossless, Untangled
  <2>5. \A d \in Contexts : ~(Freed(event[d])')
    BY <1>3, <1>4, <1>8 DEF Lossless, Untangled
  <2>6. \A n \in Nodes : Freed(n)' => next'[n] = Null
    <3> SUFFICES ASSUME NEW n \in Nodes, Freed(n)' PROVE next'[n] = Null
      OBVIOUS
    <3>1. Freed(n) /\ n # m /\ n # tail[c]
      BY <1>4, <1>8
    <3> QED
      BY <1>3, <1>6, <3>1 DEF Lossless, Untangled
  <2> QED
    BY <2>1, <2>2, <2>3, <2>4, <2>5, <2>6 DEF Untangled
<1>11. /\ \A n \in Nodes : Present(n) => Present(n)'
       /\ Present(m)'
  BY <1>1, <1>3, LinkedIsFound DEF Lossless
<1>12. UpToDate'
  BY <1>3, <1>4 DEF Lossless, UpToDate
<1>13. \A n \in Nodes : Done(n)' => Done(n)
  BY <1>4, NodesAssumption DEF Done, Posting
<1>14. ASSUME NEW i \in 1 .. posted', Waits(i) PROVE Waits(i)'
  <2>1. CASE \E d \in Contexts : pc[d] \in Posting /\ e[d] = i
    <3>1. PICK d \in Contexts : pc[d] \in Posting /\ e[d] = i
      BY <2>1
    <3>2. CASE d = c
      <4>1. content'[m] = i /\ ~Done(m)'
        BY <1>4, <1>7, <1>9, <3>1, <3>2 DEF Done
      <4> QED
        BY <1>11, <4>1 DEF Waits
    <3>3. CASE d # c
      <4>1. pc'[d] \in Posting /\ e'[d] = i
        BY <1>4, <1>5, <3>1, <3>3
      <4> QED
        BY <4>1 DEF Waits
    <3> QED
      BY <3>2, <3>3
  <2>2. CASE \E k \in DOMAIN called : called[k] = i
    BY <1>4, <2>2 DEF Waits
  <2>3. CASE \E n \in Nodes : content[n] = i /\ ~Done(n) /\ Present(n)
    <3>1. PICK n \in Nodes : content[n] = i /\ ~Done(n) /\ Present(n)
      BY <2>3
    <3>2. n # m
      BY <1>2, <1>4, <1>5, <3>1 DEF Freed
    <3> QED
      BY <1>7, <1>11, <1>13, <3>1, <3>2 DEF Waits
  <2> QED
    BY <1>14, <2>1, <2>2, <2>3 DEF Waits
<1>15. \A i \in 1 .. posted' : Waits(i)'
  BY <1>3, <1>4, <1>14 DEF Lossless
<1> QED
  BY <1>3, <1>4, <1>10, <1>12, <1>15 DEF Lossless

LEMMA ClearLosesNone ==
    ASSUME LossInv, NEW c \in Contexts, Clear(c), ~raced'
    PROVE  Lossless'
<1>1. Lossless /\ TypeOK /\ ~raced /\ \A d \in Contexts \ {c} :
         /\ pc[d] \notin {"link", "clear"}
         /\ pc[d] = "walk" => tail[d] = event_queue
  BY Alone DEF LossInv, Clear
<1>2. /\ next' = [next EXCEPT ![event_queue] = Null]
      /\ UNCHANGED <<content, e, event, tail, posted, called, status>>
      /\ pc[c] = "clear" /\ pc'[c] = "unset"
      /\ \A d \in Contexts \ {c} : pc'[d] = pc[d]
  BY <1>1 DEF Clear, At, Goto, TypeOK
<1>3. \A k \in Nodes \cup {event_queue} :
        next'[k] = IF k = event_queue THEN Null ELSE next[k]
  BY <1>1, <1>2 DEF TypeOK
<1>4. event[c] = next[event_queue]
  BY <1>1, <1>2 DEF Lossless, UpToDate
<1>5. \A n : Freed(n)' <=> Freed(n)
  BY <1>2 DEF Freed
<1>6. Untangled'
  <2>1. \A k, n \in Nodes \cup {event_queue} :
          next'[k] = next'[n] /\ next'[k] # Null => k = n
    BY <1>1, <1>3 DEF Lossless, Untangled
  <2>2. \A d1, d2 \in Contexts :
          event'[d1] = event'[d2] /\ event'[d1] # Null => d1 = d2
    BY <1>1, <1>2 DEF Lossless, Untangled
  <2>3. \A d \in Contexts, k \in Nodes \cup {event_queue} :
          event'[d] # next'[k] \/ event'[d] = Null
    BY <1>1, <1>2, <1>3 DEF Lossless, Untangled
  <2>4. \A k \in Nodes \cup {event_queue} : ~(Freed(next[k])')
    BY <1>1, <1>3, <1>5, NodesAssumption DEF Lossless, Untangled, Freed
  <2>5. \A d \in Contexts : ~(Freed(event[d])')
    BY <1>1, <1>2, <1>5 DEF Lossless, Untangled
  <2>6. \A n \in Nodes : Freed(n)' => next'[n] = Null
    BY <1>1, <1>3, <1>5 DEF Lossless, Untangled
  <2> QED
    BY <2>1, <2>2, <2>3, <2>4, <2>5, <2>6 DEF Untangled
<1>7. UpToDate'
  BY <1>1, <1>2 DEF Lossless, UpToDate
<1>8. Found \ {Null} \subseteq Found'
  BY <1>2, <1>4 DEF Found
<1>9. ASSUME NEW n \in Nodes, Present(n) PROVE Present(n)'
  <2> SUFFICES ASSUME NEW S \in SUBSET Nodes, Found' \ {Null} \subseteq S,
                      \A k \in S : next'[k] \in S \cup {Null}
               PROVE  n \in S
    BY DEF Present
  <2>1. \A k \in S : next[k] \in S \cup {Null}
    BY <1>3, NodesAssumption
  <2> QED
    BY <1>8, <1>9, <2>1 DEF Present
<1>10. \A n \in Nodes : Done(n)' => Done(n)
  BY <1>2 DEF Done, Posting
<1>11. \A d \in Contexts : pc[d] \in Posting => pc'[d] \in Posting
  BY <1>2 DEF Posting
<1>12. \A i \in 1 .. posted' : Waits(i)'
  BY <1>1, <1>2, <1>9, <1>10, <1>11 DEF Lossless, Waits
<1> QED
  BY <1>1, <1>2, <1>6, <1>7, <1>12 DEF Lossless

LEMMA FreeLosesNone ==
    ASSUME LossInv, NEW c \in Contexts, Free(c), ~Fault, ~raced'
    PROVE  Lossless'
<1>1. Lossless /\ TypeOK /\ Located /\ ~raced /\ \A d \in Contexts \ {c} :
         /\ pc[d] \notin {"link", "clear"}
         /\ pc[d] = "walk" => tail[d] = event_queue
  BY Alone DEF LossInv, Free
<1>2. PICK n : n = event[c]
  OBVIOUS
<1>3. n \in Nodes
  BY <1>1, <1>2 DEF Free, At, TypeOK, Located
<1>4. /\ event' = [event EXCEPT ![c] = next[n]]
      /\ content' = [content EXCEPT ![n] = NoEvent]
      /\ next' = [next EXCEPT ![n] = Null]
      /\ UNCHANGED <<e, tail, posted, called, status>>
      /\ pc[c] = "free" /\ pc'[c] \in {"out", "deliver"}
      /\ \A d \in Contexts \ {c} : pc'[d] = pc[d]
  BY <1>1, <1>2 DEF Free, At, Goto, Loop, TypeOK
<1>5. \A k \in Nodes \cup {event_queue} :
        next'[k] = IF k = n THEN Null ELSE next[k]
  BY <1>1, <1>3, <1>4 DEF TypeOK
<1>6. \A k \in Nodes : content'[k] = IF k = n THEN NoEvent ELSE content[k]
  BY <1>1, <1>3, <1>4 DEF TypeOK
<1>7. /\ event'[c] = next[n] /\ n # Null /\ n # event_queue
      /\ next[n] \in Nodes \cup {Null}
      /\ posted \in Nat /\ NoEvent = 0
  BY <1>1, <1>3, <1>4, LimitsAssumption, NodesAssumption DEF TypeOK, NoEvent
<1>8. \A k : Freed(k)' <=> Freed(k) \/ k = n
  BY <1>3, <1>6 DEF Freed
<1>9. /\ \A k \in Nodes \cup {event_queue} : next[k] # n
      /\ \A d \in Contexts \ {c} : event'[d] = event[d] /\ event[d] # n
  BY <1>1, <1>2, <1>4, <1>7 DEF Lossless, Untangled
<1>10. Untangled'
  <2>1. \A k, m \in Nodes \cup {event_queue} :
          next'[k] = next'[m] /\ next'[k] # Null => k = m
    BY <1>1, <1>5 DEF Lossless, Untangled
  <2>2. \A d \in Contexts \ {c} : event[d] = next[n] => next[n] = Null
    BY <1>1, <1>3, <1>7 DEF Lossless, Untangled
  <2>3. \A d1, d2 \in Contexts :
          event'[d1] = event'[d2] /\ event'[d1] # Null => d1 = d2
    BY <1>1, <1>7, <1>9, <2>2 DEF Lossless, Untangled
  <2>4. \A d \in Contexts, k \in Nodes \cup {event_queue} :
          event'[d] # next'[k] \/ event'[d] = Null
    <3> SUFFICES ASSUME NEW d \in Contexts, NEW k \in Nodes \cup {event_queue},
                        event'[d] = next'[k], event'[d] # Null
                 PROVE  FALSE
      OBVIOUS
    <3>1. k # n /\ next'[k] = next[k]
      BY <1>5
    <3>2. CASE d = c
      BY <1>1, <1>3, <1>7, <3>1, <3>2 DEF Lossless, Untangled
    <3>3. CASE d # c
      BY <1>1, <1>9, <3>1, <3>3 DEF Lossless, Untangled
    <3> QED
      BY <3>2, <3>3
  <2>5. \A k \in Nodes \cup {event_queue} : ~(Freed(next[k])')
    BY <1>1, <1>5, <1>7, <1>8, <1>9, NodesAssumption
    DEF Lossless, Untangled, Freed
  <2>6. \A d \in Contexts : ~(Freed(event[d])')
    <3> TAKE d \in Contexts
    <3>1. CASE d = c
      BY <1>1, <1>3, <1>7, <1>8, <1>9, <3>1 DEF Lossless, Untangled
    <3>2. CASE d # c
      BY <1>1, <1>8, <1>9, <3>2 DEF Lossless, Untangled
    <3> QED
      BY <3>1, <3>2
  <2>7. \A k \in Nodes : Freed(k)' => next'[k] = Null
    BY <1>1, <1>5, <1>8 DEF Lossless, Untangled
  <2> QED
    BY <2>1, <2>3, <2>4, <2>5, <2>6, <2>7 DEF Untangled
<1>11. UpToDate'
  BY <1>1, <1>4 DEF Lossless, UpToDate
<1>12. ASSUME NEW m \in Nodes, m # n, Present(m) PROVE Present(m)'
  <2> SUFFICES ASSUME NEW S \in SUBSET Nodes, Found' \ {Null} \subseteq S,
                      \A k \in S : next'[k] \in S \cup {Null}
               PROVE  m \in S
    BY DEF Present
  <2>1. Found \ {Null} \subseteq S \cup {n}
    <3>1. next[event_queue] \in Found'
      BY <1>5, <1>7 DEF Found
    <3>2. \A d \in Contexts : event[d] = n \/ event[d] \in Found'
      BY <1>2, <1>9 DEF Found
    <3> QED
      BY <3>1, <3>2 DEF Found
  <2>2. next[n] \in S \cup {Null}
    BY <1>7 DEF Found
  <2>3. \A k \in S \cup {n} : next[k] \in (S \cup {n}) \cup {Null}
    BY <1>5, <2>2
  <2>4. S \cup {n} \in SUBSET Nodes
    BY <1>3
  <2>5. m \in S \cup {n}
    <3> DEFINE T == S \cup {n}
    <3>1. T \in SUBSET Nodes /\ Found \ {Null} \subseteq T
          /\ \A k \in T : next[k] \in T \cup {Null}
      BY <2>1, <2>3, <2>4
    <3>2. m \in T
      <4> HIDE DEF T
      <4> QED
        BY <1>12, <3>1 DEF Present
    <3> QED
      BY <3>2
  <2> QED
    BY <1>12, <2>5
<1>13. Done(n)
  BY <1>2, <1>4 DEF Done
<1>14. \A m \in Nodes : m # n /\ Done(m)' => Done(m)
  BY <1>4, <1>9 DEF Done, Posting
<1>15. \A d \in Contexts : pc[d] \in Posting => pc'[d] \in Posting
  BY <1>4 DEF Posting
<1>16. ASSUME NEW i \in 1 .. posted', Waits(i) PROVE Waits(i)'
  <2>1. CASE \E m \in Nodes : content[m] = i /\ ~Done(m) /\ Present(m)
    <3>1. PICK m \in Nodes : content[m] = i /\ ~Done(m) /\ Present(m)
      BY <2>1
    <3>2. m # n
      BY <1>13, <3>1
    <3> QED
      BY <1>6, <1>12, <1>14, <3>1, <3>2 DEF Waits
  <2>2. CASE ~ \E m \in Nodes : content[m] = i /\ ~Done(m) /\ Present(m)
    BY <1>4, <1>15, <1>16, <2>2 DEF Waits
  <2> QED
    BY <2>1, <2>2
<1>17. \A i \in 1 .. posted' : Waits(i)'
  BY <1>1, <1>4, <1>16 DEF Lossless
<1> QED
  BY <1>1, <1>4, <1>10, <1>11, <1>17 DEF Lossless

LEMMA TakeLosesNone ==
    ASSUME LossInv, NEW c \in Contexts, Take(c), ~raced'
    PROVE  Lossless'
<1>1. Lossless /\ TypeOK /\ Located
  BY DEF LossInv, Take
<1>2. /\ event' = [event EXCEPT ![c] = next[event_queue]]
      /\ UNCHANGED <<next, content, e, tail, posted, called, status>>
      /\ pc[c] = "in" /\ pc' = [pc EXCEPT ![c] = "clear"]
  BY DEF Take, At, Goto
<1>3. /\ pc'[c] = "clear" /\ event'[c] = next[event_queue] /\ event[c] = Null
      /\ \A d \in Contexts \ {c} : event'[d] = event[d] /\ pc'[d] = pc[d]
  BY <1>1, <1>2 DEF TypeOK, Located
<1>4. \A n : Freed(n)' <=> Freed(n)
  BY <1>2 DEF Freed
<1>5. Untangled'
  <2>1. \A d \in Contexts : pc[d] = "clear" => pc'[d] = "clear"
    BY <1>2, <1>3
  <2>2. \A d \in Contexts \ {c}, m \in Nodes \cup {event_queue} :
          event'[d] = next'[m] /\ event'[d] # Null =>
              m = event_queue /\ pc'[d] = "clear"
    BY <1>1, <1>2, <1>3 DEF Lossless, Untangled
  <2>3. \A m \in Nodes \cup {event_queue} :
          event'[c] = next'[m] /\ event'[c] # Null => m = event_queue
    BY <1>1, <1>2, <1>3 DEF Lossless, Untangled
  <2>4. \A d1, d2 \in Contexts \ {c} :
          event'[d1] = event'[d2] /\ event'[d1] # Null =>
              d1 = d2 \/ (pc'[d1] = "clear" /\ pc'[d2] = "clear")
    BY <1>1, <1>3 DEF Lossless, Untangled
  <2>5. \A d1, d2 \in Contexts :
          event'[d1] = event'[d2] /\ event'[d1] # Null =>
              d1 = d2 \/ (pc'[d1] = "clear" /\ pc'[d2] = "clear")
    BY <1>2, <1>3, <2>2, <2>4
  <2>6. \A d \in Contexts : ~(Freed(event[d])')
    BY <1>1, <1>3, <1>4 DEF Lossless, Untangled
  <2> QED
    BY <1>1, <1>2, <1>3, <1>4, <2>2, <2>3, <2>5, <2>6 DEF Lossless, Untangled
<1>6. Found \ {Null} \subseteq Found'
  BY <1>2, <1>3 DEF Found
<1>7. \A n : Present(n) => Present(n)'
  BY <1>2, <1>6, PresentStays
<1>8. UpToDate'
  BY <1>1, <1>2, <1>3, <1>7 DEF Lossless, UpToDate
<1>9. \A n \in Nodes : Done(n)' => Done(n)
  BY <1>3 DEF Done, Posting
<1>10. \A d \in Contexts : pc[d] \in Posting => pc'[d] \in Posting
  BY <1>2, <1>3 DEF Posting
<1>11. \A i \in 1 .. posted' : Waits(i)'
  BY <1>1, <1>2, <1>7, <1>9, <1>10 DEF Lossless, Waits
<1> QED
  BY <1>1, <1>2, <1>5, <1>8, <1>11 DEF Lossless

\* A step that leaves the list alone, and no context with old news of it, keeps
\* what is waiting if it keeps the events in the hands of the contexts
LEMMA ListKept ==
    ASSUME LossInv, Lossless, UNCHANGED <<next, content, event, raced>>,
           status' # "fault",
           \A d \in Contexts : pc[d] = "clear" <=> pc'[d] = "clear",
           \A d \in Contexts :
               \/ tail'[d] = event_queue
               \/ /\ pc'[d] \in {"walk", "link"}
                  /\ tail'[d] \in Nodes /\ Present(tail'[d]),
           \A d \in Contexts : pc'[d] = "link" => next[tail'[d]] = Null,
           \A i \in 1 .. posted' : Waits(i)'
    PROVE  Lossless'
<1>1. Untangled'
  BY ListUntouched DEF Lossless
<1>2. ASSUME NEW d \in Contexts,
             pc'[d] \in {"walk", "link"}, tail'[d] # event_queue
      PROVE  Present(tail[d])'
  <2>1. PICK n \in Nodes : n = tail'[d]
    BY <1>2
  <2>2. Present(n)
    BY <1>2, <2>1
  <2>3. Present(n)'
    BY <2>2, PresentUntouched
  <2> QED
    BY <2>1, <2>3 DEF Present
<1>3. UpToDate'
  <2>1. \A d \in Contexts : pc'[d] = "clear" => event'[d] = next'[event_queue]
    BY DEF Lossless, UpToDate
  <2>2. \A d \in Contexts : pc'[d] = "link" => next'[tail'[d]] = Null
    OBVIOUS
  <2> QED
    BY <1>2, <2>1, <2>2 DEF UpToDate
<1> QED
  BY <1>1, <1>3 DEF Lossless

\* An event waits on if it is kept by the contexts, the callbacks or its node
LEMMA EventsKept ==
    ASSUME Lossless, UNCHANGED <<next, content, event, posted>>,
           \A n \in Nodes : Done(n)' => Done(n),
           \A d \in Contexts : pc[d] \in Posting =>
               \/ pc'[d] \in Posting /\ e'[d] = e[d]
               \/ \E k \in DOMAIN called' : called'[k] = e[d],
           \A k \in DOMAIN called :
               k \in DOMAIN called' /\ called'[k] = called[k]
    PROVE  \A i \in 1 .. posted' : Waits(i)'
<1> SUFFICES ASSUME NEW i \in 1 .. posted', Waits(i) PROVE Waits(i)'
  BY DEF Lossless
<1>1. CASE \E d \in Contexts : pc[d] \in Posting /\ e[d] = i
  BY <1>1 DEF Waits
<1>2. CASE \E k \in DOMAIN called : called[k] = i
  BY <1>2 DEF Waits
<1>3. CASE \E n \in Nodes : content[n] = i /\ ~Done(n) /\ Present(n)
  BY <1>3, PresentUntouched DEF Waits
<1> QED
  BY <1>1, <1>2, <1>3 DEF Waits

LEMMA PostLosesNone ==
    ASSUME LossInv, NEW c \in Contexts, Post(c), ~raced'
    PROVE  Lossless'
<1>1. Lossless /\ TypeOK /\ Located
  BY DEF LossInv, Post
<1>2. /\ e' = [e EXCEPT ![c] = posted + 1] /\ posted' = posted + 1
      /\ UNCHANGED <<next, content, event, tail, called, status, raced>>
      /\ pc[c] = "in" /\ pc'[c] \in {"walk", "call"} /\ event[c] = Null
      /\ \A d \in Contexts \ {c} : pc'[d] = pc[d] /\ e'[d] = e[d]
  BY <1>1 DEF Post, At, TestLocked, Goto, TypeOK, Located
<1>3. e'[c] = posted + 1 /\ posted \in Nat
  BY <1>1, <1>2, LimitsAssumption DEF TypeOK
<1>4. \A n \in Nodes : Done(n)' <=> Done(n)
  BY <1>2, NodesAssumption DEF Done, Posting
<1>5. ASSUME NEW i \in 1 .. posted' PROVE Waits(i)'
  <2>1. CASE i = posted + 1
    BY <1>2, <1>3, <2>1 DEF Waits, Posting
  <2>2. CASE i \in 1 .. posted
    <3>1. Waits(i)
      BY <1>1, <2>2 DEF Lossless
    <3>2. \A n \in Nodes : Present(n) => Present(n)'
      BY <1>2, PresentUntouched
    <3>3. \A d \in Contexts : pc[d] \in Posting => pc'[d] \in Posting /\ e'[d] = e[d]
      BY <1>2 DEF Posting
    <3> QED
      BY <1>2, <1>4, <3>1, <3>2, <3>3 DEF Waits
  <2> QED
    BY <1>2, <1>3, <2>1, <2>2
<1>6. \A d \in Contexts :
        \/ tail'[d] = event_queue
        \/ pc'[d] \in {"walk", "link"} /\ tail'[d] \in Nodes /\ Present(tail'[d])
  BY <1>1, <1>2 DEF Lossless, UpToDate, TypeOK
<1>7. \A d \in Contexts : pc'[d] = "link" => next[tail'[d]] = Null
  BY <1>1, <1>2 DEF Lossless, UpToDate
<1>8. \A d \in Contexts : pc[d] = "clear" <=> pc'[d] = "clear"
  BY <1>2
<1> QED
  BY <1>1, <1>2, <1>5, <1>6, <1>7, <1>8, ListKept DEF Lossless

LEMMA WalkLosesNone ==
    ASSUME LossInv, NEW c \in Contexts, Walk(c), ~raced'
    PROVE  Lossless'
<1>1. /\ pc[c] = "walk" /\ TypeOK
      /\ tail[c] = event_queue \/ tail[c] \in Nodes
  BY DEF Walk, At, LossInv, TypeOK
<1>2. Lossless
  BY DEF LossInv, Walk, Fault
<1>3. ~Freed(tail[c])
  BY <1>1, <1>2, PresentIsAllocated, NodesAssumption
  DEF Lossless, UpToDate, Freed
<1>4. /\ UNCHANGED <<next, content, event, e, posted, called, status, raced>>
      /\ \A d \in Contexts \ {c} : pc'[d] = pc[d] /\ tail'[d] = tail[d]
      /\ pc'[c] \in {"walk", "link"}
      /\ pc'[c] = "link" => next[tail[c]] = Null /\ tail'[c] = tail[c]
      /\ pc'[c] = "walk" => tail'[c] = next[tail[c]] /\ next[tail[c]] # Null
  BY <1>1, <1>3 DEF Walk, Goto, TypeOK
<1>5. \A i \in 1 .. posted' : Waits(i)'
  <2>1. \A n \in Nodes : Done(n)' => Done(n)
    BY <1>1, <1>4 DEF Done, Posting
  <2>2. \A d \in Contexts : pc[d] \in Posting => pc'[d] \in Posting
    BY <1>4 DEF Posting
  <2> QED
    BY <1>2, <1>4, <2>1, <2>2, EventsKept
<1>6. ASSUME pc'[c] = "walk" PROVE tail'[c] \in Nodes /\ Present(tail'[c])
  <2>1. PICK n \in Nodes : n = next[tail[c]]
    BY <1>1, <1>4, <1>6 DEF TypeOK
  <2>2. Present(n)
    <3>1. CASE tail[c] = event_queue
      BY <2>1, <3>1, HeadIsPresent
    <3>2. CASE tail[c] # event_queue
      <4>1. tail[c] \in Nodes /\ Present(tail[c])
        BY <1>1, <1>2, <3>2 DEF Lossless, UpToDate
      <4> QED
        BY <2>1, <4>1, PresentNext
    <3> QED
      BY <3>1, <3>2
  <2> QED
    BY <1>4, <1>6, <2>1, <2>2
<1>7. \A d \in Contexts :
        \/ tail'[d] = event_queue
        \/ pc'[d] \in {"walk", "link"} /\ tail'[d] \in Nodes /\ Present(tail'[d])
  <2> TAKE d \in Contexts
  <2>1. CASE d = c
    <3>1. CASE pc'[c] = "walk"
      BY <1>6, <2>1, <3>1
    <3>2. CASE pc'[c] = "link"
      BY <1>1, <1>2, <1>4, <2>1, <3>2 DEF Lossless, UpToDate
    <3> QED
      BY <1>4, <3>1, <3>2
  <2>2. CASE d # c
    BY <1>1, <1>2, <1>4, <2>2 DEF Lossless, UpToDate, TypeOK
  <2> QED
    BY <2>1, <2>2
<1>8. \A d \in Contexts : pc'[d] = "link" => next[tail'[d]] = Null
  BY <1>2, <1>4 DEF Lossless, UpToDate
<1>9. \A d \in Contexts : pc[d] = "clear" <=> pc'[d] = "clear"
  BY <1>1, <1>4
<1> QED
  BY <1>2, <1>4, <1>5, <1>7, <1>8, <1>9, ListKept DEF Lossless

\* The steps that use neither the list nor tail
LEMMA ElsewhereLosesNone ==
    ASSUME LossInv, ~raced', status' # "fault",
           UNCHANGED <<next, content, event, tail, raced>>,
           \A d \in Contexts :
               \/ pc'[d] = pc[d]
               \/ /\ pc[d] \notin {"walk", "link", "clear"}
                  /\ pc'[d] \notin {"link", "clear"},
           \A i \in 1 .. posted' : Waits(i)'
    PROVE  Lossless'
<1>1. Lossless /\ TypeOK
  BY DEF LossInv
<1>2. \A d \in Contexts :
        \/ tail'[d] = event_queue
        \/ pc'[d] \in {"walk", "link"} /\ tail'[d] \in Nodes /\ Present(tail'[d])
  BY <1>1 DEF Lossless, UpToDate, TypeOK
<1>3. \A d \in Contexts : pc'[d] = "link" => next[tail'[d]] = Null
  BY <1>1 DEF Lossless, UpToDate
<1>4. \A d \in Contexts : pc[d] = "clear" <=> pc'[d] = "clear"
  OBVIOUS
<1> QED
  BY <1>1, <1>2, <1>3, <1>4, ListKept

LEMMA CallbackLosesNone ==
    ASSUME LossInv, NEW c \in Contexts, Callback(c), ~raced'
    PROVE  Lossless'
<1>1. Lossless /\ TypeOK
  BY DEF LossInv, Callback
<1>2. /\ called' = Append(called, e[c]) /\ e' = [e EXCEPT ![c] = NoEvent]
      /\ UNCHANGED <<next, content, event, tail, posted, status, raced>>
      /\ pc[c] = "call" /\ pc'[c] = IF event[c] = Null THEN "in" ELSE "free"
      /\ \A d \in Contexts \ {c} : pc'[d] = pc[d]
  BY <1>1 DEF Callback, At, Return, Goto, TypeOK
<1>3. called \in Seq(Events) /\ e[c] \in Events \cup {NoEvent}
      /\ e \in [Contexts -> Events \cup {NoEvent}]
  BY <1>1 DEF TypeOK
<1>4. /\ \A k \in DOMAIN called : k \in DOMAIN called' /\ called'[k] = called[k]
      /\ \E k \in DOMAIN called' : called'[k] = e[c]
  <2>1. called \in Seq(Events \cup {NoEvent})
    BY <1>3
  <2>2. /\ DOMAIN called = 1 .. Len(called)
        /\ DOMAIN called' = 1 .. Len(called) + 1
        /\ called'[Len(called) + 1] = e[c] /\ Len(called) \in Nat
        /\ \A k \in 1 .. Len(called) : called'[k] = called[k]
    BY <1>2, <1>3, <2>1
  <2>3. Len(called) + 1 \in DOMAIN called'
    BY <2>2
  <2> QED
    BY <2>2, <2>3
<1>5. \A n \in Nodes : Done(n)' => Done(n)
  BY <1>2, NodesAssumption DEF Done, Posting
<1>6. \A d \in Contexts : pc[d] \in Posting =>
        \/ pc'[d] \in Posting /\ e'[d] = e[d]
        \/ \E k \in DOMAIN called' : called'[k] = e[d]
  BY <1>2, <1>3, <1>4
<1>7. \A i \in 1 .. posted' : Waits(i)'
  BY <1>1, <1>2, <1>4, <1>5, <1>6, EventsKept
<1> QED
  BY <1>1, <1>2, <1>7, ElsewhereLosesNone DEF Lossless

LEMMA DeliverLosesNone ==
    ASSUME LossInv, NEW c \in Contexts, Deliver(c), ~raced'
    PROVE  Lossless'
<1>1. Lossless /\ TypeOK /\ Located
  BY DEF LossInv, Deliver, Fault
<1>2. ~Freed(event[c])
  BY <1>1 DEF Lossless, Untangled
<1>3. PICK n \in Nodes : n = event[c]
  BY <1>1 DEF Deliver, At, TypeOK, Located
<1>4. /\ e' = [e EXCEPT ![c] = content[n]]
      /\ UNCHANGED <<next, content, event, tail, posted, called, status, raced>>
      /\ pc[c] = "deliver" /\ pc'[c] \in {"walk", "call"}
      /\ \A d \in Contexts \ {c} : pc'[d] = pc[d] /\ e'[d] = e[d]
  BY <1>1, <1>2, <1>3 DEF Deliver, At, TestLocked, Goto, TypeOK
<1>5. e'[c] = content[n]
  BY <1>1, <1>4 DEF TypeOK
<1>6. \A m \in Nodes : Done(m)' => Done(m) \/ m = n
  BY <1>3, <1>4 DEF Done, Posting
<1>7. ASSUME NEW i \in 1 .. posted', Waits(i) PROVE Waits(i)'
  <2>1. CASE i = content[n]
    BY <1>4, <1>5, <2>1 DEF Waits, Posting
  <2>2. CASE i # content[n]
    <3>1. \A m : Present(m) => Present(m)'
      BY <1>4, PresentUntouched
    <3>2. \A d \in Contexts : pc[d] \in Posting => pc'[d] \in Posting /\ e'[d] = e[d]
      BY <1>4 DEF Posting
    <3> QED
      BY <1>4, <1>6, <1>7, <2>2, <3>1, <3>2 DEF Waits
  <2> QED
    BY <2>1, <2>2
<1>8. \A i \in 1 .. posted' : Waits(i)'
  BY <1>1, <1>4, <1>7 DEF Lossless
<1> QED
  BY <1>1, <1>4, <1>8, ElsewhereLosesNone DEF Lossless

LEMMA NextLosesNone ==
    ASSUME LossInv, [Next]_vars, ~raced' PROVE Lossless'
<1>1. ASSUME NEW c \in Contexts, Link(c) PROVE Lossless'
  <2>1. CASE Fault
    <3>1. Lossless /\ TypeOK
      BY <2>1 DEF LossInv, Fault
    <3>2. pc[c] = "link" /\ tail[c] \in Nodes \cup {event_queue}
      BY <1>1, <3>1 DEF Link, At, TypeOK
    <3>3. ~Freed(tail[c])
      BY <3>1, <3>2, PresentIsAllocated, NodesAssumption
      DEF Lossless, UpToDate, Freed
    <3>4. status' = "running"
      BY <1>1, <3>3 DEF Link, At, Runs
    <3> QED
      BY <2>1, <3>4 DEF Fault
  <2> QED
    BY <1>1, <2>1, LinkLosesNone
<1>2. ASSUME NEW c \in Contexts, Free(c) PROVE Lossless'
  <2>1. CASE Fault
    <3>1. Lossless
      BY <2>1 DEF LossInv, Fault
    <3>2. ~Freed(event[c])
      BY <3>1 DEF Lossless, Untangled
    <3>3. status' = "running"
      BY <1>2, <3>2 DEF Free, At, Runs
    <3> QED
      BY <2>1, <3>3 DEF Fault
  <2> QED
    BY <1>2, <2>1, FreeLosesNone
<1>3. CASE \/ \E c \in Contexts : Lock(c) \/ SetUnlocked(c) \/ Unlock(c)
           \/ StartProcessing \/ Destroy \/ Exit \/ UNCHANGED vars
           \/ \E t \in Interruptible : Signal(t)
  <2>1. /\ UNCHANGED <<next, content, event, e, tail, posted, called, raced>>
        /\ status' \in {status, "exited"}
    BY <1>3 DEF Lock, SetUnlocked, Unlock, StartProcessing, Destroy, Exit,
       Signal, vars
  <2>2. Lossless /\ TypeOK /\ Located
    BY <2>1 DEF LossInv
  <2>3. \A d \in Contexts :
          \/ pc'[d] = pc[d]
          \/ /\ pc[d] \in {"out", "unset", "unlock"}
             /\ pc'[d] \in {"out", "in", "unlock", "deliver"}
    BY <1>3, <2>2 DEF Lock, SetUnlocked, Unlock, StartProcessing, Destroy, Exit,
       Signal, vars, At, Goto, Loop, TypeOK
  <2>4. \A d \in Contexts :
          \/ pc'[d] = pc[d]
          \/ /\ pc[d] \notin {"walk", "link", "clear"}
             /\ pc'[d] \notin {"link", "clear"}
    BY <2>3
  <2>5. \A n \in Nodes : Done(n)' => Done(n)
    BY <2>1, <2>3 DEF Done, Posting
  <2>6. \A d \in Contexts : pc[d] \in Posting => pc'[d] \in Posting
    BY <2>3 DEF Posting
  <2>7. \A i \in 1 .. posted' : Waits(i)'
    BY <2>1, <2>2, <2>5, <2>6, EventsKept
  <2> QED
    BY <2>1, <2>2, <2>4, <2>7, ElsewhereLosesNone DEF Lossless
<1> QED
  BY <1>1, <1>2, <1>3, PostLosesNone, WalkLosesNone, CallbackLosesNone,
     TakeLosesNone, ClearLosesNone, DeliverLosesNone
  DEF Next, Proceed

\* Unless a context changed the list while another was at it, no event is lost
\* and no freed node used: put_iaxc_lock and iaxc_post_event are safe wherever
\* the lock does keep them apart, whatever happened to the mutex.
THEOREM EventsLostOnlyByRace == Spec => []LostOnlyByRace
<1>1. Init => LossInv
  <2> SUFFICES ASSUME Init PROVE LossInv
    OBVIOUS
  <2>1. TypeOK /\ Located
    BY InitIsTyped
  <2>2. Untangled
    BY NodesAssumption DEF Init, Untangled, Freed
  <2>3. UpToDate
    BY DEF Init, UpToDate
  <2>4. \A i \in 1 .. posted : Waits(i)
    BY DEF Init
  <2> QED
    BY <2>1, <2>2, <2>3, <2>4 DEF LossInv, Lossless, Init
<1>2. LossInv /\ [Next]_vars => LossInv'
  BY NextIsTyped, NextLosesNone DEF LossInv
<1>3. LossInv => LostOnlyByRace
  BY DEF LossInv, Lossless, LostOnlyByRace, Waits, Kept
<1> QED
  BY <1>1, <1>2, <1>3, PTL DEF Spec

=============================================================================
