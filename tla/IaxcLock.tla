------------------------------ MODULE IaxcLock ------------------------------
(***************************************************************************)
(* iaxc_lock of iaxclient_lib.c, and the queue of the events posted while  *)
(* it is held.  The main thread of fgcom and the processing thread of      *)
(* iaxclient take the lock, post events, and when they let it go hand the  *)
(* queued events to the callback of fgcom.  A signal runs quit of          *)
(* fgcom.cpp on top of the thread it interrupts: the handler is a context  *)
(* of its own here, but one that owns the mutex as that thread does.       *)
(*                                                                         *)
(* iaxc_post_event reads iaxc_locked and walks the list without regard to  *)
(* the mutex, so every access to the flag, to the head of the list and to  *)
(* a node is a step.  Making a node, linking it and filling it in is one.  *)
(*                                                                         *)
(* Undefined behaviour: an access to a freed node is the end of the        *)
(* program, unless malloc has handed the node out again, when it is an     *)
(* access to the new one.  A destroyed mutex locks without locking, which  *)
(* is what glibc does (EINVAL, which nobody looks at).                     *)
(*                                                                         *)
(* An operator marked "Mutant" is a plausible mistake in the operator that *)
(* follows, used by no specification.                                      *)
(***************************************************************************)
EXTENDS Integers, Sequences, FiniteSets

CONSTANTS
    Main, Processing,  \* the threads
    Handler,           \* quit, running in a signal handler
    Interruptible,     \* the threads on top of which it may run
    NoOne,             \* no thread
    Nodes,             \* addresses malloc returns for the queue
    Null,              \* NULL
    event_queue,       \* the address of the head of the list
    MaxEvents,         \* bound: events posted
    QuitEvents,        \* bound: the same, if the program is told to quit
    MaxSections        \* bound: how often the main thread takes the lock

Threads == {Main, Processing}
Contexts == Threads \cup {Handler}
Events == 1 .. MaxEvents
NoEvent == 0

ASSUME ContextsAssumption ==
    /\ Main # Processing /\ Handler \notin Threads
    /\ NoOne \notin Contexts /\ Interruptible \subseteq Threads
ASSUME NodesAssumption ==
    Null \notin Nodes /\ event_queue \notin Nodes \cup {Null}
ASSUME LimitsAssumption ==
    MaxEvents \in Nat /\ QuitEvents \in 0 .. MaxEvents /\ MaxSections \in Nat

VARIABLES
    status,        \* of the program: "running", "exited" or "fault"
    started,       \* iaxc_start_processing_thread has been called
    interrupted,   \* the thread on top of which quit runs
    \* the mutex
    owner, destroyed,
    \* what it does not quite protect
    iaxc_locked,
    next,          \* [event_queue |-> event_queue], and the next of each node
    content,       \* the event in each node, NoEvent if the node is free
    \* the locals of each context, reset when they are not used any more
    pc,
    e,             \* the event being posted
    event,         \* the node being delivered by put_iaxc_lock
    tail,          \* where iaxc_post_event will link its node
    left,          \* how often it will still take the lock
    \* history
    posted,        \* the events posted so far are 1 .. posted
    called,        \* the events called back, in order
    raced          \* has one changed the list while another was about to?

program == <<status, started, interrupted>>
mutex == <<owner, destroyed>>
list == <<next, content>>
locals == <<e, event, tail>>
history == <<posted, called, raced>>
vars == <<program, mutex, iaxc_locked, list, pc, locals, left, history>>

Outside == {"out", "deliver", "free"}
Inside == {"in", "clear", "unset", "unlock"}
Posting == {"walk", "link", "call"}

TypeOK ==
    /\ status \in {"running", "exited", "fault"}
    /\ started \in BOOLEAN
    /\ interrupted \in Threads \cup {NoOne}
    /\ owner \in Threads \cup {NoOne} /\ destroyed \in BOOLEAN
    /\ iaxc_locked \in BOOLEAN
    /\ next \in [Nodes \cup {event_queue} -> Nodes \cup {Null}]
    /\ content \in [Nodes -> Events \cup {NoEvent}]
    /\ pc \in [Contexts -> Outside \cup Inside \cup Posting]
    /\ e \in [Contexts -> Events \cup {NoEvent}]
    /\ event \in [Contexts -> Nodes \cup {Null}]
    /\ tail \in [Contexts -> Nodes \cup {event_queue}]
    /\ left \in [Contexts -> 0 .. MaxSections + 4]
    /\ posted \in 0 .. MaxEvents
    /\ called \in Seq(Events)
    /\ raced \in BOOLEAN

\* iaxc_initialize: one thread, an unlocked mutex and an empty queue
Init ==
    /\ status = "running" /\ started = FALSE /\ interrupted = NoOne
    /\ owner = NoOne /\ destroyed = FALSE /\ iaxc_locked = FALSE
    /\ next = [n \in Nodes \cup {event_queue} |-> Null]
    /\ content = [n \in Nodes |-> NoEvent]
    /\ pc = [c \in Contexts |-> "out"]
    /\ e = [c \in Contexts |-> NoEvent]
    /\ event = [c \in Contexts |-> Null]
    /\ tail = [c \in Contexts |-> event_queue]
    /\ left = [c \in Contexts |-> IF c = Main THEN MaxSections ELSE 0]
    /\ posted = 0 /\ called = <<>> /\ raced = FALSE

-----------------------------------------------------------------------------
(* Who runs *)

\* Mutant: a handler is a thread of its own
OwnThread(c) == c

\* The thread a context runs on, which is what a mutex knows of it
Thread(c) == IF c = Handler THEN interrupted ELSE c

\* The interrupted thread waits for its handler to return, which quit never
\* does
Runs(c) ==
    /\ status = "running"
    /\ c # interrupted
    /\ CASE c = Main -> TRUE
         [] c = Processing -> started
         [] c = Handler -> interrupted # NoOne

At(c, place) == Runs(c) /\ pc[c] = place
Goto(c, place) == pc' = [pc EXCEPT ![c] = place]

\* Between get_iaxc_lock and put_iaxc_lock; a context that posts is if it
\* does not deliver
Holds(c) == pc[c] \in Inside \/ (pc[c] \in Posting /\ event[c] = Null)

Freed(n) == n \in Nodes /\ content[n] = NoEvent

\* The next free node: the same again if one was freed in between
malloc == CHOOSE n \in Nodes : Freed(n)

\* An access to a freed node
Fault ==
    /\ status' = "fault"
    /\ UNCHANGED <<started, interrupted, mutex, iaxc_locked, list, pc, locals,
                   left, history>>

\* A change of the list when others are on their way along it, or have read it
\* and are about to write
OnList(d) ==
    pc[d] \in {"link", "clear"} \/ (pc[d] = "walk" /\ tail[d] # event_queue)
Race(c) == raced' = (raced \/ \E d \in Contexts \ {c} : OnList(d))

-----------------------------------------------------------------------------
(* get_iaxc_lock *)

\* Mutant: a recursive mutex, as a critical section of Windows is
LockAgain(c) ==
    /\ At(c, "out")
    /\ c # Processing => left[c] > 0
    /\ c = Handler => left[c] # 2
    /\ destroyed \/ owner \in {NoOne, Thread(c)}
    /\ left' = IF c = Processing THEN left ELSE [left EXCEPT ![c] = @ - 1]
    /\ owner' = IF destroyed THEN owner ELSE Thread(c)
    /\ iaxc_locked' = TRUE
    /\ Goto(c, "in")
    /\ UNCHANGED <<program, destroyed, list, locals, history>>

\* Mutant: iaxc_locked is not set
LockOnly(c) ==
    /\ At(c, "out")
    /\ c # Processing => left[c] > 0
    /\ c = Handler => left[c] # 2
    /\ destroyed \/ owner = NoOne
    /\ left' = IF c = Processing THEN left ELSE [left EXCEPT ![c] = @ - 1]
    /\ owner' = IF destroyed THEN owner ELSE Thread(c)
    /\ Goto(c, "in")
    /\ UNCHANGED <<program, destroyed, iaxc_locked, list, locals, history>>

\* MUTEXLOCK, and iaxc_locked = 1: one step, for whoever looks at iaxc_locked in
\* between might as well have looked before.  The mutex is not recursive: a
\* thread that has it waits for itself.  The processing thread takes the lock
\* in each round of its loop.
Lock(c) ==
    /\ At(c, "out")
    /\ c # Processing => left[c] > 0
    /\ c = Handler => left[c] # 2
    /\ destroyed \/ owner = NoOne
    /\ left' = IF c = Processing THEN left ELSE [left EXCEPT ![c] = @ - 1]
    /\ owner' = IF destroyed THEN owner ELSE Thread(c)
    /\ iaxc_locked' = TRUE
    /\ Goto(c, "in")
    /\ UNCHANGED <<program, destroyed, list, locals, history>>

-----------------------------------------------------------------------------
(* iaxc_post_event *)

\* "If the library is locked then just queue the event": by whomever
TestLocked(c) == Goto(c, IF iaxc_locked THEN "walk" ELSE "call")

\* Something happens that fgcom is to be told of; of quit, that it ends calls
Post(c) ==
    /\ At(c, "in")
    /\ posted < IF interrupted = NoOne THEN MaxEvents ELSE QuitEvents
    /\ c = Handler => left[c] = 3
    /\ posted' = posted + 1
    /\ e' = [e EXCEPT ![c] = posted']
    /\ TestLocked(c)
    /\ UNCHANGED <<program, mutex, iaxc_locked, list, event, tail, left, called,
                   raced>>

\* while (*tail) tail = &((*tail)->next)
Walk(c) ==
    /\ At(c, "walk")
    /\ IF Freed(tail[c]) THEN Fault
       ELSE /\ IF next[tail[c]] = Null
               THEN Goto(c, "link") /\ UNCHANGED tail
               ELSE /\ tail' = [tail EXCEPT ![c] = next[@]]
                    /\ UNCHANGED pc
            /\ UNCHANGED <<program, mutex, iaxc_locked, list, e, event, left,
                           history>>

\* Where iaxc_post_event returns to
Return(c) == Goto(c, IF event[c] = Null THEN "in" ELSE "free")

\* *tail = malloc(...), and a copy of the event into it
Link(c) ==
    /\ At(c, "link")
    /\ \E n \in Nodes : Freed(n)
    /\ IF Freed(tail[c]) THEN Fault
       ELSE /\ next' = [next EXCEPT ![tail[c]] = malloc, ![malloc] = Null]
            /\ content' = [content EXCEPT ![malloc] = e[c]]
            /\ Return(c)
            /\ e' = [e EXCEPT ![c] = NoEvent]
            /\ tail' = [tail EXCEPT ![c] = event_queue]
            /\ Race(c)
            /\ UNCHANGED <<program, mutex, iaxc_locked, event, left, posted,
                           called>>

\* iaxc_callback of fgcom returns 1, so nothing else is done
Callback(c) ==
    /\ At(c, "call")
    /\ called' = Append(called, e[c])
    /\ Return(c)
    /\ e' = [e EXCEPT ![c] = NoEvent]
    /\ UNCHANGED <<program, mutex, iaxc_locked, list, event, tail, left, posted,
                   raced>>

-----------------------------------------------------------------------------
(* put_iaxc_lock *)

\* event = event_queue
Take(c) ==
    /\ At(c, "in")
    /\ event' = [event EXCEPT ![c] = next[event_queue]]
    /\ Goto(c, "clear")
    /\ UNCHANGED <<program, mutex, iaxc_locked, list, e, tail, left, history>>

\* Mutant: the queue keeps what is about to be delivered
ClearNothing(c) ==
    /\ At(c, "clear")
    /\ Race(c)
    /\ Goto(c, "unset")
    /\ UNCHANGED <<program, mutex, iaxc_locked, list, locals, left, posted,
                   called>>

\* event_queue = NULL
Clear(c) ==
    /\ At(c, "clear")
    /\ next' = [next EXCEPT ![event_queue] = Null]
    /\ Race(c)
    /\ Goto(c, "unset")
    /\ UNCHANGED <<program, mutex, iaxc_locked, content, locals, left, posted,
                   called>>

SetUnlocked(c) ==
    /\ At(c, "unset")
    /\ iaxc_locked' = FALSE
    /\ Goto(c, "unlock")
    /\ UNCHANGED <<program, mutex, list, locals, left, history>>

\* while (event)
Loop(node) == IF node = Null THEN "out" ELSE "deliver"

\* Mutant: the mutex is not let go
UnlockNothing(c) ==
    /\ At(c, "unlock")
    /\ Goto(c, Loop(event[c]))
    /\ UNCHANGED <<program, mutex, iaxc_locked, list, locals, left, history>>

\* Mutant: the events are not posted "in the meantime", nor after
UnlockOnly(c) ==
    /\ At(c, "unlock")
    /\ owner' = IF destroyed THEN owner ELSE NoOne
    /\ Goto(c, "out")
    /\ UNCHANGED <<program, destroyed, iaxc_locked, list, locals, left,
                   history>>

\* MUTEXUNLOCK
Unlock(c) ==
    /\ At(c, "unlock")
    /\ owner' = IF destroyed THEN owner ELSE NoOne
    /\ Goto(c, Loop(event[c]))
    /\ UNCHANGED <<program, destroyed, iaxc_locked, list, locals, left,
                   history>>

\* iaxc_post_event(*event): by now another thread may have the lock
Deliver(c) ==
    /\ At(c, "deliver")
    /\ IF Freed(event[c]) THEN Fault
       ELSE /\ e' = [e EXCEPT ![c] = content[event[c]]]
            /\ TestLocked(c)
            /\ UNCHANGED <<program, mutex, iaxc_locked, list, event, tail, left,
                           history>>

\* Mutant: only the first event is posted
FreeAll(c) ==
    /\ At(c, "free")
    /\ IF Freed(event[c]) THEN Fault
       ELSE /\ event' = [event EXCEPT ![c] = Null]
            /\ content' = [content EXCEPT ![event[c]] = NoEvent]
            /\ next' = [next EXCEPT ![event[c]] = Null]
            /\ Race(c)
            /\ Goto(c, "out")
            /\ UNCHANGED <<program, mutex, iaxc_locked, e, tail, left, posted,
                           called>>

\* event = event->next; free(prev)
Free(c) ==
    /\ At(c, "free")
    /\ IF Freed(event[c]) THEN Fault
       ELSE /\ event' = [event EXCEPT ![c] = next[@]]
            /\ content' = [content EXCEPT ![event[c]] = NoEvent]
            /\ next' = [next EXCEPT ![event[c]] = Null]
            /\ Race(c)
            /\ Goto(c, Loop(event'[c]))
            /\ UNCHANGED <<program, mutex, iaxc_locked, e, tail, left, posted,
                           called>>

-----------------------------------------------------------------------------
(* fgcom *)

\* main, after iaxc_initialize: iaxc_start_processing_thread
StartProcessing ==
    /\ At(Main, "out") /\ ~started
    /\ started' = TRUE
    /\ UNCHANGED <<status, interrupted, mutex, iaxc_locked, list, pc, locals,
                   left, history>>

\* SIGINT, SIGQUIT or SIGTERM: quit begins with iaxc_shutdown, which takes the
\* lock in iaxc_dump_all_calls and once more to stop the audio
Signal(t) ==
    /\ Runs(t) /\ interrupted = NoOne
    /\ posted <= QuitEvents
    /\ interrupted' = t
    /\ left' = [left EXCEPT ![Handler] = 4]
    /\ UNCHANGED <<status, started, mutex, iaxc_locked, list, pc, locals,
                   history>>

\* MUTEXDESTROY, the end of iaxc_shutdown; it fails while somebody has it
Destroy ==
    /\ At(Handler, "out") /\ left[Handler] = 2
    /\ left' = [left EXCEPT ![Handler] = 1]
    /\ destroyed' = (destroyed \/ owner = NoOne)
    /\ UNCHANGED <<program, owner, iaxc_locked, list, pc, locals, history>>

\* exit, after iaxc_unregister if there is a registration
Exit ==
    /\ At(Handler, "out") /\ left[Handler] <= 1
    /\ status' = "exited"
    /\ UNCHANGED <<started, interrupted, mutex, iaxc_locked, list, pc, locals,
                   left, history>>

-----------------------------------------------------------------------------

\* What a context does once it has the lock, until it is outside again
Proceed(c) ==
    \/ Walk(c) \/ Link(c) \/ Callback(c)
    \/ Take(c) \/ Clear(c) \/ SetUnlocked(c) \/ Unlock(c)
    \/ Deliver(c) \/ Free(c)

Next ==
    \/ \E c \in Contexts : Lock(c) \/ Post(c) \/ Proceed(c)
    \/ StartProcessing
    \/ \E t \in Interruptible : Signal(t)
    \/ Destroy \/ Exit

Spec == Init /\ [][Next]_vars

\* Threads run.  The mutex is not fair, but the processing thread sleeps 5 ms
\* in each round, so whoever waits gets it at some time.  Nothing is assumed
\* of what the main thread does, nor of events and signals.
Fairness ==
    /\ WF_vars(Proceed(Main)) /\ WF_vars(Proceed(Processing))
    /\ WF_vars(Proceed(Handler) \/ Destroy \/ Exit)
    /\ SF_vars(Lock(Processing)) /\ SF_vars(Lock(Handler))

FairSpec == Spec /\ Fairness

-----------------------------------------------------------------------------
(* Properties *)

\* While the mutex exists, no two contexts are between get_iaxc_lock and
\* put_iaxc_lock, even if one of them interrupted the other.
Exclusive ==
    ~destroyed => \A c, d \in Contexts : Holds(c) /\ Holds(d) => c = d

\* While the mutex exists, the callback of fgcom is not called by a thread that
\* has it: it may call iaxclient.  That depends on put_iaxc_lock clearing
\* iaxc_locked before it lets the mutex go, for the flag is that of whoever
\* has the mutex, and iaxc_post_event looks at nothing else.
NoCallbackInside ==
    ~destroyed => \A c \in Contexts : pc[c] = "call" => ~Holds(c)

\* While the mutex exists, no event is called back twice, whatever the threads
\* that append to the queue, empty it and put events back into it do.
CalledBackOnce ==
    ~destroyed => \A i, j \in DOMAIN called : called[i] = called[j] => i = j

\* The nodes that will be found from the queue and by put_iaxc_lock, as the
\* smallest set that is closed under next
Found == {next[event_queue]} \cup {event[c] : c \in Contexts}
Present(n) ==
    \A S \in SUBSET Nodes :
        /\ Found \ {Null} \subseteq S
        /\ \A m \in S : next[m] \in S \cup {Null}
        => n \in S

\* An event that was posted is being posted, has been called back, or is in a
\* list somebody will look at.
Kept(i) ==
    \/ \E c \in Contexts : pc[c] \in Posting /\ e[c] = i
    \/ \E k \in DOMAIN called : called[k] = i
    \/ \E n \in Nodes : content[n] = i /\ Present(n)

\* An event is lost, and a freed node used, only if one context changes the list
\* while another is at it: put_iaxc_lock puts an event back into the queue
\* without the mutex that the next thread by now has.
LostOnlyByRace ==
    ~raced => status # "fault" /\ \A i \in 1 .. posted : Kept(i)

\* "Internal queue of events, waiting to be posted once the library lock is
\* released": whoever puts events into the queue, there is a time again when all
\* have been called back, unless a race loses one or the program is to quit.
Drained ==
    []<>(\/ \A i \in 1 .. posted : \E k \in DOMAIN called : called[k] = i
         \/ raced \/ interrupted # NoOne)

\* A signal that finds its thread outside the lock ends the program.
QuitsFromOutside ==
    (\E t \in Threads : interrupted = t /\ ~Holds(t)) ~> status # "running"

\* "Ctrl+C to exit the application."
CtrlCExits == interrupted # NoOne ~> status # "running"

=============================================================================
