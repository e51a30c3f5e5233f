---------------------------- MODULE FgcomProofs ----------------------------
(***************************************************************************)
(* Proofs about Fgcom, for any frequencies, airports and positions, any    *)
(* number of radios and appearances, and any number of calls the server    *)
(* ends.                                                                   *)
(***************************************************************************)
EXTENDS Fgcom, FiniteSetTheorems, TLAPS

\* What is dialled is a number
LEMMA DialledIsNumber ==
    ASSUME TypeOK PROVE Dialled \in Number
<1>1. selected_frequency \in Tunable /\ data.pos \in Positions
  BY DEF TypeOK
<1>2. Here \in Airports \cup {Nowhere}
  BY <1>1, PlacesAssumption DEF Here
<1> QED
  BY <1>2 DEF Dialled, Number, TypeOK

\* The events left to call back stay within their bound
LEMMA PostIsBounded ==
    ASSUME TypeOK, NEW new \in {0, 1}, Post(new)
    PROVE  pending' \in 0 .. MaxPending /\ connected' \in {0, 1}
  BY BoundsAssumption DEF Post, TypeOK

\* Every variable of the radio keeps its type: the handlers, the library and
\* the callbacks of fgcom.cpp.
THEOREM TypeCorrect == Spec => []TypeOK
<1>1. Init => TypeOK
  <2> SUFFICES ASSUME Init PROVE TypeOK
    OBVIOUS
  <2>1. com_select \in 0 .. Radios - 1 /\ selected_call \in Appearances
    BY BoundsAssumption DEF Init, Appearances
  <2>2. data \in [PTT : Keys, pos : Positions]
    BY BoundsAssumption, PlacesAssumption DEF Init
  <2>3. calls \in [Appearances -> Call \cup {Free}]
    BY DEF Init
  <2>4. pending \in 0 .. MaxPending /\ ends \in 0 .. MaxEnds
        /\ incoming \in 0 .. MaxIncoming
    BY BoundsAssumption DEF Init
  <2> QED
    BY <2>1, <2>2, <2>3, <2>4, BoundsAssumption DEF Init, TypeOK, Tunable
<1>2. TypeOK /\ [Next]_vars => TypeOK'
  <2> SUFFICES ASSUME TypeOK, [Next]_vars PROVE TypeOK'
    OBVIOUS
  <2> USE DEF radio, audio, library, bounds
  <2>1. CASE Packet
    <3> PICK d \in fgdata :
          /\ pc = "idle"
          /\ handler' = "packet"
          /\ data' = [PTT |-> d.PTT, pos |-> d.pos]
          /\ selected_frequency' = Tuned(d.FRQ)
          /\ pc' = IF selected_frequency' = selected_frequency THEN "ptt"
                   ELSE IF connected = 1 THEN "dump" ELSE "dial"
          /\ UNCHANGED <<com_select, previous_ptt, audio, connected, library,
                         pending, bounds>>
      BY <2>1 DEF Packet
    <3>2. d.PTT \in Keys /\ d.pos \in Positions
          /\ d.FRQ[com_select] \in Frequencies \cup {OutOfService}
      BY DEF fgdata, TypeOK
    <3>1. selected_frequency' \in Tunable
      BY <3>2 DEF Tuned, Tunable, TypeOK
    <3> QED
      BY <3>1, <3>2 DEF TypeOK
  <2>2. CASE Alarm
    BY <2>2 DEF Alarm, TypeOK
  <2>3. CASE Dump
    <3>1. pending' \in 0 .. MaxPending /\ connected' \in {0, 1}
      BY <2>3, PostIsBounded DEF Dump
    <3>2. calls' \in [Appearances -> Call \cup {Free}]
      BY <2>3 DEF Dump, TypeOK
    <3> QED
      BY <2>3, <3>1, <3>2 DEF Dump, TypeOK
  <2>4. CASE HungUp
    BY <2>4 DEF HungUp, TypeOK
  <2>5. CASE Dial
    <3>1. pending' \in 0 .. MaxPending /\ connected' \in {0, 1}
      BY <2>5, PostIsBounded DEF Dial
    <3>2. Outgoing(Dialled) \in Call
      BY DialledIsNumber DEF Outgoing, Call
    <3>3. NextAppearance \subseteq Appearances
      BY DEF NextAppearance, FirstFree, TypeOK
    <3>4. /\ calls' \in [Appearances -> Call \cup {Free}]
          /\ selected_call' \in Appearances
      BY <2>5, <3>2, <3>3 DEF Dial, TypeOK
    <3> QED
      BY <2>5, <3>1, <3>4 DEF Dial, TypeOK
  <2>6. CASE Connected
    BY <2>6 DEF Connected, TypeOK
  <2>7. CASE PttKey
    <3>1. com_select' \in 0 .. Radios - 1
      BY <2>7, BoundsAssumption DEF PttKey, TypeOK
    <3>2. mic' \in {0, 1} /\ speaker' \in {0, 1}
      BY <2>7 DEF PttKey, ptt, TypeOK
    <3>3. let_go' \in {"uncalled", "special", "normal"}
      BY <2>7 DEF PttKey, LetGo, TypeOK
    <3> QED
      BY <2>7, <3>1, <3>2, <3>3 DEF PttKey, TypeOK
  <2>8. CASE Callback
    BY <2>8, BoundsAssumption DEF Callback, TypeOK
  <2>9. CASE CallEnds
    BY <2>9, BoundsAssumption DEF CallEnds, TypeOK
  <2>10. CASE CallComesIn
    <3>1. Incoming \in Call
      BY DEF Incoming, Call, Number, NoNumber, Tunable
    <3> QED
      BY <2>10, <3>1, BoundsAssumption DEF CallComesIn, FirstFree, TypeOK
  <2>11. CASE UNCHANGED vars
    BY <2>11 DEF vars, TypeOK
  <2> QED
    BY <2>1, <2>2, <2>3, <2>4, <2>5, <2>6, <2>7, <2>8, <2>9, <2>10, <2>11
    DEF Next, MainThread, ProcessingThread
<1> QED
  BY <1>1, <1>2, PTL DEF Spec

-----------------------------------------------------------------------------

AllFree == \A c \in Appearances : calls[c] = Free

\* The only call is the one fgcom dialled and selected.  Nothing is left to
\* call back, and connected is 1, while it is up, except during the 100 ms
\* after dialling, which outlast the callbacks.
CallsInv ==
    /\ incoming = 0
    /\ \A c \in Appearances \ {selected_call} : calls[c] = Free
    /\ calls[selected_call].state \in {"free", "outgoing"}
    /\ pc \in {"hungup", "dial"} => AllFree
    /\ (pending > 0 \/ connected = 0) /\ pc # "dialled" => AllFree
    /\ pc # "dump" => \A c \in OutgoingCalls :
           calls[c].number.frequency = selected_frequency

\* When sleeps drain callbacks and nobody calls in, CallsInv is inductive.
LEMMA CallsInvariant ==
    ASSUME SleepDrains, MaxIncoming = 0 PROVE Spec => []CallsInv
<1>1. Init => CallsInv
  BY BoundsAssumption
  DEF Init, CallsInv, AllFree, OutgoingCalls, Free, Appearances
<1>2. TypeOK /\ CallsInv /\ [Next]_vars => CallsInv'
  <2> SUFFICES ASSUME TypeOK, CallsInv, [Next]_vars PROVE CallsInv'
    OBVIOUS
  <2> USE DEF radio, audio, library, bounds
  <2>1. CASE Packet
    <3>1. /\ pc = "idle" /\ pc' \in {"ptt", "dump", "dial"}
          /\ pc' = "dial" => connected = 0
          /\ pc' = "ptt" => selected_frequency' = selected_frequency
          /\ UNCHANGED <<connected, library, pending, bounds>>
      BY <2>1 DEF Packet, TypeOK
    <3>2. OutgoingCalls' = OutgoingCalls /\ AllFree' = AllFree
      BY <3>1 DEF OutgoingCalls, AllFree
    <3>3. pc' = "dial" => AllFree
      BY <3>1 DEF CallsInv
    <3>4. AllFree => OutgoingCalls = {}
      BY DEF AllFree, OutgoingCalls, Free
    <3> QED
      BY <3>1, <3>2, <3>3, <3>4 DEF CallsInv
  <2>2. CASE Alarm
    BY <2>2 DEF Alarm, CallsInv, AllFree, OutgoingCalls, Free
  <2>3. CASE Dump
    <3>1. calls' = [calls EXCEPT ![selected_call] = Free] /\ pc' = "hungup"
      BY <2>3 DEF Dump
    <3>2. AllFree'
      BY <2>3, <3>1 DEF Dump, AllFree, CallsInv, TypeOK
    <3> QED
      BY <2>3, <3>1, <3>2 DEF Dump, CallsInv, AllFree, OutgoingCalls, Free, TypeOK
  <2>4. CASE HungUp
    BY <2>4 DEF HungUp, CallsInv, AllFree, OutgoingCalls, Free
  <2>5. CASE Dial
    <3>1. calls[selected_call] = Free /\ NextAppearance = {selected_call}
      BY <2>5 DEF Dial, CallsInv, AllFree, TypeOK, NextAppearance
    <3>2. /\ calls' = [calls EXCEPT ![selected_call] = Outgoing(Dialled)]
          /\ selected_call' = selected_call /\ pc' = "dialled"
          /\ UNCHANGED <<selected_frequency, incoming>>
      BY <2>5, <3>1 DEF Dial
    <3>3. /\ calls'[selected_call].state = "outgoing"
          /\ calls'[selected_call].number.frequency = selected_frequency
          /\ \A c \in Appearances \ {selected_call} : calls'[c] = Free
      BY <3>2 DEF CallsInv, TypeOK, Outgoing, Dialled
    <3>4. OutgoingCalls' = {selected_call}
      BY <3>3 DEF OutgoingCalls, Free, TypeOK
    <3> QED
      BY <3>2, <3>3, <3>4 DEF CallsInv
  <2>6. CASE Connected
    BY <2>6 DEF Connected, Slept, CallsInv, AllFree, OutgoingCalls, TypeOK
  <2>7. CASE PttKey
    BY <2>7 DEF PttKey, CallsInv, AllFree, OutgoingCalls
  <2>8. CASE Callback
    BY <2>8 DEF Callback, CallsInv, AllFree, OutgoingCalls, TypeOK
  <2>9. CASE CallEnds
    <3> PICK c \in Appearances :
          /\ calls[c] # Free
          /\ calls' = [calls EXCEPT ![c] = Free]
          /\ UNCHANGED <<pc, selected_call, selected_frequency, incoming>>
      BY <2>9 DEF CallEnds
    <3>1. AllFree'
      BY DEF CallsInv, AllFree, TypeOK
    <3> QED
      BY <3>1 DEF CallsInv, AllFree, OutgoingCalls, Free, TypeOK
  <2>10. CASE CallComesIn
    BY <2>10, BoundsAssumption DEF CallComesIn, CallsInv
  <2>11. CASE UNCHANGED vars
    BY <2>11 DEF vars, CallsInv, AllFree, OutgoingCalls
  <2> QED
    BY <2>1, <2>2, <2>3, <2>4, <2>5, <2>6, <2>7, <2>8, <2>9, <2>10, <2>11
    DEF Next, MainThread, ProcessingThread
<1> QED
  BY <1>1, <1>2, TypeCorrect, PTL DEF Spec

\* process_packet and alarm_handler never have two calls up, although the
\* processing thread ends calls and clears connected at any moment, provided
\* their sleeps outlast its callbacks and nobody calls in.
THEOREM NeverTwoCalls ==
    ASSUME SleepDrains, MaxIncoming = 0 PROVE Spec => []OneCall
<1>1. TypeOK /\ CallsInv => OneCall
  <2> SUFFICES ASSUME TypeOK, CallsInv PROVE OneCall
    OBVIOUS
  <2>1. OutgoingCalls \subseteq {selected_call}
    BY DEF CallsInv, OutgoingCalls, Free
  <2>2. IsFiniteSet({selected_call}) /\ Cardinality({selected_call}) = 1
    BY FS_Singleton
  <2>3. Cardinality(OutgoingCalls) <= 1
    BY <2>1, <2>2, FS_Subset
  <2> QED
    BY <2>3 DEF OneCall
<1> QED
  BY <1>1, TypeCorrect, CallsInvariant, PTL

\* Under the same conditions a call is on the selected frequency whenever the
\* main thread is back in its loop.
THEOREM CallOnFrequency ==
    ASSUME SleepDrains, MaxIncoming = 0
    PROVE  Spec => []OnFrequency
<1>1. TypeOK /\ CallsInv => OnFrequency
  BY DEF TypeOK, CallsInv, AllFree, OutgoingCalls, Free, OnFrequency
<1> QED
  BY <1>1, TypeCorrect, CallsInvariant, PTL

\* The call that is up is the one iaxc_dump_call hangs up and iaxc_select_call
\* gave the microphone.
THEOREM SelectedIsCall ==
    ASSUME SleepDrains, MaxIncoming = 0
    PROVE  Spec => []CallIsSelected
<1>1. TypeOK /\ CallsInv => CallIsSelected
  BY DEF TypeOK, CallsInv, AllFree, OutgoingCalls, Free, CallIsSelected
<1> QED
  BY <1>1, TypeCorrect, CallsInvariant, PTL

\* Unless a call was just dialled, connected = 0 means that there is none: the
\* handlers that test the flag do not dial over a call.
THEOREM DisconnectedIsFree ==
    ASSUME SleepDrains, MaxIncoming = 0
    PROVE  Spec => []IdleMeansFree
<1>1. TypeOK /\ CallsInv => IdleMeansFree
  BY DEF TypeOK, CallsInv, AllFree, OutgoingCalls, Free, IdleMeansFree
<1> QED
  BY <1>1, TypeCorrect, CallsInvariant, PTL
-----------------------------------------------------------------------------

\* Whatever the sleeps and the server do, and whoever calls in, iaxc_call takes
\* an appearance only when it is free: no call is replaced before it ended.
THEOREM CallsAreNotOverwritten == Spec => NoCallOverwritten
<1> DEFINE Kept == \A c \in Appearances :
                      calls[c] # Free => calls'[c] \in {calls[c], Free}
<1>1. TypeOK /\ [Next]_vars => Kept
  <2> SUFFICES ASSUME TypeOK, [Next]_vars PROVE Kept
    OBVIOUS
  <2>1. CASE Dump
    BY <2>1 DEF Dump, TypeOK
  <2>2. CASE Dial
    <3>1. CASE NextAppearance = {}
      BY <2>2, <3>1 DEF Dial, library
    <3>2. ASSUME NEW c \in NextAppearance,
                 calls' = [calls EXCEPT ![c] = Outgoing(Dialled)]
          PROVE  Kept
      BY <3>2 DEF NextAppearance, FirstFree, TypeOK
    <3> QED
      BY <2>2, <3>1, <3>2 DEF Dial
  <2>3. CASE CallEnds
    BY <2>3 DEF CallEnds, TypeOK
  <2>4. CASE CallComesIn
    BY <2>4 DEF CallComesIn, FirstFree, TypeOK
  <2>5. CASE Packet \/ Alarm \/ HungUp \/ Connected \/ PttKey \/ Callback
    BY <2>5 DEF Packet, Alarm, HungUp, Connected, PttKey, Callback, library
  <2>6. CASE UNCHANGED vars
    BY <2>6 DEF vars, library
  <2> QED
    BY <2>1, <2>2, <2>3, <2>4, <2>5, <2>6 DEF Next, MainThread, ProcessingThread
<1>2. TypeOK /\ [Next]_vars => [Kept]_vars
  BY <1>1
<1> QED
  BY <1>2, TypeCorrect, PTL DEF Spec, NoCallOverwritten

-----------------------------------------------------------------------------

\* Whatever happens to the calls and the frequency between press and release, a
\* release during a call closes the microphone, and on a normal frequency turns
\* the speaker on; they stay so until the next press.
THEOREM ReleaseMutes == Spec => []ListensWhenReleased
<1>1. Init => ListensWhenReleased
  BY DEF Init, ListensWhenReleased
<1>2. TypeOK /\ ListensWhenReleased /\ [Next]_vars => ListensWhenReleased'
  <2> SUFFICES ASSUME TypeOK, ListensWhenReleased, [Next]_vars
               PROVE  ListensWhenReleased'
    OBVIOUS
  <2>1. CASE PttKey
    <3>1. CASE KeyTurned /\ data.PTT = 0 /\ connected = 1
      <4>1. mic' = 0 /\ let_go' = LetGo /\ speaker' =
              IF selected_frequency \in Special THEN speaker ELSE 1
        BY <2>1, <3>1 DEF PttKey, ptt
      <4> QED
        BY <3>1, <4>1 DEF LetGo, ListensWhenReleased
    <3>2. CASE KeyTurned /\ data.PTT = 0 /\ connected # 1
      <4>1. let_go' = "uncalled"
        BY <2>1, <3>2 DEF PttKey, LetGo, TypeOK
      <4> QED
        BY <4>1 DEF ListensWhenReleased
    <3>3. CASE ~KeyTurned
      BY <2>1, <3>3 DEF PttKey, KeyTurned, ListensWhenReleased
    <3>4. CASE data.PTT # 0
      BY <2>1, <3>4 DEF PttKey, ListensWhenReleased
    <3> QED
      BY <3>1, <3>2, <3>3, <3>4
  <2>2. CASE Packet \/ Alarm \/ Dump \/ HungUp \/ Dial \/ Connected
    BY <2>2
    DEF Packet, Alarm, Dump, HungUp, Dial, Connected, radio, audio,
        ListensWhenReleased
  <2>3. CASE ProcessingThread
    BY <2>3
    DEF ProcessingThread, Callback, CallEnds, CallComesIn, radio, audio,
        ListensWhenReleased
  <2>4. CASE UNCHANGED vars
    BY <2>4 DEF vars, radio, audio, ListensWhenReleased
  <2> QED
    BY <2>1, <2>2, <2>3, <2>4 DEF Next, MainThread
<1> QED
  BY <1>1, <1>2, TypeCorrect, PTL DEF Spec

=============================================================================
