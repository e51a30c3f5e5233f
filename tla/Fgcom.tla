------------------------------- MODULE Fgcom -------------------------------
(***************************************************************************)
(* The radio of fgcom in Flightgear mode (src/fgcom.cpp): the main thread, *)
(* which turns the packets of the simulator and a 15 second alarm into     *)
(* calls, and the processing thread of iaxclient, which calls back when a  *)
(* call ends.  They share the flag connected, which nothing protects, and  *)
(* the call appearances of iaxclient_lib.c, which iaxc_lock protects.      *)
(*                                                                         *)
(* A step of the main thread is what it does between two points at which   *)
(* the processing thread can interfere: its handlers read connected, take  *)
(* iaxc_lock, sleep, and write connected, each in a step of its own.       *)
(*                                                                         *)
(* The only callback that has an effect is event_state with state 0, so an *)
(* iaxc_event is kept only if it reports that a call became free.          *)
(*                                                                         *)
(* An operator marked "Mutant" is a plausible mistake in the operator that *)
(* follows it.  It is no part of the specification: it shows which         *)
(* property would catch the mistake.                                       *)
(***************************************************************************)
EXTENDS Integers, FiniteSets

CONSTANTS
    Frequencies,  \* what the radios can be tuned to
    Special,      \* special_frequencies: reachable from everywhere
    Positions,    \* where the aircraft can be
    Origin,       \* latitude 0, longitude 0, before the first packet
    Airports,     \* ICAO codes
    icaobypos,    \* the airport in range on a frequency at a position
    Keys,         \* values of PTT: 0 released, 1 pressed, 2 next radio
    Radios,       \* 4: COM1, NAV1, COM2, NAV2
    nCalls,       \* DEFAULT_MAX_CALLS, 2
    SleepDrains,  \* do the sleeps outlast the callbacks under way?
    QuickEnd,     \* can the server end a call within 100 ms of its dialling?
    MaxEnds,      \* bound: calls ended by the other side
    MaxPending,   \* bound: events waiting to be called back
    MaxIncoming   \* bound: calls coming in

NoFrequency == "0.0"     \* selected_frequency before the first packet
OutOfService == "off"    \* COMx_SRV or NAVx_SRV is 0
Nowhere == ""            \* icaobypos found no airport in range
AnyAirport == "ZZZZ"     \* what is dialled instead

Appearances == 0 .. nCalls - 1
Tunable == Frequencies \cup {NoFrequency}
Number == [icao : Airports \cup {AnyAirport, Nowhere}, frequency : Tunable]
NoNumber == [icao |-> Nowhere, frequency |-> NoFrequency]

ASSUME FrequenciesAssumption ==
    /\ Special \subseteq Frequencies
    /\ NoFrequency \notin Frequencies /\ OutOfService \notin Frequencies
ASSUME PlacesAssumption ==
    /\ Origin \in Positions /\ Nowhere \notin Airports
    /\ icaobypos \in [Tunable -> [Positions -> Airports \cup {Nowhere}]]
    /\ \A p \in Positions : icaobypos[NoFrequency][p] = Nowhere
ASSUME BoundsAssumption ==
    /\ Keys \subseteq {0, 1, 2} /\ 0 \in Keys
    /\ Radios \in Nat \ {0} /\ nCalls \in Nat \ {0}
    /\ MaxEnds \in Nat /\ MaxIncoming \in Nat /\ MaxPending \in Nat \ {0}
    /\ SleepDrains \in BOOLEAN /\ QuickEnd \in BOOLEAN

VARIABLES
    \* the main thread
    pc,                  \* where it is: idle in select, or inside a handler
    handler,             \* process_packet or alarm_handler
    data,                \* what later steps read of the last packet
    com_select,          \* the radio in use
    selected_frequency,  \* and previous_com_frequency, its copy
    previous_ptt,        \* the key in the last packet
    mic, speaker,        \* levels: 0 muted, 1 level_in or level_out
    \* shared with the processing thread
    connected,           \* 1 if there is a call, as far as fgcom knows
    calls,               \* the appearances of iaxclient
    selected_call,       \* the appearance that has the microphone
    pending,             \* events of a free call not yet called back
    \* counted for the bounds
    ends, incoming,
    \* history
    let_go               \* how the key was released last; see LetGo

audio == <<mic, speaker, let_go>>
library == <<calls, selected_call>>
bounds == <<ends, incoming>>
radio == <<data, com_select, selected_frequency, previous_ptt>>
vars == <<pc, handler, radio, audio, connected, library, pending, bounds>>

\* The bits ACTIVE and OUTGOING of an appearance, and the number it called
Call == [state : {"outgoing", "incoming"}, number : Number]
Free == [state |-> "free", number |-> NoNumber]
Incoming == [state |-> "incoming", number |-> NoNumber]
Outgoing(number) == [state |-> "outgoing", number |-> number]

TypeOK ==
    /\ pc \in {"idle", "dump", "hungup", "dial", "dialled", "ptt"}
    /\ handler \in {"packet", "alarm"}
    /\ data \in [PTT : Keys, pos : Positions]
    /\ com_select \in 0 .. Radios - 1
    /\ selected_frequency \in Tunable
    /\ previous_ptt \in Keys
    /\ mic \in {0, 1} /\ speaker \in {0, 1}
    /\ connected \in {0, 1}
    /\ calls \in [Appearances -> Call \cup {Free}]
    /\ selected_call \in Appearances
    /\ pending \in 0 .. MaxPending
    /\ ends \in 0 .. MaxEnds /\ incoming \in 0 .. MaxIncoming
    /\ let_go \in {"uncalled", "special", "normal"}

\* main, up to its loop: "mute mic, speaker on"
Init ==
    /\ pc = "idle" /\ handler = "packet"
    /\ data = [PTT |-> 0, pos |-> Origin]
    /\ com_select = 0 /\ previous_ptt = 0
    /\ selected_frequency = NoFrequency
    /\ mic = 0 /\ speaker = 1
    /\ connected = 0
    /\ calls = [c \in Appearances |-> Free] /\ selected_call = 0
    /\ pending = 0
    /\ ends = 0 /\ incoming = 0
    /\ let_go = "normal"

-----------------------------------------------------------------------------
(* iaxclient *)

\* iaxc_first_free_call, as the set of its results: empty for -1
FirstFree == {c \in Appearances :
    calls[c] = Free /\ \A d \in 0 .. c - 1 : calls[d] # Free}

\* Mutant: the selected appearance is used although it is active
SelectedAppearance == {selected_call}

\* The appearance iaxc_call uses: the selected one unless it is active
NextAppearance ==
    IF calls[selected_call] = Free THEN {selected_call} ELSE FirstFree

(***************************************************************************)
(* put_iaxc_lock calls back what was queued while the lock was held,       *)
(* unless the other thread has taken the lock by then: iaxc_post_event     *)
(* sees iaxc_locked and queues it again.  The test of iaxc_locked and the  *)
(* list event_queue are not protected, so an event posted by one thread    *)
(* while the other holds the lock can also be lost.                        *)
(***************************************************************************)
Post(new) == \E left \in 0 .. pending :
    \/ left + new <= MaxPending /\ pending' = left + new /\ UNCHANGED connected
    \/ pending' = left /\ connected' = IF new > 0 THEN 0 ELSE connected

\* Mutant: the end of a call is reported, and connected left alone
CallbackReports ==
    /\ pending > 0
    /\ pending' = pending - 1
    /\ UNCHANGED <<pc, handler, radio, audio, connected, library, bounds>>

\* event_state, on whichever thread posts the event
Callback ==
    /\ pending > 0
    /\ pending' = pending - 1
    /\ connected' = 0
    /\ UNCHANGED <<pc, handler, radio, audio, library, bounds>>

\* iaxc_handle_network_event: HANGUP, REJECT or TIMEOUT, by iaxc_clear_call
CallEnds == \E c \in Appearances :
    /\ calls[c] # Free
    /\ ends < MaxEnds /\ pending < MaxPending
    /\ pc = "dialled" => QuickEnd
    /\ calls' = [calls EXCEPT ![c] = Free]
    /\ pending' = pending + 1
    /\ ends' = ends + 1
    /\ UNCHANGED <<pc, handler, radio, audio, connected, selected_call,
                   incoming>>

\* IAX_EVENT_CONNECT in iaxc_service_network: it rings, and fgcom never answers
CallComesIn == \E c \in FirstFree :
    /\ incoming < MaxIncoming
    /\ calls' = [calls EXCEPT ![c] = Incoming]
    /\ incoming' = incoming + 1
    /\ UNCHANGED <<pc, handler, radio, audio, connected, selected_call,
                   pending, ends>>

\* Mutant: no sleep
SleptNot == TRUE

\* iaxc_millisleep: long enough for the processing thread to call back
Slept == SleepDrains => pending = 0

-----------------------------------------------------------------------------
(* The main thread *)

\* What parse_fgdata reads from a packet.  Every packet has all the fields.
fgdata == [FRQ : [0 .. Radios - 1 -> Frequencies \cup {OutOfService}],
           PTT : Keys, pos : Positions]

\* The frequency of the selected radio, if that is in service
Tuned(FRQ) ==
    IF FRQ[com_select] = OutOfService
    THEN selected_frequency ELSE FRQ[com_select]

\* Mutant: the old call is not hung up first
PacketDials ==
    \E d \in fgdata :
    /\ pc = "idle"
    /\ handler' = "packet"
    /\ data' = [PTT |-> d.PTT, pos |-> d.pos]
    /\ selected_frequency' = Tuned(d.FRQ)
    /\ pc' = IF selected_frequency' = selected_frequency THEN "ptt" ELSE "dial"
    /\ UNCHANGED <<com_select, previous_ptt, audio, connected, library,
                   pending, bounds>>

\* process_packet, up to its first call
Packet ==
    \E d \in fgdata :
    /\ pc = "idle"
    /\ handler' = "packet"
    /\ data' = [PTT |-> d.PTT, pos |-> d.pos]
    /\ selected_frequency' = Tuned(d.FRQ)
    /\ pc' = IF selected_frequency' = selected_frequency THEN "ptt"
             ELSE IF connected = 1 THEN "dump" ELSE "dial"
    /\ UNCHANGED <<com_select, previous_ptt, audio, connected, library,
                   pending, bounds>>

Here == icaobypos[selected_frequency][data.pos]

InRange == selected_frequency \in Special \/ Here # Nowhere

\* Mutant: out of range ZZZZ is dialled, as process_packet does
AlarmRedials ==
    /\ pc = "idle"
    /\ InRange <=> connected = 0
    /\ pc' = "dial"
    /\ handler' = "alarm"
    /\ UNCHANGED <<radio, audio, connected, library, pending, bounds>>

\* alarm_handler: "we are out of range so hangup", "we are now in range"
Alarm ==
    /\ pc = "idle"
    /\ \/ ~InRange /\ connected = 1 /\ pc' = "dump"
       \/ InRange /\ connected = 0 /\ pc' = "dial"
    /\ handler' = "alarm"
    /\ UNCHANGED <<radio, audio, connected, library, pending, bounds>>

\* Mutant: the appearance keeps its state
DumpKeeps ==
    /\ pc = "dump"
    /\ pc' = "hungup"
    /\ Post(IF calls[selected_call] = Free THEN 0 ELSE 1)
    /\ UNCHANGED <<handler, radio, audio, library, bounds>>

\* iaxc_dump_call
Dump ==
    /\ pc = "dump"
    /\ pc' = "hungup"
    /\ calls' = [calls EXCEPT ![selected_call] = Free]
    /\ Post(IF calls[selected_call] = Free THEN 0 ELSE 1)
    /\ UNCHANGED <<handler, radio, audio, selected_call, bounds>>

\* The 500 ms after it, and connected = 0
HungUp ==
    /\ pc = "hungup" /\ Slept
    /\ connected' = 0
    /\ pc' = IF handler = "packet" THEN "dial" ELSE "idle"
    /\ UNCHANGED <<handler, radio, audio, library, pending, bounds>>

\* icao2number of what the handler put in icao
Dialled ==
    LET icao == IF handler = "alarm" /\ selected_frequency \in Special
                THEN AnyAirport ELSE Here
    IN  [icao |-> IF icao = Nowhere THEN AnyAirport ELSE icao,
         frequency |-> selected_frequency]

\* iaxc_call and iaxc_select_call, from do_iaxc_call; with no appearance left
\* nothing is dialled
Dial ==
    /\ pc = "dial"
    /\ pc' = "dialled"
    /\ IF NextAppearance = {} THEN UNCHANGED library
       ELSE \E c \in NextAppearance :
                /\ calls' = [calls EXCEPT ![c] = Outgoing(Dialled)]
                /\ selected_call' = c
    /\ Post(0)
    /\ UNCHANGED <<handler, radio, audio, bounds>>

\* Mutant: connected is not set
ConnectedNot ==
    /\ pc = "dialled" /\ Slept
    /\ pc' = IF handler = "packet" THEN "ptt" ELSE "idle"
    /\ UNCHANGED <<handler, radio, audio, connected, library, pending, bounds>>

\* The 100 ms do_iaxc_call sleeps, and connected = 1
Connected ==
    /\ pc = "dialled" /\ Slept
    /\ connected' = 1
    /\ pc' = IF handler = "packet" THEN "ptt" ELSE "idle"
    /\ UNCHANGED <<handler, radio, audio, library, pending, bounds>>

\* Has the key changed?
KeyTurned == pc = "ptt" /\ previous_ptt # data.PTT

\* Mutant: on a special frequency the microphone is left alone too
ptt_not_special(mode) ==
    IF selected_frequency \in Special THEN UNCHANGED <<mic, speaker>>
    ELSE mic' = mode /\ speaker' = 1 - mode

\* ptt: on a special frequency the speaker is left alone
ptt(mode) ==
    /\ mic' = IF mode = 1 THEN 1 ELSE 0
    /\ speaker' = IF selected_frequency \in Special THEN speaker
                  ELSE IF mode = 1 THEN 0 ELSE 1

\* Is the key released during a call, and on what frequency?
LetGo ==
    IF connected = 0 THEN "uncalled"
    ELSE IF selected_frequency \in Special THEN "special" ELSE "normal"

\* Mutant: there is no first radio after the last
PttKeyRunsOff ==
    /\ pc = "ptt"
    /\ pc' = "idle"
    /\ previous_ptt' = data.PTT
    /\ com_select' = IF KeyTurned /\ data.PTT = 2
                     THEN com_select + 1 ELSE com_select
    /\ IF KeyTurned /\ data.PTT # 2 /\ connected = 1
       THEN ptt(data.PTT) ELSE UNCHANGED <<mic, speaker>>
    /\ let_go' = IF KeyTurned /\ data.PTT = 0 THEN LetGo ELSE let_go
    /\ UNCHANGED <<handler, data, selected_frequency, connected, library,
                   pending, bounds>>

\* The end of process_packet
PttKey ==
    /\ pc = "ptt"
    /\ pc' = "idle"
    /\ previous_ptt' = data.PTT
    /\ com_select' = IF KeyTurned /\ data.PTT = 2
                     THEN (com_select + 1) % Radios ELSE com_select
    /\ IF KeyTurned /\ data.PTT # 2 /\ connected = 1
       THEN ptt(data.PTT) ELSE UNCHANGED <<mic, speaker>>
    /\ let_go' = IF KeyTurned /\ data.PTT = 0 THEN LetGo ELSE let_go
    /\ UNCHANGED <<handler, data, selected_frequency, connected, library,
                   pending, bounds>>

MainThread == Packet \/ Alarm \/ Dump \/ HungUp \/ Dial \/ Connected \/ PttKey
ProcessingThread == Callback \/ CallEnds \/ CallComesIn

Next == MainThread \/ ProcessingThread

Spec == Init /\ [][Next]_vars

\* Will alarm_handler do something the next time it runs?
AlarmDue == IF InRange THEN connected = 0 ELSE connected = 1

\* The handlers run to their end and events are called back.  The main loop
\* looks at the deadline of the alarm before it waits for a packet, so packets
\* cannot keep alarm_handler from running for ever.  A run that finds nothing
\* to do is a stutter: an Alarm is promised only once it remains due.
Fairness ==
    /\ WF_vars(Dump) /\ WF_vars(HungUp) /\ WF_vars(Dial)
    /\ WF_vars(Connected) /\ WF_vars(PttKey) /\ WF_vars(Callback)
    /\ <>[]AlarmDue => []<><<Alarm>>_vars

FairSpec == Spec /\ Fairness

-----------------------------------------------------------------------------
(* Properties *)

OutgoingCalls == {c \in Appearances : calls[c].state = "outgoing"}

\* However calls end, and whenever their callbacks arrive, the two handlers
\* never have two calls up: connected is 0 only when a new one may be dialled.
OneCall == Cardinality(OutgoingCalls) <= 1

\* When the main thread is back in its loop, a call is a call on the frequency
\* the selected radio shows.
OnFrequency == pc = "idle" =>
    \A c \in OutgoingCalls : calls[c].number.frequency = selected_frequency

\* What iaxc_dump_call hangs up and what the microphone is on is the call
\* fgcom dialled.
CallIsSelected == OutgoingCalls \subseteq {selected_call}

\* While fgcom believes it is disconnected there is no call
IdleMeansFree == (connected = 0 /\ pc # "dialled") => OutgoingCalls = {}

\* iaxc_call takes an appearance only when it is free: no step replaces a call
\* that was never hung up by another.
NoCallOverwritten ==
    [][\A c \in Appearances : calls[c] # Free => calls'[c] \in {calls[c], Free}]_vars

\* "This is needed for auto-reconnect": after the call ended it is dialled
\* again, unless the aircraft leaves the range.
AutoReconnect == OutgoingCalls = {} ~> (OutgoingCalls # {} \/ ~InRange)

\* Out of range, with the frequency left alone, the call is hung up.
HangsUpOutOfRange == ~InRange ~> (OutgoingCalls = {} \/ InRange)

\* While the key is up the microphone is closed and the speaker on, unless the
\* key was released when there was no call, which leaves both as they were, or
\* on a special frequency, which leaves the speaker.  Calls may end and
\* frequencies change between press and release (process_packet, ptt).
ListensWhenReleased == previous_ptt = 0 =>
    /\ let_go # "uncalled" => mic = 0
    /\ let_go = "normal" => speaker = 1

=============================================================================
