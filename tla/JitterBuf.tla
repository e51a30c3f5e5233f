----------------------------- MODULE JitterBuf -----------------------------
(***************************************************************************)
(* From a datagram with a timed frame to the application: what iax.c makes *)
(* of its timestamp (iax_header_to_event, iax_miniheader_to_event,         *)
(* schedule_delivery), and the jitter buffer of jitterbuf.c that holds it  *)
(* back, of one session.                                                   *)
(*                                                                         *)
(* The peer sends the frames 1 .. N, a constant, of which a run says what  *)
(* each is, when it was sent by the peer's clock, and whether as a full    *)
(* frame.  Full frames arrive in the order sent (IaxTransport shows that), *)
(* mini frames in any order or never.                                      *)
(*                                                                         *)
(* The settings are those iax_session_new makes: no clamp                  *)
(* (max_jitterbuf = 0) and no end of interpolation                         *)
(* (max_contig_interp = 0).  All voice frames of a call are of one length. *)
(* Of the statistics only those that decide something are modelled.        *)
(*                                                                         *)
(* An operator marked "Mutant" is a plausible mistake in the operator that *)
(* follows, used by no specification.                                      *)
(***************************************************************************)
EXTENDS Unwrap, FiniteSets, SequencesExt

CONSTANTS
    N,                    \* the frames the peer sends are 1 .. N
    Type,                 \* of each: "voice", "silence", "iax" or "control"
    TS,                   \* when it was sent, by the peer's clock
    Full,                 \* those sent as full frames
    ms,                   \* length of a voice frame
    interpl,              \* length of a frame made up in its place
    JB_HISTORY_SZ, JB_HISTORY_DROPPCT, JB_HISTORY_MAXBUF_SZ,
    JB_ADJUST_DELAY,
    ShrinkEmpty,          \* 80: between two shrinks without a frame
    ShrinkVoice,          \* 500: between two shrinks that throw one away
    ShrinkSilent,         \* 10: between two shrinks in silence
    target_extra, resync_threshold,
    MaxDiscont,           \* 3: strange delays before it resynchronizes
    JB_LONGMIN, JB_LONGMAX,
    MaxNow                \* bound: the end of time

Frames == 1 .. N

ASSUME FramesAssumption ==
    /\ N \in Nat /\ Full \subseteq Frames
    /\ Type \in [Frames -> {"voice", "silence", "iax", "control"}]
    /\ TS \in [Frames -> 0 .. IntMod - 1]
    /\ \A f \in Frames \ Full : Type[f] = "voice"
ASSUME LengthsAssumption ==
    interpl \in Nat \ {0} /\ ms \in Nat /\ interpl <= ms
ASSUME SettingsAssumption ==
    /\ JB_HISTORY_SZ \in Nat \ {0} /\ JB_HISTORY_DROPPCT \in 0 .. 99
    /\ JB_HISTORY_MAXBUF_SZ \in Nat \ {0}
    /\ {JB_ADJUST_DELAY, ShrinkEmpty, ShrinkVoice, ShrinkSilent, target_extra,
        resync_threshold, MaxDiscont, MaxNow} \subseteq Nat
    /\ JB_LONGMIN \in Int /\ JB_LONGMAX \in Int
    /\ JB_LONGMIN < JB_LONGMAX /\ MaxNow < JB_LONGMAX

VARIABLES
    now,                  \* by our clock
    \* of struct iax_session
    last_ts,
    voiceformat,          \* has it been set?
    \* of struct jitterbuf
    history, hist_ptr,
    hist_maxbuf, hist_minbuf, hist_maxbuf_valid,
    frames,               \* what is queued, the head first
    \* of its jb_info
    jitter, min, current, target, next_voice_ts, last_voice_ms,
    silence_begin_ts, last_adjustment, last_delay, cnt_delay_discont,
    resync_offset,
    \* history
    arrived,              \* the frames for which there was an event
    handed, freed,        \* those whose event was handed over, or freed
    stamp,                \* the timestamp schedule_delivery came to, -1 before
    timely,               \* has each come close to those before it?
    heard                 \* the last voice handed over; see HandOver

session == <<last_ts, voiceformat>>
ring == <<history, hist_ptr>>
cache == <<hist_maxbuf, hist_minbuf, hist_maxbuf_valid>>
measured == <<jitter, min>>
playing == <<current, next_voice_ts, last_voice_ms, silence_begin_ts,
             last_adjustment>>
delays == <<last_delay, cnt_delay_discont, resync_offset>>
input == <<arrived, stamp, timely>>
output == <<handed, freed, heard>>
vars == <<now, session, ring, cache, frames, measured, target, playing, delays,
          input, output>>

Queued == [data : Frames, ts : Int]

TypeOK ==
    /\ now \in 0 .. MaxNow
    /\ last_ts \in 0 .. IntMod - 1 /\ voiceformat \in BOOLEAN
    /\ history \in [0 .. JB_HISTORY_SZ - 1 -> Int] /\ hist_ptr \in Nat
    /\ hist_maxbuf \in [0 .. JB_HISTORY_MAXBUF_SZ - 1 -> Int]
    /\ hist_minbuf \in [0 .. JB_HISTORY_MAXBUF_SZ - 1 -> Int]
    /\ hist_maxbuf_valid \in BOOLEAN
    /\ frames \in Seq(Queued)
    /\ {jitter, min, current, target, next_voice_ts, silence_begin_ts,
        last_delay, resync_offset, heard} \subseteq Int
    /\ last_voice_ms \in 0 .. ms
    /\ last_adjustment \in 0 .. MaxNow
    /\ cnt_delay_discont \in 0 .. MaxDiscont
    /\ arrived \subseteq Frames /\ handed \subseteq Frames /\ freed \subseteq Frames
    /\ stamp \in [Frames -> -1 .. IntMod - 1] /\ timely \in BOOLEAN

\* iax_session_new: jb_new, with jb_reset, and jb_setconf
Init ==
    /\ now = 0 /\ last_ts = 0 /\ voiceformat = FALSE
    /\ history = [i \in 0 .. JB_HISTORY_SZ - 1 |-> 0] /\ hist_ptr = 0
    /\ hist_maxbuf = [i \in 0 .. JB_HISTORY_MAXBUF_SZ - 1 |-> 0]
    /\ hist_minbuf = [i \in 0 .. JB_HISTORY_MAXBUF_SZ - 1 |-> 0]
    /\ hist_maxbuf_valid = FALSE
    /\ frames = <<>>
    /\ jitter = 0 /\ min = 0 /\ current = target_extra /\ target = target_extra
    /\ next_voice_ts = 0 /\ last_voice_ms = 0
    /\ silence_begin_ts = -1 /\ last_adjustment = 0
    /\ last_delay = 0 /\ cnt_delay_discont = 0 /\ resync_offset = 0
    /\ arrived = {} /\ handed = {} /\ freed = {}
    /\ stamp = [f \in Frames |-> -1] /\ timely = TRUE
    /\ heard = -2   \* no voice is from before the silence it begins with

-----------------------------------------------------------------------------
(* schedule_delivery: timestamps *)

\* What iax_header_to_event or iax_miniheader_to_event reads in the frame
Received(f) ==
    IF f \in Full THEN TS[f] ELSE ReadMini(TS[f], last_ts)

\* last_ts once the header has been read: frames of type IAX move it forward
last(f) ==
    IF Type[f] = "iax" /\ TS[f] > last_ts THEN TS[f] ELSE last_ts

Stamp(f) == unwrap_timestamp(Received(f), last(f))

Stamped == {f \in Frames : stamp[f] # -1}

\* Is f from less than 15536 ms before or after the latest that was stamped?
Close(f) ==
    \E t \in {0} \cup {TS[g] : g \in Stamped} :
        /\ \A g \in Stamped : TS[g] <= t
        /\ TS[f] - t < HalfMod - Jump /\ t - TS[f] < HalfMod - Jump

-----------------------------------------------------------------------------
(* History of the delays *)

Bigger(x, y) == IF x > y THEN x ELSE y
Smaller(x, y) == IF x < y THEN x ELSE y
Distance(x, y) == Bigger(x - y, y - x)

Delay(ts) == now - (ts - resync_offset)
Discontinuous(ts) ==
    Distance(Delay(ts), last_delay) > 2 * jitter + resync_threshold

Record(ptr, delay) ==
    /\ history' = [history EXCEPT ![ptr % JB_HISTORY_SZ] = delay]
    /\ hist_ptr' = ptr + 1

\* Mutant: the delay that is overwritten is forgotten
UntouchedByNew(delay) ==
    LET worst == JB_HISTORY_MAXBUF_SZ - 1
    IN  /\ hist_maxbuf_valid
        /\ hist_ptr + 1 >= JB_HISTORY_SZ
        /\ delay >= hist_minbuf[worst] /\ delay <= hist_maxbuf[worst]

\* "the max/min buffers don't need to be recalculated, if this packet's entry
\* doesn't change them", nor that of the one it replaces
Untouched(delay) ==
    LET worst == JB_HISTORY_MAXBUF_SZ - 1
        kicked == history[hist_ptr % JB_HISTORY_SZ]
    IN  /\ hist_maxbuf_valid
        /\ hist_ptr + 1 >= JB_HISTORY_SZ
        /\ delay >= hist_minbuf[worst] /\ delay <= hist_maxbuf[worst]
        /\ kicked > hist_minbuf[worst] /\ kicked < hist_maxbuf[worst]

\* history_put for a voice frame, if it returns 0
Measure(ts) ==
    \/ /\ ts <= 0
       /\ UNCHANGED <<ring, hist_maxbuf_valid, delays>>
    \/ /\ ts > 0 /\ ~Discontinuous(ts)
       /\ last_delay' = Delay(ts) /\ cnt_delay_discont' = 0
       /\ Record(hist_ptr, Delay(ts))
       /\ hist_maxbuf_valid' = Untouched(Delay(ts))
       /\ UNCHANGED resync_offset
    \/ /\ ts > 0 /\ Discontinuous(ts) /\ cnt_delay_discont = MaxDiscont
       /\ last_delay' = 0 /\ cnt_delay_discont' = 0
       /\ resync_offset' = ts - now
       /\ Record(0, 0)
       /\ hist_maxbuf_valid' = FALSE

\* The entries with index in 0 .. Count - 1 are of frames
Count == Smaller(hist_ptr, JB_HISTORY_SZ)

\* x is the n-th of the history in an order in which those of "before" precede it
Nth(n, x, before) ==
    LET same == {i \in 0 .. Count - 1 : history[i] = x}
    IN  /\ Cardinality(before) < n
        /\ n <= Cardinality(before \cup same)
Greatest(n, x) == Nth(n, x, {i \in 0 .. Count - 1 : history[i] > x})
Least(n, x) == Nth(n, x, {i \in 0 .. Count - 1 : history[i] < x})

\* What the insertion sorts of history_calc_maxbuf compute
MaxBuf ==
    [j \in 0 .. JB_HISTORY_MAXBUF_SZ - 1 |->
        IF \E i \in 0 .. Count - 1 : Greatest(j + 1, history[i])
        THEN CHOOSE x \in {history[i] : i \in 0 .. Count - 1} :
                 Greatest(j + 1, x)
        ELSE JB_LONGMIN]
MinBuf ==
    [j \in 0 .. JB_HISTORY_MAXBUF_SZ - 1 |->
        IF \E i \in 0 .. Count - 1 : Least(j + 1, history[i])
        THEN CHOOSE x \in {history[i] : i \in 0 .. Count - 1} : Least(j + 1, x)
        ELSE JB_LONGMAX]

history_calc_maxbuf ==
    IF hist_maxbuf_valid \/ hist_ptr = 0 THEN UNCHANGED cache
    ELSE /\ hist_maxbuf' = MaxBuf /\ hist_minbuf' = MinBuf
         /\ hist_maxbuf_valid' = TRUE

\* The worst JB_HISTORY_DROPPCT percent of the delays do not count
history_get ==
    LET index == Smaller((Count * JB_HISTORY_DROPPCT) \div 100,
                         JB_HISTORY_MAXBUF_SZ - 1)
    IN  /\ history_calc_maxbuf
        /\ min' = hist_minbuf'[index]
        /\ jitter' = hist_maxbuf'[index] - hist_minbuf'[index]

-----------------------------------------------------------------------------
(* The queue *)

\* Mutant: the place is looked for by the timestamp before resynchronization
Place_raw(k, ts) ==
    IF frames = <<>> \/ ts < frames[1].ts THEN k = 0
    ELSE /\ k > 0 /\ frames[k].ts <= ts + resync_offset'
         /\ \A j \in k + 1 .. Len(frames) : ts + resync_offset' < frames[j].ts

\* In front of the head, or behind the last frame that is not later
Place(k, ts) ==
    IF frames = <<>> \/ ts < frames[1].ts THEN k = 0
    ELSE /\ k > 0 /\ frames[k].ts <= ts
         /\ \A j \in k + 1 .. Len(frames) : ts < frames[j].ts

queue_put(f, ts) ==
    \E k \in 0 .. Len(frames) :
        /\ Place(k, ts - resync_offset')
        /\ frames' = InsertAt(frames, k + 1,
                              [data |-> f, ts |-> ts - resync_offset'])

\* A frame arrives, is given a timestamp and put into the jitter buffer
Arrives(f) ==
    /\ f \in Frames \ arrived
    /\ f \in Full => Full \cap (1 .. f - 1) \subseteq arrived
    /\ arrived' = arrived \cup {f}

Stamps(f) ==
    /\ stamp' = [stamp EXCEPT ![f] = Stamp(f)]
    /\ timely' = (timely /\ Close(f))
    /\ last_ts' = Bigger(last(f), Stamp(f))
    /\ voiceformat' = (voiceformat \/ Type[f] = "voice")

\* iax_miniheader_to_event: "No last format received"
ArriveTooSoon(f) ==
    /\ Arrives(f)
    /\ f \notin Full /\ ~voiceformat
    /\ freed' = freed \cup {f}
    /\ UNCHANGED <<now, session, ring, cache, frames, measured, target, playing,
                   delays, stamp, timely, handed, heard>>

\* jb_put returns JB_OK or JB_SCHED
ArriveQueued(f) ==
    /\ Arrives(f)
    /\ f \in Full \/ voiceformat
    /\ Stamps(f)
    /\ IF Type[f] = "voice" THEN Measure(Stamp(f))
       ELSE UNCHANGED <<ring, hist_maxbuf_valid, delays>>
    /\ queue_put(f, Stamp(f))
    /\ UNCHANGED <<now, hist_maxbuf, hist_minbuf, measured, target, playing,
                   output>>

\* Mutant: it resynchronizes one frame late
ArriveRefusedMore(f) ==
    /\ Arrives(f)
    /\ f \in Full \/ voiceformat
    /\ Stamps(f)
    /\ Type[f] = "voice" /\ Stamp(f) > 0 /\ Discontinuous(Stamp(f))
    /\ cnt_delay_discont <= MaxDiscont
    /\ cnt_delay_discont' = cnt_delay_discont + 1
    /\ freed' = freed \cup {f}
    /\ UNCHANGED <<now, ring, cache, frames, measured, target, playing,
                   last_delay, resync_offset, handed, heard>>

\* jb_put returns JB_DROP: the delay is not like that of the voice before
ArriveRefused(f) ==
    /\ Arrives(f)
    /\ f \in Full \/ voiceformat
    /\ Stamps(f)
    /\ Type[f] = "voice" /\ Stamp(f) > 0 /\ Discontinuous(Stamp(f))
    /\ cnt_delay_discont < MaxDiscont
    /\ cnt_delay_discont' = cnt_delay_discont + 1
    /\ freed' = freed \cup {f}
    /\ UNCHANGED <<now, ring, cache, frames, measured, target, playing,
                   last_delay, resync_offset, handed, heard>>

-----------------------------------------------------------------------------
(* jb_get *)

Silent == silence_begin_ts # 0

\* When the next frame is due
jb_next ==
    IF ~Silent THEN next_voice_ts
    ELSE IF frames = <<>> \/ frames[1].ts <= 0 THEN JB_LONGMAX
    ELSE IF target - current < -target_extra
         THEN last_adjustment + ShrinkSilent
    ELSE frames[1].ts + target

\* What to do next depends on how far the delay is from what it should be
diff == target' - current

head == frames[1]
IsVoice == Type[head.data] = "voice"
queue_get(ts) == frames # <<>> /\ ts >= head.ts

\* In the sender's time, what is to be played next
Wanted == next_voice_ts - current

\* JB_OK.  A silence that is handed over may begin before a voice heard already,
\* and voices from then on be heard after it.
HandOver ==
    /\ handed' = handed \cup {head.data}
    /\ frames' = Tail(frames)
    /\ heard' = CASE IsVoice -> head.ts
                  [] Type[head.data] = "silence" /\ ~Silent ->
                       Smaller(heard, head.ts - 1)
                  [] OTHER -> heard
    /\ UNCHANGED freed

\* JB_DROP
Drop ==
    /\ freed' = freed \cup {head.data}
    /\ frames' = Tail(frames)
    /\ UNCHANGED <<handed, heard>>

\* JB_NOFRAME or JB_INTERP
Nothing == UNCHANGED <<frames, output>>

MustGrow ==
    /\ diff > 0
    /\ \/ last_adjustment + JB_ADJUST_DELAY < now
       \/ diff > IF frames = <<>> THEN 0 ELSE frames[Len(frames)].ts - head.ts

\* "shrink at 1 frame / 500ms unless we don't have a frame"
MayShrink(pause) == diff < -target_extra /\ last_adjustment + pause < now

Grow ==
    /\ ~Silent /\ MustGrow
    /\ current' = current + interpl
    /\ next_voice_ts' = next_voice_ts + interpl
    /\ last_voice_ms' = interpl
    /\ last_adjustment' = now
    /\ Nothing
    /\ UNCHANGED silence_begin_ts

Get(found) == ~Silent /\ ~MustGrow /\ queue_get(Wanted) = found

GetOther ==
    /\ Get(TRUE) /\ ~IsVoice
    /\ silence_begin_ts' =
          IF Type[head.data] = "silence" THEN head.ts ELSE silence_begin_ts
    /\ HandOver
    /\ UNCHANGED <<current, next_voice_ts, last_voice_ms, last_adjustment>>

\* Mutant: no frame is too late
GetAnyEarly ==
    /\ Get(TRUE) /\ IsVoice
    /\ head.ts < Wanted
    /\ next_voice_ts' = head.ts + current + ms
    /\ HandOver
    /\ UNCHANGED <<current, last_voice_ms, silence_begin_ts, last_adjustment>>

\* "either we interpolated past this frame in the last jb_get or the frame is
\* still in order, but came a little too quick"
GetEarly ==
    /\ Get(TRUE) /\ IsVoice
    /\ head.ts < Wanted /\ head.ts > Wanted - last_voice_ms
    /\ next_voice_ts' = head.ts + current + ms
    /\ HandOver
    /\ UNCHANGED <<current, last_voice_ms, silence_begin_ts, last_adjustment>>

GetLate ==
    /\ Get(TRUE) /\ IsVoice
    /\ head.ts <= Wanted - last_voice_ms
    /\ Drop
    /\ UNCHANGED playing

\* Mutant: whatever comes is thrown away
ShrinkByAny ==
    /\ Get(TRUE) /\ head.ts = Wanted
    /\ MayShrink(ShrinkVoice)
    /\ current' = current - ms
    /\ last_voice_ms' = ms
    /\ last_adjustment' = now
    /\ Drop
    /\ UNCHANGED <<next_voice_ts, silence_begin_ts>>

ShrinkByVoice ==
    /\ Get(TRUE) /\ IsVoice /\ head.ts = Wanted
    /\ MayShrink(ShrinkVoice)
    /\ current' = current - ms
    /\ last_voice_ms' = ms
    /\ last_adjustment' = now
    /\ Drop
    /\ UNCHANGED <<next_voice_ts, silence_begin_ts>>

\* Mutant: the frame stays in the queue
GetVoiceAgain ==
    /\ Get(TRUE) /\ IsVoice /\ head.ts = Wanted
    /\ ~MayShrink(ShrinkVoice)
    /\ next_voice_ts' = next_voice_ts + ms
    /\ last_voice_ms' = ms
    /\ handed' = handed \cup {head.data}
    /\ heard' = head.ts
    /\ UNCHANGED <<frames, freed, current, silence_begin_ts, last_adjustment>>

GetVoice ==
    /\ Get(TRUE) /\ IsVoice /\ head.ts = Wanted
    /\ ~MayShrink(ShrinkVoice)
    /\ next_voice_ts' = next_voice_ts + ms
    /\ last_voice_ms' = ms
    /\ HandOver
    /\ UNCHANGED <<current, silence_begin_ts, last_adjustment>>

MayShrinkEmpty == MayShrink(Smaller(ShrinkEmpty, ShrinkVoice))

Shrink ==
    /\ Get(FALSE)
    /\ MayShrinkEmpty
    /\ current' = current - last_voice_ms
    /\ last_adjustment' = now
    /\ Nothing
    /\ UNCHANGED <<next_voice_ts, last_voice_ms, silence_begin_ts>>

\* "lost frame"
Interpolate ==
    /\ Get(FALSE)
    /\ ~MayShrinkEmpty
    /\ next_voice_ts' = next_voice_ts + interpl
    /\ last_voice_ms' = interpl
    /\ Nothing
    /\ UNCHANGED <<current, silence_begin_ts, last_adjustment>>

\* In silence: current shrinks before a frame is looked for
Shrinks == diff < -target_extra /\ last_adjustment + ShrinkSilent <= now
ShrunkBy == IF Shrinks THEN interpl ELSE 0

GetSilent(found) ==
    /\ Silent
    /\ queue_get(now - (current - ShrunkBy)) = found
    /\ last_adjustment' = IF Shrinks THEN now ELSE last_adjustment

SilentStays ==
    /\ current' = current - ShrunkBy
    /\ UNCHANGED <<next_voice_ts, last_voice_ms, silence_begin_ts>>

SilentNone == GetSilent(FALSE) /\ Nothing /\ SilentStays

SilentOther == GetSilent(TRUE) /\ ~IsVoice /\ HandOver /\ SilentStays

SilentLate ==
    /\ GetSilent(TRUE) /\ IsVoice /\ head.ts < silence_begin_ts
    /\ Drop
    /\ SilentStays

\* The end of the silence
SilentVoice ==
    /\ GetSilent(TRUE) /\ IsVoice /\ head.ts >= silence_begin_ts
    /\ HandOver
    /\ current' = target'
    /\ next_voice_ts' = head.ts + target' + ms
    /\ last_voice_ms' = ms
    /\ silence_begin_ts' = 0

-----------------------------------------------------------------------------

\* iax_get_event, for a session whose next frame is due
jb_get ==
    /\ now > jb_next
    /\ history_get
    /\ target' = jitter' + min' + target_extra
    /\ \/ Grow \/ GetOther \/ GetEarly \/ GetLate
       \/ ShrinkByVoice \/ GetVoice \/ Shrink \/ Interpolate
       \/ SilentNone \/ SilentOther \/ SilentLate \/ SilentVoice
    /\ UNCHANGED <<now, session, ring, delays, input>>

\* iax_send_pong and iax_get_netstats ask for the statistics
jb_getinfo ==
    /\ history_get
    /\ UNCHANGED <<now, session, ring, frames, target, playing, delays, input,
                   output>>

Tick ==
    /\ now < MaxNow
    /\ now' = now + 1
    /\ UNCHANGED <<session, ring, cache, frames, measured, target, playing,
                   delays, input, output>>

Next ==
    \/ \E f \in Frames : ArriveTooSoon(f) \/ ArriveQueued(f) \/ ArriveRefused(f)
    \/ jb_get \/ jb_getinfo \/ Tick

Spec == Init /\ [][Next]_vars

-----------------------------------------------------------------------------
(* Properties *)

\* The frames of the queue are in the order of their timestamps, although
\* resynchronization changes what is subtracted from the timestamps while frames
\* are queued.
Sorted == \A i, j \in DOMAIN frames : i < j => frames[i].ts <= frames[j].ts

\* The event of each frame that arrived is in the queue once, or was handed to
\* the application, or was freed: none is lost, none used again.
Queue == {frames[i].data : i \in DOMAIN frames}
EachOnce ==
    /\ Cardinality(Queue) = Len(frames)
    /\ Queue \cup handed \cup freed = arrived
    /\ Queue \cap handed = {} /\ Queue \cap freed = {} /\ handed \cap freed = {}

\* Whatever the delays, the jitter buffer drops no frame that is not voice: the
\* hanging up of a call goes through it.
OnlyVoiceDropped == \A f \in freed : Type[f] = "voice"

\* A voice is handed over only if it is later than those before it ("timestamp
\* roll-back" in jb_get), except that a silence that arrives late takes the
\* buffer back to its beginning.
VoiceInOrder ==
    [][\A f \in handed' \ handed : Type[f] = "voice" => head.ts > heard]_vars

\* The buffers of the longest and shortest delays need not be calculated again
\* as long as they are said to be valid.
CacheFresh ==
    hist_maxbuf_valid => hist_maxbuf = MaxBuf /\ hist_minbuf = MinBuf

\* As long as each frame comes within 15.5 s of the latest before it, mini frames
\* get back the half of the timestamp that was not sent, across the wrap-around
\* and in any order.
StampsRight ==
    timely => /\ \A f \in Stamped : stamp[f] = TS[f]
              /\ \A f \in Stamped : TS[f] <= last_ts

=============================================================================
