----------------------------- MODULE SendVoice -----------------------------
(***************************************************************************)
(* The timestamps of what one session sends: send_encoded_audio, which     *)
(* makes a comfort noise frame of the first silence, calc_timestamp, which *)
(* predicts the time of the next voice and lets the clock of the session   *)
(* follow the sound card, and the choice of iax_send between mini and full *)
(* frames.  The peer reads them as JitterBuf does.                         *)
(*                                                                         *)
(* A step is a millisecond, a frame of the microphone, or a frame of type  *)
(* IAX.  The sound card may give frames at any pace: several in a burst    *)
(* after a delay, or too fast, or too slow.  The peer has got all that was *)
(* sent before; JitterBuf says what becomes of delays and losses.          *)
(*                                                                         *)
(* An operator marked "Mutant" is a plausible mistake in the operator that *)
(* follows, used by no specification.                                      *)
(***************************************************************************)
EXTENDS Unwrap

CONSTANTS
    Frame,                \* 20: a voice frame in ms, f->samples / 8
    Window,               \* 240: how far a prediction may be off
    Damp,                 \* 10: the part of it by which the clock is moved
    Gap,                  \* 3: between frames that have no time of their own
    FirstPing, PingEvery, \* 2 s, 10 s
    Late,                 \* iax_get_event is called so often
    MaxElapsed            \* bound: the end of time

\* Voice in frames of 20 ms, as of every codec fgcom offers: the clock follows
\* before the prediction is given up, and a frame is enough to set it going.
ASSUME FrameAssumption ==
    /\ Frame \in Nat \ {0} /\ Damp \in 2 .. Frame /\ Window \in Nat
    /\ Gap \in Nat \ {0}
    /\ Damp * Frame <= Window
\* A ping comes well before a timestamp could be taken for one of another round
ASSUME PingAssumption ==
    /\ FirstPing \in 0 .. PingEvery /\ PingEvery \in Nat /\ Late \in Nat
    /\ PingEvery + Late + Frame < HalfMod - Jump
    /\ (3 * Window) + (3 * Gap) < HalfMod - Jump
ASSUME EndAssumption ==
    MaxElapsed \in Nat /\ MaxElapsed + (3 * Window) + (3 * Gap) < IntMod

VARIABLES
    elapsed,              \* the clock less session->offset, never negative
    lastsent, nextpred, notsilenttx,
    svoiceformat,         \* has a voice been sent as a full frame?
    tx_silent,            \* of the call
    next_ping,            \* until send_ping is due
    last_ts,              \* of the peer
    \* history
    spoken,               \* when the last voice was sent, -1 before
    understood            \* has the peer given each the time it was sent?

stamps == <<lastsent, nextpred, notsilenttx, svoiceformat>>
peer == <<last_ts, understood>>
vars == <<elapsed, stamps, tx_silent, next_ping, peer, spoken>>

\* Whole voice frames, "so our silent periods are multiples of frame size too"
Whole(ts) == ts % Frame = 0

TypeOK ==
    /\ elapsed \in Nat
    /\ lastsent \in Nat
    /\ nextpred \in Nat /\ Whole(nextpred)
    /\ notsilenttx \in BOOLEAN /\ svoiceformat \in BOOLEAN
    /\ tx_silent \in BOOLEAN
    /\ next_ping \in -Late .. PingEvery
    /\ last_ts \in Nat
    /\ spoken \in Nat \cup {-1} /\ (spoken # -1 => Whole(spoken))
    /\ understood \in BOOLEAN

\* The NEW has been sent, at Gap, since the clock was still at 0.  tx_silent is
\* what the last call in the appearance has left.
Init ==
    /\ elapsed = 0
    /\ lastsent = 0 /\ nextpred = 0 /\ notsilenttx = FALSE
    /\ svoiceformat = FALSE
    /\ tx_silent \in BOOLEAN
    /\ next_ping = FirstPing
    /\ last_ts = Gap
    /\ spoken = -1 /\ understood = TRUE

-----------------------------------------------------------------------------
(* calc_timestamp *)

Bigger(x, y) == IF x > y THEN x ELSE y
Distance(x, y) == Bigger(x - y, y - x)

\* The prediction stands: no silence has been sent, and the clock is near
Predicted == notsilenttx /\ Distance(elapsed, nextpred) <= Window

\* Division in C
Quotient(x) == IF x >= 0 THEN x \div Damp ELSE -((-x) \div Damp)

\* Mutant: the clock does not follow the sound card
ElapsedFixed == elapsed

\* add_ms: the clock of the session is moved towards the prediction
ElapsedAfter ==
    IF Predicted THEN elapsed - Quotient(elapsed - nextpred) ELSE elapsed

\* Mutant: the end of a silence is not rounded
VoiceStampUnrounded ==
    IF ~Predicted THEN elapsed
    ELSE IF nextpred = 0 THEN elapsed ELSE nextpred

VoiceStamp ==
    IF ~Predicted THEN ((elapsed + Frame - 1) \div Frame) * Frame
    ELSE IF nextpred = 0 THEN elapsed ELSE nextpred

\* Mutant: it follows the last frame, however long ago that was
GenuineStampStuck == lastsent + Gap

\* A frame of type IAX has the time itself, if it is after the last frame
GenuineStamp == IF elapsed <= lastsent THEN lastsent + Gap ELSE elapsed

\* Comfort noise follows the last frame, if that was just sent
NoiseStamp ==
    IF Distance(elapsed, lastsent) <= Window THEN lastsent + Gap ELSE elapsed

-----------------------------------------------------------------------------
(* iax_send, and what the peer makes of it *)

Mini(ts) == svoiceformat /\ Block(ts) = Block(lastsent)

\* A frame that schedule_delivery of the peer stamps; read is what it sees of ts
Stamped(ts, read) ==
    LET stamp == unwrap_timestamp(read, last_ts)
    IN  /\ last_ts' = Bigger(last_ts, stamp)
        /\ understood' = (understood /\ stamp = ts)

Genuine ==
    /\ last_ts' = Bigger(last_ts, GenuineStamp)
    /\ UNCHANGED <<elapsed, stamps, tx_silent, spoken, understood>>

\* "timestamp is 0?": the frame is refused
SendVoiceFrame(ts) ==
    \/ /\ ts = 0
       /\ UNCHANGED <<svoiceformat, peer, spoken>>
    \/ /\ ts # 0
       /\ Stamped(ts, IF Mini(ts) THEN ReadMini(ts, last_ts) ELSE ts)
       /\ svoiceformat' = TRUE
       /\ spoken' = ts

-----------------------------------------------------------------------------

\* A frame of the microphone that is not silent
Voice ==
    /\ VoiceStamp <= MaxElapsed
    /\ tx_silent' = FALSE
    /\ elapsed' = ElapsedAfter
    /\ lastsent' = VoiceStamp
    /\ nextpred' = VoiceStamp + Frame
    /\ notsilenttx' = TRUE
    /\ SendVoiceFrame(VoiceStamp)
    /\ UNCHANGED next_ping

\* It is not sent: the call has no format yet, or the encoder fails
VoiceUnsent ==
    /\ tx_silent' = FALSE
    /\ UNCHANGED <<elapsed, stamps, next_ping, peer, spoken>>

\* The first silent frame after voice.  Only a threshold makes a frame silent
\* (iaxc_set_silence_threshold), which the clients of simpleclient/ set and fgcom
\* does not: its steps are those without this one.
Silence ==
    /\ ~tx_silent
    /\ tx_silent' = TRUE
    /\ notsilenttx' = FALSE
    /\ lastsent' = NoiseStamp
    /\ Stamped(NoiseStamp, NoiseStamp)
    /\ UNCHANGED <<elapsed, nextpred, svoiceformat, next_ping, spoken>>

\* send_ping
Ping ==
    /\ next_ping <= 0
    /\ next_ping' = PingEvery
    /\ Genuine

\* VNAK or AUTHREP; what repeats a timestamp of the peer (PONG, LAGRP, ACK) moves
\* nothing on either side
Command ==
    /\ Genuine
    /\ UNCHANGED next_ping

Tick ==
    /\ elapsed < MaxElapsed
    /\ next_ping > -Late
    /\ elapsed' = elapsed + 1
    /\ next_ping' = next_ping - 1
    /\ UNCHANGED <<stamps, tx_silent, peer, spoken>>

Next == Voice \/ VoiceUnsent \/ Silence \/ Ping \/ Command \/ Tick

Spec == Init /\ [][Next]_vars

-----------------------------------------------------------------------------
(* Properties *)

\* In a row of voice each frame has a later timestamp than the one before,
\* whatever the pace of the sound card.  The first voice after comfort noise may
\* be from before the last (calc_timestamp takes the clock as it is), but by less
\* than Damp frames.
VoiceForward ==
    [][Voice => IF notsilenttx THEN spoken' > spoken
                ELSE spoken' > spoken - (Damp * Frame)]_vars

\* The peer comes to the timestamp each frame was sent with, although of most it
\* gets the lower half only (iax_send, unwrap_timestamp), and although the first
\* frame with a new upper half may be a ping or comfort noise.
Understood == understood

=============================================================================
