# fgcom: a verification development

TLA+ models of the parts of fgcom that decide what happens and when, the TLC
runs that check them, and proofs of what matters most. fgcom is the radio of
the FlightGear simulator: it turns frequencies, positions and the
push-to-talk key into telephone calls, which its IAX2 client library
(iaxclient over libiax2) carries over UDP. Paths below are relative to
`src/`, the root of the repository.

## Inventory

| Component | Source | State | Operations | Model |
|---|---|---|---|---|
| Radio | `src/fgcom.cpp` | `connected`, `selected_frequency`, `com_select`, `previous_ptt`, levels | `process_packet`, `alarm_handler`, `ptt`, `event_state`, `quit` | `Fgcom` |
| Call appearances | `iaxclient/lib/iaxclient_lib.c` | `calls`, `selected_call` | `iaxc_call`, `iaxc_dump_call`, `iaxc_select_call`, network events | `Fgcom`, `Sessions` |
| Lock and event queue | same | `iaxc_lock`, `iaxc_locked`, `event_queue` | `get_iaxc_lock`, `put_iaxc_lock`, `iaxc_post_event`, `quit` in a signal handler | `IaxcLock` |
| Registrations | same | `registrations` | register, refresh each minute, reply | `Sessions` |
| Transport | `iaxclient/lib/libiax2/src/iax.c` | `oseqno`, `rseqno`, `iseqno`, `aseqno`, `schedq` | send, acknowledge, retransmit, VNAK, hang up | `IaxTransport`, `Vnak` |
| Session memory | same | `sessions`, `schedq`, jitter buffer | `iax_session_new`, `destroy_session`, timers | `Sessions` |
| Jitter buffer | `libiax2/src/jitterbuf.c` | history, queue | put, get, resynchronise | `JitterBuf` |
| Timestamps | `iax.c` | `offset`, `lastsent`, `nextpred`, `last_ts` | `calc_timestamp`, mini or full frame, `unwrap_timestamp` | `SendVoice`, `Unwrap`, `JitterBuf` |
| Airports | `src/position.cpp`, `utils.cpp` | list of airports | `icaobypos`, `icao2number` | a constant and an operator of `Fgcom` |
| Options | `fgcom_init.cpp`, `fgcom_getopt.c` | parsed once | | not modelled |
| Audio | `audio_*.c` | `tx_silent`, devices | `send_encoded_audio`, signal processing | what is sent and when in `SendVoice`, else not |
| Codecs, video | `codec_*.c`, `video.c` | | | not modelled |
| IEs, MD5, platform layer | `iax2-parser.c`, `md5.c`, `unixfuncs.c`, `winfuncs.c` | none | encoding, time | not modelled |
| Dial plan scripts | `server/*.pl` | none | text to text | not modelled |
| Vendored libraries, demos | portaudio, speex, gsm, ... | | | not modelled |

How they interact. Two threads run. The *main thread* of fgcom waits in
`select` for a packet of the simulator or for the 15 second alarm, and calls
`iaxc_*`, each of which takes `iaxc_lock`. The *processing thread* of
iaxclient loops over `iax_get_event` (a due timer, a datagram, or a delivery)
under the same lock, and calls fgcom back when a call changes state, after the
lock is released. The callback writes `connected`, an ordinary variable the
main thread reads and writes too. Below, a session is referred to by address
from a call appearance, from the registration, and from frames and timers in
`schedq`, which outlive it. What a session receives waits in its jitter buffer,
control frames too, until `iax_get_event` finds it due.

What is hard. The order of callbacks and of the steps of a handler, across two
sleeps (500 ms after hanging up, 100 ms after dialling); a network that loses,
duplicates and reorders; counters of one byte; retries racing
acknowledgements; sessions freed by four different parties while timers still
point to them; a list of events that is not quite protected by its mutex; a
signal handler that takes locks; a playout clock that grows, shrinks and
resynchronises while frames wait; timestamps predicted ahead of a clock that is
itself moved, of which most frames carry half.

What makes each correct. Radio: at most one call, on the frequency selected;
dialled again when it ends; hung up out of range; the microphone closed while
the key is up. Transport: frames handed over once and in order, none given up
while its session lives, and both ends learn of the end. Session memory: every
pointer is to a session of its own until a POKE frees it, and every session let
go is destroyed, at once or by the final frame that waits to be sent again.
Lock: one thread inside, callbacks outside, each event called back once.
Jitter buffer: each frame handed over or freed once, no control frame dropped,
voice in order, timestamps as sent. Sender: timestamps of voice grow, and the
peer can complete each half.
`PROJECT.json` lists the hazards line by line.

## Modules

Each module says at its top what a step is. Definitions have the names of the
code where there is one; `map` in `PROJECT.json` gives the lines of each.
Operators marked *Mutant* are deliberate mistakes, used by no specification:
substituted for the operator after them, they show which property notices.

- **`IaxTransport`**: two `iax_session`s, `schedq` and the network. `Send`,
  `SendPing`, `AppHangup` are the sending API; `Reap`, `Retransmit`,
  `Timeout` the three things `iax_get_event` does with a due frame; `Receive`
  is `iax_header_to_event`, with the implicit acknowledgement window first,
  then an ACK, a VNAK, the next frame, or one out of order; `Disconnect` is
  `iax_event_free` of a HANGUP. `SendFinal` has both ways out of
  `send_command_final`: the HANGUP is sent and the session destroyed, or
  `sendto` failed and the session, which iaxclient has let go of, lives on
  (`Closing`) with the HANGUP in `schedq`: it is sent again until it is
  acknowledged or out of retries (`EndFinal`), and other frames out of retries
  are dropped unheard (`TimeoutUnheard`). `sent`, `delivered` and `acked` are
  history.
- **`ReliableLink`**: the promise, without counters, timers or network.
  `IaxTransport` implements it under the mapping `Link`.
- **`Vnak`**: the order in which `iax_handle_vnak` sends frames again;
  `IaxTransport` has them as a set. The walk along `schedq` is the recursive
  function `Collected`.
- **`Fgcom`**: the main thread as a program counter through the handlers
  (`Packet` or `Alarm`, then `Dump`, `HungUp`, `Dial`, `Connected`, `PttKey`),
  one step between points where the other thread can interfere, and the
  processing thread (`CallEnds`, `CallComesIn`, `Callback`). `pending` counts
  the state-0 events not yet called back.
- **`Sessions`**: addresses. `iax_session_new` and `destroy_session` are the
  memory; every action that makes, frees, or points to a session uses them.
  `send_command_final` keeps the session if `sendto` fails; `Reap` or
  `FinalTimeout` of its final frame destroys it then. A POKE takes a session
  that is made for it, or the one whose call numbers it has: `poked` is
  history, set when that one is still pointed to by a call or the registration.
  `HearReply` is any event of the registration's session, one without event
  too, for which `iax_get_event` leaves the session field unset. Of what waits
  in a jitter buffer only a connect and a hangup are kept: all else is the same
  for memory. A pointer carries the number of the session it was made for, as
  history.
- **`IaxcLock`**: three contexts (two threads and `quit` on top of one), the
  mutex with an owner, and the linked list node by node: each access to
  `iaxc_locked`, `event_queue` or a node is a step (`Post`, `Walk`, `Link`,
  `Callback`; `Take`, `Clear`, `SetUnlocked`, `Unlock`, `Deliver`, `Free`).
  The exception is `Link`: a node is made, linked and filled in
  (`iaxclient_lib.c:209` to `211`) by one step, so no context sees a node that
  is linked and not filled in yet.
  Undefined behaviour is kept: `malloc` hands freed nodes out again, an access
  to one that is still free ends the program, a destroyed mutex excludes
  nobody. `raced` is history: has a context changed the list while another was
  at it?
- **`JitterBuf`**: from a datagram with a timed frame to the application, of
  one session. `ArriveQueued` and its two alternatives are
  `schedule_delivery` and `jb_put`; `jb_get` has a disjunct for each way out
  of `_jb_get` (`Grow` to `SilentVoice`). What the peer sends is a constant;
  when and in which order it arrives is left open. The insertion sorts of
  `history_calc_maxbuf` are their result, the n-th greatest and least.
- **`Unwrap`**: the arithmetic of the halves of a timestamp, which both ends
  share: what is read in a mini frame, and `unwrap_timestamp`.
- **`SendVoice`**: what one session sends, with the microphone at any pace.
  `elapsed` is the clock less `session->offset`, which `add_ms` moves towards
  the prediction. `Voice`, `VoiceUnsent` and `Silence` are the ways through
  `send_encoded_audio`; `Ping` and `Command` frames of type IAX; `Stamped` is
  what the peer makes of a frame. `spoken` and `understood` are history.
- **`MCIaxTransport`, `MCFgcom`, `MCSessions`, `MCJitterBuf`**: values for TLC.
- **`IaxTransportProofs`, `FgcomProofs`, `SessionsProofs`, `IaxcLockProofs`,
  `JitterBufProofs`, `UnwrapProofs`, `SendVoiceProofs`, `VnakProofs`**: the
  proofs.

## Runs

| Run | Asks | Result |
|---|---|---|
| `transport_wrap` | five frames with four sequence numbers: types, order, acknowledgements, nothing forgotten | holds |
| `transport_live` | both sides send, replies acknowledge: is `ReliableLink` implemented, is a frame accepted or a session ended, do both sides learn of the end? | holds |
| `vnak_set` | every unacknowledged frame once, none for a stale VNAK, in order unless the window wraps | holds |
| `fgcom_calls` | one call, on frequency, selected, hung up out of range; microphone closed after a release | holds |
| `fgcom_reconnect` | a call that ended is dialled again; none is overwritten | holds |
| `fgcom_quick_end` | the same, with a server that ends calls within 100 ms | refuted |
| `sessions_owned` | until a POKE frees a session in use: pointers valid, retransmissions on the right session; at any time: nothing leaked | holds |
| `sessions_reuse` | "If final, destroy the session": is it the frame's own? | refuted |
| `lock_queue` | the lock excludes, callbacks come once and outside it, events are lost by a race only, and the queue drains | holds |
| `lock_quit` | "Ctrl+C to exit the application": whatever the thread is doing? | refuted |
| `jitter_buffer` | each frame once, no control frame dropped, voice in order, timestamps as sent, queue sorted, cache fresh | holds |
| `send_voice` | does the peer come to each timestamp sent, and do those of voice grow, at any pace of the sound card? | holds |

Each refuted run checks one sentence of the source, quoted under `findings`:

- `connected = 1` (`fgcom.cpp:225`, `628`) follows a sleep of 100 ms and can
  overwrite the `connected = 0` of `event_state`: no automatic reconnect.
- A final frame reaped after its session was freed destroys whatever session
  has the address now.
- `quit` takes `iaxc_lock` in a signal handler; if the thread below it has the
  lock, the program hangs.

Some traits of the code have no run of their own, for no sentence of the source
promises otherwise or a property states the part that holds:

- A key released when there is no call leaves microphone and speaker as they
  were, so that the microphone is open on the next call; one held into a
  special frequency leaves the speaker muted after its release.
  `ListensWhenReleased` is what holds in every other case.
- `iax_handle_vnak` sorts by differences of ints, which wrap: frames of a
  window across 255 and 0 are sent again in the wrong order.
  `AscendingUnwrapped` is what holds, `ResendsUnacked` says that none is left
  out all the same.
- `put_iaxc_lock` puts an event back into the queue, without the mutex, if the
  other thread has taken the lock in between. Only then can an event be lost
  or a freed node be used (`LostOnlyByRace`).
- In silence, a frame whose timestamp is not positive after resynchronisation
  keeps everything behind it in the queue (`jitterbuf.c:748`).
- The first voice after comfort noise takes the clock as it is
  (`iax.c:627` to `642`): after a burst it may be stamped up to 180 ms before
  the voice already sent. `VoiceForward` says that it is never more than that,
  and that within a row of voice timestamps grow.
- `tx_silent` belongs to the appearance (`audio_encode.c:263`) and survives a
  call: the first silence of the next one may send no comfort noise.

- A POKE with the call numbers of a session in use is answered and the session
  destroyed (`iax.c:1539` to `1544`); nobody tells iaxclient, which goes on
  sending through its pointer. `PointersValid` and `RetransmitsOnOwn` say that
  nothing but such a POKE frees a session under iaxclient.
- fgcom sets `connected` after `iaxc_call` without looking at what it returned.
  If all appearances are taken by others, it believes it has a call; no
  property covers that, for `MaxIncoming` leaves an appearance free.

A related trait of the code is no error: `destroy_session` marks the HANGUP
just sent as acknowledged, so it is sent once only. `PeerLearns` shows what
saves the other side when it is lost: its own pings time out. Only a HANGUP
that `sendto` refused is sent again, up to `maxretries` times, for
`send_command_final` keeps its session (`iax.c:1215`). `NoneLeaked` says that
this session is not kept for ever.

### Bounds, and why they are enough

- *Transport*: `SeqMod` 4 in place of 256, so that five frames wrap around;
  `Window` 2, the largest with `Window < SeqMod - 1`; one retry, which is the
  first and the last; at most two datagrams in flight, enough for a stale one
  to meet a fresh one. `Failing` bounds whose `sendto` may fail on a final
  frame: both ends' in `transport_wrap`, one end's in `transport_live`, where
  both ends send alike. The proofs have no such bound.
- *Vnak*: modulus 8, three unacknowledged frames and two stale ones, every
  order of `schedq`, every position of the window.
- *Fgcom*: two towers at two places, a third place out of range of both, a
  special frequency, two radios (four in the code; the cycle is the same),
  both appearances of `DEFAULT_MAX_CALLS`, two calls ended by the other side,
  two or three callbacks under way, one incoming call in `fgcom_reconnect`.
- *Sessions*: three addresses, two appearances, three sessions ever made: one
  of each kind, or a call, its successor, and the registration.
  `sessions_reuse` needs two addresses only. Addresses are symmetric, and so
  are appearances.
- *IaxcLock*: two events (the second can meet the first in the list, in
  delivery or in a callback), six nodes, of which `malloc` takes the first
  that is free, three times in the lock for the main thread, a signal at any
  step of either thread. A program that is told to quit posts one event only.
- *JitterBuf*: a scale of 2 for the 20 ms of a voice frame, 8 for 2^16, 16 for
  2^32. Eight frames reach the wrap-around of mini frames, a silence and its
  end, a control frame among voice, and a timestamp far off; a history of two
  delays wraps around too; one strange delay is refused before the next
  resynchronises (3 in the code). With six steps of the clock every disjunct of
  `jb_get` occurs. Settings that are multiples of the frame length in the code
  are so here, as far as comparisons tell them apart.
- *SendVoice*: frames of 2 in place of 20 ms, a part of 2 in place of 10, a
  window of 4 in place of 240; halves of 34 with 18 in place of 65536 with
  50000, and a ping every 10 and up to 3 late. Time ends at 46, after the upper
  half has changed once and another ping has been sent.

### Assumptions on the environment

- `Fresh` (transport): a datagram is not delayed so long that the peers have
  moved on by half the counter's range. UDP does not promise it and the code
  does not check it: one-byte sequence numbers cannot do without it. `Window`
  is likewise a bound on the application, not on the code.
- `SleepDrains` (Fgcom): callbacks under way are done when a sleep ends. The
  sleeps (`fgcom.cpp:211`, `1346`) exist for it. `fgcom_reconnect` drops it
  and reconnecting survives; `OneCall` does not.
- `QuickEnd` (Fgcom): may the server end a call within 100 ms of its dialling?
- `Reuse` (Sessions): may malloc return an address a final frame points to?
  The two `Sessions` runs and the conditional theorems are about this switch.
- `Sessions`: `malloc` does not fail, and freed memory keeps its contents until
  it is handed out again, which is what a call reads whose session a POKE freed.
- `MaxIncoming = 0` in `fgcom_calls`: the state-0 callback of an incoming call
  clears `connected` while fgcom's own call is up, so one-call properties hold
  only when nobody calls in.
- `IaxcLock`: the callback is fgcom's, which returns 1 and does not
  call iaxclient; `exit` ends the program.
- `JitterBuf`: voice frames of a call are of one length, no shorter than one
  made up in its place; full frames arrive in the order sent, which `InOrder`
  of `IaxTransport` shows. `timely` in `StampsRight`: a frame comes less than
  15.5 s before or after the latest before it; beyond that half a timestamp
  does not say which round it is from. `SettingsAssumption`: the entries
  `history_calc_maxbuf` starts from are beyond every delay (`jitterbuf.c:22`,
  `23`).
- `SendVoice`: the clock of the machine is not set back; the processing thread
  runs `iax_get_event` often enough that a ping is less than 5 s late; the peer
  has got what was sent before (of losses and delays `JitterBuf` has the rest).
  `FrameAssumption`: ten frames are no longer than the 240 ms of the window,
  and a frame is at least 10 ms; all codecs fgcom can choose have frames of
  20 ms (`codec_*.c`, `minimum_frame_size`). fgcom never sets a silence
  threshold, so its behaviours are those without `Silence`; the other clients
  of iaxclient in the repository (`iaxclient/simpleclient`) do.

### Fairness

- `Fgcom!Fairness`: handlers run to their end, events are called back. The
  main loop looks at the alarm's deadline before it waits (`fgcom.cpp:523`
  to `553`), so packets cannot postpone it for ever; but a packet may change
  what the alarm would do, so an `Alarm` step is promised only if one remains
  due. Nothing is assumed of packets, the server or callers.
- `IaxTransport!Fairness`: the processing thread keeps running, so each timer
  fires (`Reap`, `Retransmit`, `Timeout`, `TimeoutUnheard`, `EndFinal`,
  `SendPing`) and a HANGUP is processed; a datagram does not stay in the network for ever (`Lose`). It is
  not assumed that any datagram ever arrives.
- `IaxcLock!Fairness`: a thread that is inside or delivers goes on. Strong
  fairness for taking the lock: a mutex promises nothing, but the processing
  thread sleeps 5 ms in each round (`iaxclient_lib.c:634`), so whoever waits
  gets it. Nothing is assumed of the main thread outside the library, of
  events, or of signals.
- `JitterBuf` and `SendVoice` have no liveness: nothing bounds how late a frame
  is, or promises one.

## Proofs

All proofs are of the specifications as they are run, for all values of the
constants that satisfy the named assumptions.

- **`IaxTransportProofs`**. `SeqNosAgree` is inductive: every number in a
  counter, in `schedq` or on the wire is the byte of the frame the history
  says, distances are below `SeqMod`, and whatever is not known to be accepted
  is in `schedq` with retries left. It is needed because a handler sees bytes
  only: `InWindow` and the in-order test are right only while byte distances
  are true distances. `InOrder`, `AckSound` and `NoFrameForgotten` follow, and
  so does the refinement of `ReliableLink`, step by step. What holds of the
  link then holds of the transport: `EndsAreExplained`, that a session is gone
  only after a HANGUP, sent or handed over, and that what was handed over are
  the first of the frames sent. What is in `schedq` is all that is not known to
  be accepted (`Pending`) for sessions that are not `Closing` only, since one
  that is drops frames without being ended for it; `ClosingStays` says that it
  remains so until it ends. For the link the HANGUP that could
  not be sent at once is a `Send` of the final frame, and the end of that
  session a `Close`.
- **`FgcomProofs`**. `CallsInv` says, for each value of the program counter
  and of `connected`, which appearance may be busy and on which frequency, and
  that no callback is under way when a new call is dialled. `OneCall`,
  `OnFrequency`, `CallIsSelected`, `IdleMeansFree` follow under `SleepDrains`
  and `MaxIncoming = 0`. `NoCallOverwritten` and `ListensWhenReleased` need
  neither.
- **`SessionsProofs`**. `TypeInv` adds to the types that freed sessions have
  nothing in a jitter buffer and that the next number is new; it holds for
  every `malloc`. `OwnedInv` is `TypeInv`, and until a POKE freed a session in
  use (`~poked`) also `OwnInv`: pointers lead to different sessions, their own,
  frames still to be sent again are of the session they point to, a session
  whose NEW has not been handled belongs to nobody (`CallersWait`), and so does
  what is at the address of a final frame (`FinalsUnowned`). Without the last
  the invariant breaks at `Reap`, which is the finding of `sessions_reuse`; it
  is inductive if `~Reuse`. The conclusions are `PointersValid` and
  `RetransmitsOnOwn`. `FinalDestroysItsOwn`, the sentence `sessions_reuse`
  refutes, follows from `~Reuse` alone, POKE or not: at the address of a final
  frame is the session it was sent on, or none (`FinalsOwnOrDead`), and none
  comes there while it waits. `NoneLeaked` needs none of this. Each
  action that drops a pointer destroys what is at its address or leaves a final
  frame (`DropStep`), and a final frame, sent again or marked as sent, stays in
  `schedq` until it destroys (`FinalStep`): in every state with the right types
  and a registration that is empty before the first `Register` (`DropInv`).
- **`IaxcLockProofs`**. `LockIsExclusive` needs, beside the owner of the
  mutex, that the context below a handler stands still: if it is inside, its
  handler never gets in. `CallbacksOutsideLock` needs that `iaxc_locked` is
  set whenever a context is between `Lock` and `SetUnlocked`.
  `EventsCalledBackOnce` needs `Distinct`, that no two pointers lead to one
  node but between `Take` and `Clear`, and `Once`, that an event is in one
  node, or being posted by one context, or called back; races may lose a part
  of a list, but never make a copy. `LostOnlyByRace` is a statement about
  reachability along a list: `Waits` says that an event not yet delivered is in
  a node that is `Present`, in every set closed under `next` that has the head
  and what is being delivered. That avoids an induction along the list, for of
  a closed set after a step one makes one before it. `LossInv` adds that no two
  links meet and none leads to a freed node (`Untangled`), and that what a
  context has read of the list still holds (`UpToDate`); all of it until
  `raced`, and without regard to the owner of the mutex, so that it holds after
  `quit` has destroyed that too.
- **`JitterBufProofs`**. `QueueSorted`: the walk of `queue_put` inserts at a
  place where the order holds on both sides, by the timestamps frames were
  queued with, whatever the offset was then. `EventsAccounted` and
  `ControlSurvives` are counted action by action. `VoiceOrdered` needs
  `OrderInv`, which relates `next_voice_ts`, `current` and `last_voice_ms` to
  the last voice heard: what is wanted, less the length last played, is never
  before it. `StampsReconstructed` needs that `last_ts` is the latest
  timestamp so far (`StampInv`), and `UnwrapProofs`. `CacheFresh`: whatever
  passes through the ring, entry n of `hist_maxbuf` is a delay with fewer than
  n above it and at least n no less (`Ranks`). A delay is replaced without
  recomputing only if it is strictly between the last entries of the two
  buffers and the one that takes its place not beyond either; the ranks that
  are kept then stay (`RankKept`). That needs full buffers: those that are not
  end in `JB_LONGMIN` and `JB_LONGMAX`, and nothing is above the one and below
  the other only because the one is less.
- **`UnwrapProofs`**. `ReadMiniIsRight`: half a timestamp is completed rightly
  if it is less than `HalfMod - Jump` from the latest seen, in three cases:
  the same block of 2^16, the next, the one before. Sender and receiver use it.
- **`SendVoiceProofs`**. `Follows`: the clock is never more than `Damp` frames
  behind the prediction, for a lag `n` becomes `n + Frame - n / Damp`
  (`LagBounded`); so a burst never breaks the prediction, and `VoiceGoesForward`
  follows. It fails at time 0, where a frame is refused, unless one frame of lag
  already moves the clock (`Damp <= Frame`), which is why `SpokenBefore` says
  that the clock has left 0. `PeerNotAhead` and `PeerNotBehind` keep the
  timestamps near the clock from above and, by the pings, from below: each
  voice is near enough for `ReadMiniIsRight`, hence `PeerUnderstands`.

- **`VnakProofs`**. The list `iax_handle_vnak` collects from the first n
  frames of `schedq` is `Collected[n]`, by recursion. The induction is written
  out, as a least n at which the claim fails and `n - 1`, by `LeastNatural`.
  `InsertKeepsOrder` says that a frame put at its place leaves the others
  as they are and the list in order; `UnackedAreDue`, by the distances of
  bytes, that an unacknowledged frame is collected exactly if the VNAK is not
  older than the last acknowledgement.
  `AscendingUnwrapped` needs that differences of ints and of bytes agree, which
  they do unless the window wraps.

Every safety invariant and every action property of the passing runs is
proved. Only model-checked is liveness: `EventuallyAccepted`, `PeerLearns`,
`HangsUpOutOfRange`, `AutoReconnect`, `Drained`, `QuitsFromOutside`: the prover
has no fairness and no `ENABLED`. No module uses `RECURSIVE`.

## Not modelled, and why

ATC mode (the same loop, without reconnecting) and the packet parser;
timestamps of DTMF, text and control frames, and what of `calc_timestamp` is
below a millisecond; transfers, which the server's configuration
switches off (`server/fg-config-builder.pl:235`); authentication; the ACCEPT of a
codec nobody offered; the clamp of the jitter buffer, which `iax_session_new`
switches off. Floating-point distances, audio, codecs, string handling and the
scripts have no state that steps of two actors could disturb, or are out of
TLC's reach. Most of the repository by size is vendored (portaudio, portmixer,
speex, gsm, spandsp, sox) or reached by no call of fgcom (video, the
demonstration programs). `PROJECT.json` gives a reason for each component.

## Plan

Done: `IaxTransport`, `ReliableLink`, `Vnak`, `Fgcom`, `Sessions`, `IaxcLock`,
`JitterBuf`, `Unwrap`, `SendVoice`, with the proofs above. What could follow, in
this order:

1. ATC mode in `Fgcom`; `MaxIncoming > 0` with what still holds.
2. The numbers dialled: `icao2number` and `icao2atisnumber` different for
   different frequencies, as pure operators.
