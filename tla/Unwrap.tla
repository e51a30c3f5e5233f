------------------------------- MODULE Unwrap -------------------------------
(***************************************************************************)
(* Timestamps on the wire (iax.c): a full frame has one of 32 bits, a mini *)
(* frame its lower half, to which the receiver adds the upper half of the  *)
(* latest timestamp it has seen.  JitterBuf is the receiver, SendVoice the *)
(* sender.                                                                 *)
(***************************************************************************)
EXTENDS Integers

CONSTANTS
    HalfMod,              \* 2^16: what a mini frame has of its timestamp
    Jump,                 \* 50000: what is too far to be true
    IntMod                \* 2^32

ASSUME WidthsAssumption ==
    /\ HalfMod \in Nat \ {0} /\ IntMod \in Nat \ {0} /\ Jump \in 1 .. HalfMod - 1
    /\ HalfMod <= 2 * Jump /\ IntMod % HalfMod = 0

\* The upper half
Block(ts) == ts \div HalfMod

\* What is read in a mini frame sent at ts
ReadMini(ts, last) == (Block(last) * HalfMod) + (ts % HalfMod)

\* Mutant: that the mini frames have gone round is not noticed
unwrap_back(ts, last) ==
    IF Block(ts) = Block(last) /\ ts - last > Jump
    THEN (ts - HalfMod) % IntMod ELSE ts

\* "Sudden big jump backwards": the mini frames have gone round; "sudden apparent
\* big jump forwards": it is one of before they had.  The result is made an
\* unsigned int.
unwrap_timestamp(ts, last) ==
    IF Block(ts) # Block(last) THEN ts
    ELSE IF ts - last < -Jump THEN (ts + HalfMod) % IntMod
    ELSE IF ts - last > Jump THEN (ts - HalfMod) % IntMod
    ELSE ts

=============================================================================
