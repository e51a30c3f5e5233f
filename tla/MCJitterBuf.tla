---------------------------- MODULE MCJitterBuf ----------------------------
(* What the peer sends, for TLC *)
EXTENDS JitterBuf

\* The ACCEPT, voice until the timestamps wrap around (at 8), interrupted by a
\* silence, and at the end a voice without a timestamp.  The first of the second
\* round is a control frame, so the voice after it is sent as a mini frame
\* (iax_send).
MCType ==
    <<"iax", "voice", "voice", "silence", "voice", "control", "voice", "voice">>
MCTS == <<1, 2, 3, 4, 6, 8, 9, 0>>
MCFull == {1, 2, 4, 6, 8}
MCLongMin == -1000
=============================================================================
