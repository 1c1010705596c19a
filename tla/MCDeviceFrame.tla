--------------------------- MODULE MCDeviceFrame ---------------------------
(***************************************************************************)
(* A small instance of CDeviceFrame: three-bit bytes.  0 and 4 are         *)
(* ordinary characters, 1, 2, 3 are esc, sofr and eofr, escmod is 4.       *)
(***************************************************************************)
EXTENDS FrameProps

CONSTANT A   \* the one station, on a loop-back plug

MCByte    == 0 .. 7
MCStuffed == [c \in MCByte |-> (c + 4) % 8]

Loopback == [s \in {A} |-> A]

\* An empty frame, a plain byte, a control character before a plain one, and
\* one that fills the payload, with bytes that look like stuffed control characters.
MCFrames == {<<>>, <<0>>, <<2, 0>>, <<5, 3, 0, 4, 6, 1, 7>>}

MCShort == {<<0>>, <<2>>}
=============================================================================
