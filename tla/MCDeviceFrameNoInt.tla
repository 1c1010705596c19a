------------------------- MODULE MCDeviceFrameNoInt -------------------------
(***************************************************************************)
(* A small instance of CDeviceFrameNoInt: three-bit bytes; 1, 2 and 3 are  *)
(* esc, sofr and eofr, escmod is 4.                                        *)
(***************************************************************************)
EXTENDS CDeviceFrameNoInt

MCByte    == 0 .. 7
MCStuffed == [c \in MCByte |-> (c + 4) % 8]

OneWay == [s \in {Sender, Receiver} |-> IF s = Sender THEN Receiver ELSE Sender]

\* Frames that fit two bytes, with control characters and with bytes that
\* look like stuffed ones, and two that do not fit.
MCFrames == {<<2>>, <<3, 7>>, <<0, 1, 2>>, <<6, 1, 0, 5>>}
=============================================================================
