---------------------------- MODULE MCFrameCodec ----------------------------
(***************************************************************************)
(* FrameCodec with the configurations of the repository, on all 256 values *)
(* of a char.  Its frames are made of the control characters, 0, the       *)
(* character that is stuffed to esc, and any one other character.          *)
(***************************************************************************)
EXTENDS FrameCodec, Bitwise

Chars == 0 .. 255

MCMixed(a, b) == a ^^ b

\* CFrameOldReadable, CFrameReadable, CFrameAscii, the configuration of
\* examples/src/wsnGWTest.cpp, and CFrameAscii with useNoneChar and useXonXoff.
Shipped == {
  [esc |-> 101, sofr |-> 97, eofr |-> 115, escmod |-> 1,   skipped |-> {}],
  [esc |-> 101, sofr |-> 97, eofr |-> 115, escmod |-> 32,  skipped |-> {}],
  [esc |-> 27,  sofr |-> 2,  eofr |-> 3,   escmod |-> 32,  skipped |-> {}],
  [esc |-> 101, sofr |-> 97, eofr |-> 98,  escmod |-> 127, skipped |-> {}],
  [esc |-> 27,  sofr |-> 2,  eofr |-> 3,   escmod |-> 32,  skipped |-> {0, 17, 19}]}

With(k, c) ==
  [esc |-> k.esc, sofr |-> k.sofr, eofr |-> k.eofr, escmod |-> k.escmod, skipped |-> k.skipped,
   payload |-> {k.esc, k.sofr, k.eofr, 0, k.esc ^^ k.escmod, c}]

MCConfigs == {With(k, c) : k \in Shipped, c \in Chars}
=============================================================================
