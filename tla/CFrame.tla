------------------------------- MODULE CFrame -------------------------------
(***************************************************************************)
(* The byte-stuffing state machine CFrame<stuffingbytes> of                *)
(* src/include/avr-halib/common/cframe.h.                                  *)
(*                                                                         *)
(* A frame is  sofr payload eofr ; a payload byte that is a control        *)
(* character goes out as esc followed by the byte xor escmod.  The C++     *)
(* object keeps two 4-bit states, tx and rx.  Here each method is an       *)
(* operator on one of those states; the modules that drive a CFrame hold   *)
(* the states in their own variables.                                      *)
(*                                                                         *)
(* The configuration class (CFrameReadable, CFrameAscii, ...) is the       *)
(* constants: the three control characters, Stuffed, the map               *)
(* c |-> c ^ escmod, and Skipped, the characters among none, xon and xoff  *)
(* that useNoneChar and useXonXoff turn into control characters.           *)
(***************************************************************************)
EXTENDS Naturals, Sequences

CONSTANTS Byte,      \* the values of a char on the line
          Esc, Sofr, Eofr,
          Stuffed,   \* [Byte -> Byte], c ^ escmod
          Skipped    \* extra characters that are stuffed and skipped

Control == {Esc, Sofr, Eofr} \cup Skipped

(***************************************************************************)
(* What every configuration in the repository satisfies: the control       *)
(* characters are distinct, xor is an involution, and stuffing turns a     *)
(* control character into an ordinary one.                                 *)
(***************************************************************************)
ASSUME StuffingAssumption ==
  /\ Control \subseteq Byte
  /\ Esc # Sofr /\ Esc # Eofr /\ Sofr # Eofr
  /\ Skipped \cap {Esc, Sofr, Eofr} = {}
  /\ Stuffed \in [Byte -> Byte]
  /\ \A c \in Byte : Stuffed[Stuffed[c]] = c
  /\ \A c \in Control : Stuffed[c] \notin Control

State == {"invalid", "started", "regular", "stuff", "fine"}

-----------------------------------------------------------------------------
(* Transmit side. *)

Sending(tx) == tx \notin {"invalid", "fine"}

ReadyToStart(tx) == tx = "invalid"

\* startFrame() returns sofr and leaves invalid; in any other state it only
\* returns the character.
StartFrame(tx) == IF tx = "invalid" THEN "started" ELSE tx

EndFrame(tx) == IF tx = "regular" THEN "fine" ELSE tx

Again(tx) == tx # "regular"

\* Both transform methods turn started into regular first.
Opened(state) == IF state = "started" THEN "regular" ELSE state

\* Mutants of MustStuff: a control character goes out as it is.
StuffButEsc(c) == c \in Control \ {Esc}
StuffButXon(c) == c \in {Esc, Sofr, Eofr}

MustStuff(c) == c \in Control

\* transformOut(c): the character to put on the device and the next state.
\* In invalid and fine the character passes unchanged.
TransformOut(tx, c) ==
  IF Opened(tx) = "regular" /\ MustStuff(c) THEN [tx |-> "stuff", c |-> Esc]
  ELSE IF Opened(tx) = "stuff"               THEN [tx |-> "regular", c |-> Stuffed[c]]
  ELSE [tx |-> Opened(tx), c |-> c]

-----------------------------------------------------------------------------
(* Receive side. *)

Restarted(rx) == rx = "started"

Finished(rx) == rx = "fine"

\* Mutant of InRegular: a frame start inside a frame is not recognised.
InRegularNoRestart(c) == IF c = Eofr THEN "fine" ELSE IF c = Esc THEN "stuff" ELSE "regular"

\* The state after a character in regular.
InRegular(c) ==
  IF c = Eofr THEN "fine" ELSE IF c = Sofr THEN "started" ELSE IF c = Esc THEN "stuff"
  ELSE "regular"

\* Mutant of RxNext: a finished machine accepts the next frame start.
RxNextUnread(rx, c) ==
  IF Opened(rx) \in {"invalid", "fine"} /\ c = Sofr THEN "started"
  ELSE IF Opened(rx) = "regular" THEN InRegular(c)
  ELSE IF Opened(rx) = "stuff"   THEN "regular"
  ELSE rx

\* A finished machine ignores every character until resetRx().
RxNext(rx, c) ==
  IF Opened(rx) = "invalid" /\ c = Sofr THEN "started"
  ELSE IF Opened(rx) = "regular" THEN InRegular(c)
  ELSE IF Opened(rx) = "stuff"   THEN "regular"
  ELSE rx

\* transformIn(c): the next state, the (perhaps unstuffed) character, and
\* the result: whether that character is a payload byte.
TransformIn(rx, c) ==
  [rx   |-> RxNext(rx, c),
   c    |-> IF rx = "stuff" THEN Stuffed[c] ELSE c,
   data |-> rx = "stuff" \/ (Opened(rx) = "regular" /\ c \notin Control)]
=============================================================================
