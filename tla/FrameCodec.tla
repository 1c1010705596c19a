----------------------------- MODULE FrameCodec -----------------------------
(***************************************************************************)
(* A frame from the sender's CFrame to the receiver's, under one of the    *)
(* configurations Configs.  A step runs the sender's                       *)
(* do put(transformOut(c)) while(again())  for one byte of the payload and *)
(* hands each character to the receiver.                                   *)
(***************************************************************************)
EXTENDS Naturals, Sequences

CONSTANTS Byte,          \* the values of a char on the line
          Mixed(_, _),     \* c ^ escmod
          Configs,       \* configurations: [esc, sofr, eofr, escmod, skipped, payload]
          MaxLength      \* bound: bytes in a frame

F(k) == INSTANCE CFrame WITH
  Esc <- k.esc, Sofr <- k.sofr, Eofr <- k.eofr, Skipped <- k.skipped,
  Stuffed <- [c \in Byte |-> Mixed(c, k.escmod)]

(* CFrame's assumption of each of them; k.payload are the bytes its frames are made of *)
Reserved(k) == {k.esc, k.sofr, k.eofr} \cup k.skipped
ASSUME ConfigAssumption ==
  \A k \in Configs :
    /\ Reserved(k) \subseteq Byte /\ k.payload \subseteq Byte
    /\ k.esc # k.sofr /\ k.esc # k.eofr /\ k.sofr # k.eofr
    /\ k.skipped \cap {k.esc, k.sofr, k.eofr} = {}
    /\ \A c \in Byte : Mixed(c, k.escmod) \in Byte /\ Mixed(Mixed(c, k.escmod), k.escmod) = c
    /\ \A c \in Reserved(k) : Mixed(c, k.escmod) \notin Reserved(k)

VARIABLES conf, tx, rx,
          given,  \* the bytes of the frame so far
          got,    \* the payload bytes the receiver has stored
          chars   \* the characters put on the line for the last byte

vars == <<conf, tx, rx, given, got, chars>>

Init ==
  /\ conf \in Configs
  /\ tx = F(conf)!StartFrame("invalid")
  /\ rx = F(conf)!TransformIn("invalid", conf.sofr).rx
  /\ given = <<>> /\ got = <<>> /\ chars = <<>>

Keep(in) == IF in.data THEN <<in.c>> ELSE <<>>

Feed(c) ==
  LET out1 == F(conf)!TransformOut(tx, c)
      in1  == F(conf)!TransformIn(rx, out1.c)
      out2 == F(conf)!TransformOut(out1.tx, c)
      in2  == F(conf)!TransformIn(in1.rx, out2.c)
      twice == F(conf)!Again(out1.tx)
  IN  /\ tx \in {"started", "regular"}
      /\ Len(given) < MaxLength
      /\ given' = Append(given, c)
      /\ tx'  = IF twice THEN out2.tx ELSE out1.tx
      /\ rx'  = IF twice THEN in2.rx ELSE in1.rx
      /\ got' = got \o Keep(in1) \o (IF twice THEN Keep(in2) ELSE <<>>)
      /\ chars' = IF twice THEN <<out1.c, out2.c>> ELSE <<out1.c>>
      /\ UNCHANGED conf

Close ==
  /\ tx = "regular"
  /\ tx' = F(conf)!EndFrame(tx)
  /\ rx' = F(conf)!TransformIn(rx, conf.eofr).rx
  /\ chars' = <<conf.eofr>>
  /\ UNCHANGED <<conf, given, got>>

Next == (\E c \in conf.payload : Feed(c)) \/ Close

Spec == Init /\ [][Next]_vars

-----------------------------------------------------------------------------
\* What transformOut writes, transformIn reads back: after every byte of the
\* payload, and at the end of the frame, the receiver holds the bytes given,
\* whatever control characters they contain.
RoundTrip == got = given

\* Between start and end no frame delimiter is on the line, and an xon, xoff
\* or none character only if the configuration does not reserve it.
Transparent ==
  tx = "regular" =>
    \A i \in DOMAIN chars :
      chars[i] \notin {conf.sofr, conf.eofr} \cup conf.skipped
=============================================================================
