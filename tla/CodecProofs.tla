----------------------------- MODULE CodecProofs -----------------------------
(***************************************************************************)
(* Proofs about CFrame at both ends of a line, for every sound             *)
(* configuration and every payload.  Sender and receiver stay in step:     *)
(* between two bytes both are at the start of a frame or inside it.        *)
(***************************************************************************)
EXTENDS FrameCodec, TLAPS

\* What every configuration is.
LEMMA Sound ==
  ASSUME NEW k \in Configs
  PROVE  /\ F(k)!Control = Reserved(k) /\ Reserved(k) \subseteq Byte /\ k.payload \subseteq Byte
         /\ k.esc \in Reserved(k) /\ k.sofr \in Reserved(k) /\ k.eofr \in Reserved(k)
         /\ k.esc # k.sofr /\ k.esc # k.eofr /\ k.sofr # k.eofr
         /\ k.skipped \subseteq Reserved(k) /\ k.esc \notin k.skipped
         /\ \A c \in Reserved(k) : Mixed(c, k.escmod) \in Byte \ Reserved(k)
         /\ \A c \in Byte : Mixed(Mixed(c, k.escmod), k.escmod) = c
BY ConfigAssumption DEF Reserved, F!Control

\* One byte on its way: the one or two characters of the sender, what the receiver makes of them.
Out1(k, state, c) == F(k)!TransformOut(state, c)
In1(k, state, c)  == F(k)!TransformIn(state, Out1(k, state, c).c)
Out2(k, state, c) == F(k)!TransformOut(Out1(k, state, c).tx, c)
In2(k, state, c)  == F(k)!TransformIn(In1(k, state, c).rx, Out2(k, state, c).c)
Through(c) == [rx |-> "regular", c |-> c, data |-> TRUE]

\* What the transmitter makes of one byte, the receiver turns back into that byte: an ordinary
\* character is a data byte at once; a control character goes out as esc, which is no data, and
\* one more character, which is.  Neither is a delimiter.
LEMMA ByteThrough ==
  ASSUME NEW k \in Configs, NEW c \in Byte, NEW state \in {"started", "regular"}
  PROVE  \/ /\ Out1(k, state, c).tx = "regular" /\ In1(k, state, c) = Through(c)
            /\ Out1(k, state, c).c \notin Reserved(k)
         \/ /\ Out1(k, state, c).tx = "stuff" /\ In1(k, state, c).data = FALSE
            /\ Out2(k, state, c).tx = "regular" /\ In2(k, state, c) = Through(c)
            /\ Out1(k, state, c).c = k.esc /\ Out2(k, state, c).c \notin Reserved(k)
<1> PICK out1 : out1 = Out1(k, state, c)
  OBVIOUS
<1> PICK in1 : in1 = In1(k, state, c)
  OBVIOUS
<1> PICK out2 : out2 = Out2(k, state, c)
  OBVIOUS
<1> PICK in2 : in2 = In2(k, state, c)
  OBVIOUS
<1>0. /\ out1 = F(k)!TransformOut(state, c) /\ in1 = F(k)!TransformIn(state, out1.c)
      /\ out2 = F(k)!TransformOut(out1.tx, c) /\ in2 = F(k)!TransformIn(in1.rx, out2.c)
  BY DEF Out1, In1, Out2, In2
<1>1. CASE c \in Reserved(k)
  <2>1. PICK d : d = Mixed(c, k.escmod)
    OBVIOUS
  <2>2. d \in Byte \ Reserved(k) /\ Mixed(d, k.escmod) = c
    BY <1>1, <2>1, Sound
  <2>3. /\ F(k)!TransformOut(state, c) = [tx |-> "stuff", c |-> k.esc]
        /\ F(k)!TransformOut("stuff", c) = [tx |-> "regular", c |-> d]
    BY <1>1, <2>1, Sound DEF F!TransformOut, F!Opened, F!MustStuff
  <2>4. F(k)!TransformIn(state, k.esc) = [rx |-> "stuff", c |-> k.esc, data |-> FALSE]
    BY Sound DEF F!TransformIn, F!RxNext, F!InRegular, F!Opened
  <2>5. F(k)!TransformIn("stuff", d) = [rx |-> "regular", c |-> c, data |-> TRUE]
    BY <2>2, Sound DEF F!TransformIn, F!RxNext, F!InRegular, F!Opened
  <2>6. out1.tx = "stuff" /\ out1.c = k.esc
    BY <1>0, <2>3
  <2>7. in1.rx = "stuff" /\ in1.data = FALSE
    BY <1>0, <2>4, <2>6
  <2>8. out2.tx = "regular" /\ out2.c = d
    BY <1>0, <2>3, <2>6
  <2>9. in2 = Through(c)
    BY <1>0, <2>5, <2>7, <2>8 DEF Through
  <2> QED BY <2>2, <2>6, <2>7, <2>8, <2>9
<1>2. CASE c \notin Reserved(k)
  <2>1. F(k)!TransformOut(state, c) = [tx |-> "regular", c |-> c]
    BY <1>2, Sound DEF F!TransformOut, F!Opened, F!MustStuff
  <2>2. F(k)!TransformIn(state, c) = [rx |-> "regular", c |-> c, data |-> TRUE]
    <3>1. c # k.esc /\ c # k.sofr /\ c # k.eofr /\ c \notin F(k)!Control
      BY <1>2, Sound
    <3>2. F(k)!Opened(state) = "regular" /\ state # "stuff"
      BY DEF F!Opened
    <3>3. F(k)!RxNext(state, c) = "regular"
      BY <3>1, <3>2 DEF F!RxNext, F!InRegular
    <3> QED BY <3>1, <3>2, <3>3 DEF F!TransformIn
  <2>3. out1.tx = "regular" /\ out1.c = c
    BY <1>0, <2>1
  <2>4. in1 = Through(c)
    BY <1>0, <2>2, <2>3 DEF Through
  <2> QED BY <1>2, <2>3, <2>4
<1> QED BY <1>1, <1>2

-----------------------------------------------------------------------------
(* Sender and receiver in step, and what is on the line between two bytes. *)
InStep ==
  /\ conf \in Configs
  /\ tx \in {"started", "regular"} => rx = tx
  /\ got \in Seq(Byte)
  /\ got = given
  /\ Transparent

LEMMA InitInStep == Init => InStep
<1> SUFFICES ASSUME Init PROVE InStep
  OBVIOUS
<1>1. conf \in Configs /\ got = <<>> /\ given = <<>> /\ chars = <<>>
  BY DEF Init
<1>2. tx = "started" /\ rx = "started"
  BY <1>1, Sound DEF Init, F!StartFrame, F!TransformIn, F!RxNext, F!Opened
<1> QED BY <1>1, <1>2 DEF InStep, Transparent

LEMMA FeedInStep ==
  ASSUME InStep, NEW c \in conf.payload, Feed(c)
  PROVE  InStep'
<1> PICK out1 : out1 = Out1(conf, tx, c)
  OBVIOUS
<1> PICK in1 : in1 = In1(conf, tx, c)
  OBVIOUS
<1> PICK out2 : out2 = Out2(conf, tx, c)
  OBVIOUS
<1> PICK in2 : in2 = In2(conf, tx, c)
  OBVIOUS
<1>1. /\ conf \in Configs /\ c \in Byte /\ tx \in {"started", "regular"} /\ rx = tx
      /\ got \in Seq(Byte) /\ given = got
  BY Sound DEF InStep, Feed
<1>2. /\ given' = Append(given, c)
      /\ tx' = IF out1.tx # "regular" THEN out2.tx ELSE out1.tx
      /\ rx' = IF out1.tx # "regular" THEN in2.rx ELSE in1.rx
      /\ got' = got \o Keep(in1) \o (IF out1.tx # "regular" THEN Keep(in2) ELSE <<>>)
      /\ chars' = IF out1.tx # "regular" THEN <<out1.c, out2.c>> ELSE <<out1.c>>
      /\ conf' = conf
  <2>1. rx = tx
    BY <1>1
  <2> QED BY <2>1, Zenon DEF Feed, F!Again, Out1, In1, Out2, In2
<1>3. \/ /\ out1.tx = "regular" /\ in1 = Through(c)
         /\ out1.c \notin Reserved(conf)
      \/ /\ out1.tx = "stuff" /\ in1.data = FALSE
         /\ out2.tx = "regular" /\ in2 = Through(c)
         /\ out1.c = conf.esc /\ out2.c \notin Reserved(conf)
  BY <1>1, ByteThrough
<1>4. rx' = "regular" /\ tx' = "regular" /\ got' = Append(got, c)
  <2>1. Keep(Through(c)) = <<c>> /\ Through(c).rx = "regular"
    BY DEF Keep, Through
  <2>2. in1.data = FALSE => Keep(in1) = <<>>
    BY DEF Keep
  <2>3. /\ got \o <<c>> \o <<>> = Append(got, c)
        /\ got \o <<>> \o <<c>> = Append(got, c)
    BY <1>1
  <2> QED BY <1>2, <1>3, <2>1, <2>2, <2>3
<1>5. Transparent'
  <2>1. \A i \in DOMAIN chars' : chars'[i] \notin {conf.sofr, conf.eofr} \cup conf.skipped
    <3>1. \A a, b : /\ DOMAIN <<a, b>> = {1, 2} /\ <<a, b>>[1] = a /\ <<a, b>>[2] = b
                    /\ DOMAIN <<a>> = {1} /\ <<a>>[1] = a
      OBVIOUS
    <3> QED BY <1>1, <1>2, <1>3, <3>1, Sound
  <2> QED BY <1>2, <2>1 DEF Transparent
<1>6. got' \in Seq(Byte)
  BY <1>1, <1>4
<1> QED BY <1>1, <1>2, <1>4, <1>5, <1>6 DEF InStep

LEMMA NextInStep == InStep /\ [Next]_vars => InStep'
<1> SUFFICES ASSUME InStep, [Next]_vars PROVE InStep'
  OBVIOUS
<1>1. ASSUME NEW c \in conf.payload, Feed(c) PROVE InStep'
  BY <1>1, FeedInStep
<1>2. CASE Close
  <2>1. tx' = "fine" /\ UNCHANGED <<conf, given, got>>
    BY <1>2 DEF Close, F!EndFrame
  <2> QED BY <2>1 DEF InStep, Transparent
<1>3. CASE UNCHANGED vars
  BY <1>3 DEF vars, InStep, Transparent
<1> QED BY <1>1, <1>2, <1>3 DEF Next

\* Whatever bytes a frame is made of, control characters included, the receiver holds exactly
\* the bytes given to the sender, after every one of them; for every sound choice of the control
\* characters and of escmod, and frames of any length (cframe.h: transformOut, transformIn).
THEOREM FrameRoundTrip == Spec => []RoundTrip
<1>1. InStep => RoundTrip
  BY DEF InStep, RoundTrip
<1> QED BY <1>1, InitInStep, NextInStep, PTL DEF Spec

\* Inside a frame no delimiter and no reserved character is ever put on the line: a receiver
\* that joins late, and a line that acts on xon and xoff, are not misled by the payload.
THEOREM PayloadHidden == Spec => []Transparent
<1>1. InStep => Transparent
  BY DEF InStep
<1> QED BY <1>1, InitInStep, NextInStep, PTL DEF Spec
=============================================================================
