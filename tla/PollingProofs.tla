---------------------------- MODULE PollingProofs ----------------------------
(***************************************************************************)
(* Proofs about CDeviceFrameNoInt, for every set of frames, every size of  *)
(* the receiver's buffer, any number of sends and every sound choice of    *)
(* control characters.                                                     *)
(*                                                                         *)
(* The argument: at every moment, the state the receiver will be in once   *)
(* it has read the characters still under way is a function of what the    *)
(* sender has done so far (LineInv).                                       *)
(***************************************************************************)
EXTENDS CDeviceFrameNoInt, Integers, FiniteSetTheorems, SequenceTheorems, TLAPS

-----------------------------------------------------------------------------
(* Induction over the natural numbers, with the property as a set. *)

\* A non-empty set of naturals has a least element: otherwise the intervals
\* up to its elements would descend for ever.
LEMMA LeastElement ==
  ASSUME NEW S \in SUBSET Nat, S # {}
  PROVE  \E n \in S : \A m \in S : n <= m
<1> DEFINE R == StrictSubsetOrdering(Nat)
           T == {0 .. n : n \in S}
<1>1. IsWellFoundedOn(R, FiniteSubsetsOf(Nat))
  BY FS_StrictSubsetOrderingWellFounded
<1>2. T \subseteq FiniteSubsetsOf(Nat)
  <2>1. ASSUME NEW n \in S PROVE 0 .. n \in FiniteSubsetsOf(Nat)
    <3>1. IsFiniteSet(0 .. n)
      BY FS_Interval
    <3> QED BY <3>1 DEF FiniteSubsetsOf
  <2> QED BY <2>1
<1>3. T # {}
  OBVIOUS
<1>4. \E x \in T : \A y \in T : ~(<<y, x>> \in R)
  <2> HIDE DEF R, T
  <2> QED BY <1>1, <1>2, <1>3, WFMin
<1>5. PICK x \in S : \A y \in T : ~(<<y, 0 .. x>> \in R)
  BY <1>4
<1>6. ASSUME NEW m \in S, ~(x <= m) PROVE FALSE
  <2>1. 0 .. m \in SUBSET Nat /\ 0 .. x \in SUBSET Nat
    OBVIOUS
  <2>2. 0 .. m \subseteq 0 .. x /\ 0 .. m # 0 .. x
    <3>1. x \in 0 .. x /\ x \notin 0 .. m
      BY <1>6
    <3> QED BY <1>6, <3>1
  <2>3. <<0 .. m, 0 .. x>> \in R
    BY <2>1, <2>2 DEF StrictSubsetOrdering
  <2> QED BY <1>5, <2>3
<1> QED BY <1>6

\* A set that holds 0 and the successor of each of its elements is Nat.
LEMMA InductiveSet ==
  ASSUME NEW S \in SUBSET Nat, 0 \in S, \A n \in S : n + 1 \in S
  PROVE  S = Nat
<1>1. ASSUME Nat \ S # {} PROVE FALSE
  <2>1. PICK n \in Nat \ S : \A m \in Nat \ S : n <= m
    BY <1>1, LeastElement
  <2>2. n - 1 \in S /\ n - 1 + 1 = n
    BY <2>1
  <2> QED BY <2>2
<1> QED BY <1>1

-----------------------------------------------------------------------------
(* Fitting *)

\* The step of the recursion in Fitting.
Grow(s, f, n) ==
  IF n = 0 THEN <<>> ELSE IF Fits(s[n]) THEN Append(f[n - 1], s[n]) ELSE f[n - 1]

\* f is the recursive function of Fitting for the first m elements of s.
IsKept(s, m, f) == f = [n \in 0 .. m |-> Grow(s, f, n)]

\* The recursion has a solution.
LEMMA KeptExists ==
  ASSUME NEW s, NEW m \in Nat
  PROVE  \E f : IsKept(s, m, f)
<1> DEFINE S == {n \in Nat : \E f : IsKept(s, n, f)}
<1>1. 0 \in S
  <2>1. IsKept(s, 0, [n \in 0 .. 0 |-> <<>>])
    BY DEF IsKept, Grow
  <2> QED BY <2>1
<1>2. ASSUME NEW n \in S PROVE n + 1 \in S
  <2>1. PICK f : IsKept(s, n, f)
    OBVIOUS
  <2> DEFINE g == [i \in 0 .. n + 1 |-> Grow(s, f, i)]
  <2>2. \A i \in 0 .. n : g[i] = f[i]
    <3>1. \A i \in 0 .. n : f[i] = Grow(s, f, i)
      BY <2>1 DEF IsKept
    <3>2. 0 .. n \subseteq 0 .. n + 1
      OBVIOUS
    <3> QED BY <3>1, <3>2
  <2>3. \A i \in 0 .. n + 1 : Grow(s, g, i) = Grow(s, f, i)
    <3> SUFFICES ASSUME NEW i \in 0 .. n + 1 PROVE Grow(s, g, i) = Grow(s, f, i)
      OBVIOUS
    <3>1. CASE i = 0
      BY <3>1 DEF Grow
    <3>2. CASE i # 0
      <4> HIDE DEF g
      <4>1. i - 1 \in 0 .. n
        BY <3>2
      <4>2. g[i - 1] = f[i - 1]
        BY <4>1, <2>2
      <4> QED BY <4>2 DEF Grow
    <3> QED BY <3>1, <3>2
  <2>4. IsKept(s, n + 1, g)
    BY <2>3 DEF IsKept
  <2> QED BY <2>4
<1>3. S = Nat
  <2> HIDE DEF S
  <2>1. S \in SUBSET Nat BY DEF S
  <2> QED BY <1>1, <1>2, <2>1, InductiveSet
<1> QED BY <1>3

\* Where two sequences agree, so do their solutions.
LEMMA KeptUnique ==
  ASSUME NEW s, NEW t, NEW m \in Nat, NEW k \in Nat, m <= k,
         \A i \in 1 .. m : s[i] = t[i],
         NEW f, IsKept(s, m, f), NEW g, IsKept(t, k, g)
  PROVE  f[m] = g[m]
<1> DEFINE S == {n \in Nat : n <= m => f[n] = g[n]}
<1>1. 0 \in S
  BY DEF IsKept, Grow
<1>2. ASSUME NEW n \in S PROVE n + 1 \in S
  <2> SUFFICES ASSUME n + 1 <= m PROVE f[n + 1] = g[n + 1]
    OBVIOUS
  <2>1. n + 1 \in 0 .. m /\ n + 1 \in 0 .. k /\ n + 1 \in 1 .. m
    OBVIOUS
  <2>2. f[n + 1] = Grow(s, f, n + 1) /\ g[n + 1] = Grow(t, g, n + 1)
    <3> HIDE DEF S
    <3> QED BY <2>1 DEF IsKept
  <2>3. f[n] = g[n] /\ s[n + 1] = t[n + 1]
    BY <2>1
  <2>4. n + 1 - 1 = n /\ n + 1 # 0
    OBVIOUS
  <2> QED BY <2>2, <2>3, <2>4 DEF Grow
<1>3. S = Nat
  <2> HIDE DEF S
  <2>1. S \in SUBSET Nat BY DEF S
  <2> QED BY <1>1, <1>2, <2>1, InductiveSet
<1> QED BY <1>3

\* Fitting is the last value of its recursive function.
LEMMA FittingIsKept ==
  ASSUME NEW s, Len(s) \in Nat
  PROVE  \E f : IsKept(s, Len(s), f) /\ Fitting(s) = f[Len(s)]
<1> DEFINE k == CHOOSE f : IsKept(s, Len(s), f)
<1>1. IsKept(s, Len(s), k)
  BY KeptExists
<1>2. Fitting(s) = k[Len(s)]
  BY DEF Fitting, IsKept, Grow
<1> QED BY <1>1, <1>2

\* No frame, nothing that fits; one frame more, one more if it fits.
LEMMA FittingAppend ==
  ASSUME NEW S, NEW s \in Seq(S), NEW e \in S
  PROVE  /\ Fitting(<<>>) = <<>>
         /\ Fitting(Append(s, e)) =
              IF Fits(e) THEN Append(Fitting(s), e) ELSE Fitting(s)
<1>1. Fitting(<<>>) = <<>>
  <2>1. Len(<<>>) = 0
    OBVIOUS
  <2>2. PICK f : IsKept(<<>>, 0, f) /\ Fitting(<<>>) = f[0]
    BY <2>1, FittingIsKept
  <2> QED BY <2>2 DEF IsKept, Grow
<1>2. Fitting(Append(s, e)) = IF Fits(e) THEN Append(Fitting(s), e) ELSE Fitting(s)
  <2> DEFINE t == Append(s, e)
             m == Len(s)
  <2>1. /\ m \in Nat /\ Len(t) = m + 1 /\ t[m + 1] = e
        /\ \A i \in 1 .. m : s[i] = t[i]
    BY AppendProperties
  <2> HIDE DEF t, m
  <2>2. PICK f : IsKept(s, m, f) /\ Fitting(s) = f[m]
    BY <2>1, FittingIsKept DEF m
  <2>3. PICK g : IsKept(t, m + 1, g) /\ Fitting(t) = g[m + 1]
    BY <2>1, FittingIsKept
  <2>4. f[m] = g[m]
    <3>1. m <= m + 1 /\ m + 1 \in Nat
      BY <2>1
    <3> QED BY <2>1, <2>2, <2>3, <3>1, KeptUnique
  <2>5. g[m + 1] = Grow(t, g, m + 1)
    <3>1. m + 1 \in 0 .. m + 1
      BY <2>1
    <3> QED BY <2>3, <3>1 DEF IsKept
  <2>6. m + 1 # 0 /\ m + 1 - 1 = m
    BY <2>1
  <2>7. Fitting(t) = IF Fits(e) THEN Append(Fitting(s), e) ELSE Fitting(s)
    BY <2>1, <2>2, <2>3, <2>4, <2>5, <2>6 DEF Grow
  <2> QED BY <2>7 DEF t
<1> QED BY <1>1, <1>2
-----------------------------------------------------------------------------
(* The receiver, character by character. *)

\* The receiver: the machine, the bytes stored and the frames returned.  A
\* call that has not begun, or has returned, is as good as one that hunts for
\* a frame start.
RecvView ==
  IF in.pc = "idle" THEN [rx |-> "invalid", buf |-> <<>>, got |-> delivered]
  ELSE [rx |-> in.rx, buf |-> in.buf, got |-> delivered]

\* The receiver after the data byte c, when it has room for it or not.
Stored(v, c) ==
  IF Len(v.buf) = RecvSize THEN [rx |-> "invalid", buf |-> <<>>, got |-> v.got]
  ELSE [rx |-> "regular", buf |-> Append(v.buf, c), got |-> v.got]

\* The receiver after the character c.
After(v, c) ==
  LET step == TransformIn(v.rx, c)
  IN  IF c = Empty THEN v
      ELSE IF step.data THEN Stored(v, step.c)
      ELSE IF Finished(step.rx)
           THEN [rx |-> "invalid", buf |-> <<>>, got |-> Append(v.got, v.buf)]
      ELSE [rx |-> step.rx, buf |-> IF Restarted(step.rx) THEN <<>> ELSE v.buf, got |-> v.got]

\* What the receiver must have made of everything the sender o has put on
\* the line: the bytes of the frame that have gone out, or nothing once they
\* are more than fit; got are the frames sent before.
Made(o, got) ==
  IF o.pc = "idle" \/ o.i > RecvSize
  THEN [rx |-> "invalid", buf |-> <<>>, got |-> got]
  ELSE [rx |-> o.tx, buf |-> SubSeq(o.frame, 1, o.i), got |-> got]

\* The states of send(): between two bytes, and after the esc of one.
SendOK(o) ==
  \/ o.pc = "idle"
  \/ /\ o.pc = "bytes"
     /\ o.frame \in Frames
     /\ o.i \in 0 .. Len(o.frame)
     /\ \/ o.tx = "started" /\ o.i = 0
        \/ o.tx = "regular" /\ o.i > 0
        \/ o.tx = "stuff" /\ o.i < Len(o.frame) /\ MustStuff(o.frame[o.i + 1])

Call == [pc : {"idle", "bytes"}, tx : State, frame : Frames \cup {<<>>}, i : Nat]

\* The inductive invariant.  A character in the receive register is read
\* before the one in the transmit register.
LineInv ==
  /\ UartTypeOK(Byte)
  /\ out \in Call
  /\ in \in [pc : {"idle", "wait"}, rx : State, buf : Seq(Byte)]
  /\ accepted \in Seq(Frames)
  /\ delivered \in Seq(Seq(Byte))
  /\ SendOK(out)
  /\ After(After(RecvView, wire[Sender]), udr[Sender]) = Made(out, Fitting(accepted))

\* No character changes nothing.
LEMMA AfterNothing == \A v : After(v, Empty) = v
BY DEF After

\* A frame start makes a hunting receiver begin with an empty buffer.
LEMMA AfterStart ==
  ASSUME NEW b, NEW got
  PROVE  After([rx |-> "invalid", buf |-> b, got |-> got], Sofr)
           = [rx |-> "started", buf |-> <<>>, got |-> got]
<1>1. Sofr # Empty
  BY PollingAssumption, StuffingAssumption DEF Control
<1>2. TransformIn("invalid", Sofr) = [rx |-> "started", c |-> Sofr, data |-> FALSE]
  BY DEF TransformIn, RxNext, Opened
<1> QED BY <1>1, <1>2 DEF After, Finished, Restarted

\* A hunting receiver passes over everything but a frame start.
LEMMA AfterHunting ==
  ASSUME NEW got, NEW c, c # Sofr
  PROVE  LET v == [rx |-> "invalid", buf |-> <<>>, got |-> got] IN After(v, c) = v
<1>1. TransformIn("invalid", c) = [rx |-> "invalid", c |-> c, data |-> FALSE]
  BY DEF TransformIn, RxNext, Opened
<1> QED BY <1>1 DEF After, Finished, Restarted

\* The byte after the first i of a frame.
LEMMA NextByte ==
  ASSUME NEW f \in Frames, NEW i \in 0 .. Len(f), i < Len(f)
  PROVE  /\ f[i + 1] \in Byte
         /\ Append(SubSeq(f, 1, i), f[i + 1]) = SubSeq(f, 1, i + 1)
         /\ Len(SubSeq(f, 1, i)) = i
<1>1. f \in Seq(Byte) /\ Len(f) \in Nat /\ i + 1 \in 1 .. Len(f)
  BY PollingAssumption
<1>2. f[i + 1] \in Byte
  BY <1>1
<1>3. SubSeq(f, 1, i) \in Seq(Byte) /\ Len(SubSeq(f, 1, i)) = i
  BY <1>1
<1>4. Append(SubSeq(f, 1, i), f[i + 1]) = SubSeq(f, 1, i + 1)
  BY <1>1
<1> QED BY <1>2, <1>3, <1>4

\* The state of send() after one turn of its loop.
Turn(o, step) ==
  [pc |-> "bytes", tx |-> step.tx, frame |-> o.frame,
   i  |-> IF Again(step.tx) THEN o.i ELSE o.i + 1]

\* What one turn of the loop of send() puts on the line keeps the receiver
\* where it must be.
LEMMA AfterByte ==
  ASSUME NEW o \in Call, SendOK(o), o.pc = "bytes", o.i < Len(o.frame), NEW got
  PROVE  LET step == TransformOut(o.tx, o.frame[o.i + 1])
         IN  /\ step.c \in Byte
             /\ Turn(o, step) \in Call
             /\ SendOK(Turn(o, step))
             /\ After(Made(o, got), step.c) = Made(Turn(o, step), got)
<1> DEFINE b    == o.frame[o.i + 1]
           step == TransformOut(o.tx, b)
           n    == Turn(o, step)
           sent == SubSeq(o.frame, 1, o.i)
<1>1. /\ o.frame \in Frames /\ o.i \in 0 .. Len(o.frame) /\ Len(o.frame) \in Nat
      /\ o.tx \in {"started", "regular", "stuff"}
      /\ o.tx = "stuff" => b \in Control
      /\ RecvSize \in Nat
  BY PollingAssumption DEF SendOK, MustStuff
<1>2. b \in Byte /\ Append(sent, b) = SubSeq(o.frame, 1, o.i + 1) /\ Len(sent) = o.i
  BY <1>1, NextByte
<1>3. CASE o.tx # "stuff" /\ b \in Control
  <2>1. step = [tx |-> "stuff", c |-> Esc]
    BY <1>1, <1>3 DEF TransformOut, Opened, MustStuff
  <2>2. n = [pc |-> "bytes", tx |-> "stuff", frame |-> o.frame, i |-> o.i]
    BY <2>1 DEF Turn, Again
  <2>3. n \in Call /\ SendOK(n)
    <3>1. "stuff" \in State /\ o.i \in Nat /\ o.frame \in Frames \cup {<<>>}
      BY <1>1 DEF State
    <3>2. n \in Call
      BY <2>2, <3>1 DEF Call
    <3>3. SendOK(n)
      BY <1>1, <1>3, <2>2 DEF SendOK, MustStuff
    <3> QED BY <3>2, <3>3
  <2>4. Esc \in Byte /\ Esc # Empty /\ Esc # Sofr
    BY StuffingAssumption, PollingAssumption DEF Control
  <2>5. CASE o.i > RecvSize
    <3>1. Made(o, got) = [rx |-> "invalid", buf |-> <<>>, got |-> got]
      BY <2>5 DEF Made
    <3>2. Made(n, got) = Made(o, got)
      BY <2>2, <2>5, <3>1 DEF Made
    <3> QED BY <2>1, <2>3, <2>4, <3>1, <3>2, AfterHunting
  <2>6. CASE ~(o.i > RecvSize)
    <3>1. Made(o, got) = [rx |-> o.tx, buf |-> sent, got |-> got]
      BY <2>6 DEF Made
    <3>2. Made(n, got) = [rx |-> "stuff", buf |-> sent, got |-> got]
      BY <2>2, <2>6 DEF Made
    <3>3. TransformIn(o.tx, Esc) = [rx |-> "stuff", c |-> Esc, data |-> FALSE]
      BY <1>1, <1>3, StuffingAssumption DEF TransformIn, RxNext, InRegular, Opened, Control
    <3>4. After(Made(o, got), Esc) = Made(n, got)
      <4> DEFINE v == [rx |-> o.tx, buf |-> sent, got |-> got]
      <4>1. v.rx = o.tx /\ v.buf = sent /\ v.got = got
        OBVIOUS
      <4> HIDE DEF v
      <4>2. TransformIn(v.rx, Esc) = [rx |-> "stuff", c |-> Esc, data |-> FALSE]
        BY <3>3, <4>1
      <4>3. After(v, Esc) = [rx |-> "stuff", buf |-> v.buf, got |-> v.got]
        BY <2>4, <4>2 DEF After, Finished, Restarted
      <4>4. After(v, Esc) = [rx |-> "stuff", buf |-> sent, got |-> got]
        BY <4>1, <4>3
      <4> QED BY <3>1, <3>2, <4>4 DEF v
    <3> QED BY <2>1, <2>3, <2>4, <3>4
  <2> QED BY <2>5, <2>6
<1>4. CASE ~(o.tx # "stuff" /\ b \in Control)
  <2> DEFINE c == IF o.tx = "stuff" THEN Stuffed[b] ELSE b
  <2>1. step = [tx |-> "regular", c |-> c]
    BY <1>1, <1>4 DEF TransformOut, Opened, MustStuff
  <2>2. n = [pc |-> "bytes", tx |-> "regular", frame |-> o.frame, i |-> o.i + 1]
    BY <2>1 DEF Turn, Again
  <2>3. n \in Call /\ SendOK(n)
    <3>1. "regular" \in State /\ o.i + 1 \in 0 .. Len(o.frame) /\ o.i + 1 > 0
      BY <1>1 DEF State
    <3>2. n \in Call
      BY <1>1, <2>2, <3>1 DEF Call
    <3>3. SendOK(n)
      BY <1>1, <2>2, <3>1 DEF SendOK
    <3> QED BY <3>2, <3>3
  <2>4. c \in Byte /\ c \notin Control
    BY <1>1, <1>2, <1>4, StuffingAssumption
  <2>5. c # Empty /\ c # Sofr
    BY <2>4, PollingAssumption DEF Control
  <2>6. n.pc = "bytes" /\ n.i = o.i + 1 /\ n.tx = "regular" /\ n.frame = o.frame
    BY <2>2
  <2> HIDE DEF c, n
  <2>7. CASE o.i > RecvSize
    <3>1. Made(o, got) = [rx |-> "invalid", buf |-> <<>>, got |-> got]
      BY <2>7 DEF Made
    <3>2. Made(n, got) = Made(o, got)
      BY <1>1, <2>6, <2>7, <3>1 DEF Made
    <3> QED BY <2>1, <2>3, <2>4, <2>5, <3>1, <3>2, AfterHunting DEF n
  <2>8. CASE ~(o.i > RecvSize)
    <3>1. Made(o, got) = [rx |-> o.tx, buf |-> sent, got |-> got]
      BY <2>8 DEF Made
    <3>2. TransformIn(o.tx, c) = [rx |-> "regular", c |-> b, data |-> TRUE]
      <4>1. CASE o.tx = "stuff"
        <5>1. Stuffed[c] = b
          BY <1>2, <4>1, StuffingAssumption DEF c
        <5> QED BY <4>1, <5>1 DEF TransformIn, RxNext, Opened
      <4>2. CASE o.tx # "stuff"
        <5>1. c = b /\ c \notin {Esc, Sofr, Eofr}
          BY <4>2, <2>4 DEF c, Control
        <5> QED BY <1>1, <4>2, <5>1, <2>4 DEF TransformIn, RxNext, InRegular, Opened
      <4> QED BY <4>1, <4>2
    <3>3. After(Made(o, got), c) = Stored([rx |-> o.tx, buf |-> sent, got |-> got], b)
      BY <2>5, <3>1, <3>2 DEF After
    <3>4. Stored([rx |-> o.tx, buf |-> sent, got |-> got], b) = Made(n, got)
      <4>1. CASE o.i = RecvSize
        <5>1. Made(n, got) = [rx |-> "invalid", buf |-> <<>>, got |-> got]
          BY <1>1, <2>6, <4>1 DEF Made
        <5> QED BY <1>2, <4>1, <5>1 DEF Stored
      <4>2. CASE o.i # RecvSize
        <5>1. ~(n.i > RecvSize) /\ n.pc # "idle"
          BY <1>1, <2>6, <2>8, <4>2
        <5>2. Made(n, got) = [rx |-> "regular", buf |-> SubSeq(o.frame, 1, o.i + 1), got |-> got]
          BY <2>6, <5>1 DEF Made
        <5> QED BY <1>2, <4>2, <5>2 DEF Stored
      <4> QED BY <4>1, <4>2
    <3> QED BY <2>1, <2>3, <2>4, <3>3, <3>4 DEF n
  <2> QED BY <2>7, <2>8
<1> QED BY <1>3, <1>4

\* The frame end completes a frame that fits, and only such a one.
LEMMA AfterEnd ==
  ASSUME NEW o \in Call, SendOK(o), o.pc = "bytes", o.i = Len(o.frame), NEW got
  PROVE  After(Made(o, got), Eofr)
           = [rx |-> "invalid", buf |-> <<>>,
              got |-> IF Fits(o.frame) THEN Append(got, o.frame) ELSE got]
<1>1. o.frame \in Seq(Byte) /\ Len(o.frame) > 0 /\ o.tx = "regular" /\ RecvSize \in Nat
  BY PollingAssumption DEF SendOK
<1>2. Eofr # Empty /\ Eofr # Sofr
  BY StuffingAssumption, PollingAssumption DEF Control
<1>3. CASE Fits(o.frame)
  <2>1. Made(o, got) = [rx |-> "regular", buf |-> o.frame, got |-> got]
    <3>1. ~(o.i > RecvSize) /\ SubSeq(o.frame, 1, o.i) = o.frame
      BY <1>1, <1>3, SubSeqFull DEF Fits
    <3> QED BY <1>1, <3>1 DEF Made
  <2>2. TransformIn("regular", Eofr) = [rx |-> "fine", c |-> Eofr, data |-> FALSE]
    BY StuffingAssumption DEF TransformIn, RxNext, InRegular, Opened, Control
  <2> QED BY <1>2, <1>3, <2>1, <2>2 DEF After, Finished
<1>4. CASE ~Fits(o.frame)
  <2>1. Made(o, got) = [rx |-> "invalid", buf |-> <<>>, got |-> got]
    BY <1>1, <1>4 DEF Made, Fits
  <2> QED BY <1>2, <1>4, <2>1, AfterHunting
<1> QED BY <1>3, <1>4

-----------------------------------------------------------------------------
(* The actions. *)

\* The receiver reads what the sender puts.
LEMMA SourceOfReceiver == Source(Receiver) = Sender /\ Sender \in Station
BY PollingAssumption, UartAssumption DEF Source

\* A character put while the register is free goes behind the one on the line.
LEMMA PutBehind ==
  ASSUME LineInv, Ready(Sender), NEW c \in Byte, Put(Sender, c),
         UNCHANGED <<wire, in, delivered>>
  PROVE  /\ UartTypeOK(Byte)'
         /\ After(After(RecvView, wire[Sender]), udr[Sender])'
              = After(Made(out, Fitting(accepted)), c)
<1>1. udr[Sender] = Empty /\ udr' = [udr EXCEPT ![Sender] = c]
  BY DEF Ready, Put
<1>2. udr \in [Station -> Byte \cup {Empty}]
  BY DEF LineInv, UartTypeOK
<1>3. udr'[Sender] = c /\ udr' \in [Station -> Byte \cup {Empty}]
  BY <1>1, <1>2, SourceOfReceiver
<1>4. After(RecvView, wire[Sender]) = Made(out, Fitting(accepted))
  BY <1>1, AfterNothing DEF LineInv
<1>5. RecvView' = RecvView
  BY DEF RecvView
<1>6. UartTypeOK(Byte)'
  BY <1>3 DEF LineInv, UartTypeOK
<1> QED BY <1>3, <1>4, <1>5, <1>6

LEMMA InitLine == Init => LineInv
<1> SUFFICES ASSUME Init PROVE LineInv
  OBVIOUS
<1>1. UartTypeOK(Byte) /\ wire[Sender] = Empty /\ udr[Sender] = Empty
  BY SourceOfReceiver DEF Init, UartInit, UartTypeOK
<1>2. out \in Call /\ SendOK(out) /\ accepted \in Seq(Frames) /\ delivered \in Seq(Seq(Byte))
  BY DEF Init, Call, SendOK, State
<1>3. in \in [pc : {"idle", "wait"}, rx : State, buf : Seq(Byte)]
  BY DEF Init, State
<1>4. Fitting(<<>>) = <<>>
  <2>1. <<>> \in Seq({<<>>})
    OBVIOUS
  <2> QED BY <2>1, FittingAppend
<1>5. RecvView = Made(out, Fitting(accepted))
  BY <1>4 DEF Init, RecvView, Made
<1> QED BY <1>1, <1>2, <1>3, <1>5, AfterNothing DEF LineInv

\* With a pause before every send(), the line is drained when it begins.
LEMMA SendStartLine ==
  ASSUME Paced, LineInv, NEW f \in Frames, SendStart(f)
  PROVE  LineInv'
<1>1. Ready(Sender) /\ Put(Sender, Sofr) /\ UNCHANGED <<wire, in, accepted, delivered>>
  BY SourceOfReceiver DEF SendStart, Drained, Ready
<1>2. Sofr \in Byte
  BY StuffingAssumption DEF Control
<1>3. out' = [pc |-> "bytes", tx |-> "started", frame |-> f, i |-> 0]
  BY DEF SendStart, StartFrame
<1>4. Len(f) \in Nat /\ RecvSize \in Nat /\ f \in Seq(Byte)
  BY PollingAssumption
<1>5. out' \in Call /\ SendOK(out')
  BY <1>3, <1>4 DEF Call, SendOK, State
<1>6. Made(out', Fitting(accepted)) = [rx |-> "started", buf |-> <<>>, got |-> Fitting(accepted)]
  <2>1. SubSeq(f, 1, 0) = <<>>
    BY <1>4
  <2> QED BY <1>3, <1>4, <2>1 DEF Made
<1>7. Made(out, Fitting(accepted)) = [rx |-> "invalid", buf |-> <<>>, got |-> Fitting(accepted)]
  BY DEF SendStart, Made
<1>8. After(Made(out, Fitting(accepted)), Sofr) = Made(out', Fitting(accepted))
  BY <1>6, <1>7, AfterStart
<1> QED BY <1>1, <1>2, <1>5, <1>8, PutBehind DEF LineInv

LEMMA SendByteLine ==
  ASSUME LineInv, SendByte
  PROVE  LineInv'
<1> DEFINE step == TransformOut(out.tx, out.frame[out.i + 1])
<1>1. /\ Ready(Sender) /\ Put(Sender, step.c) /\ UNCHANGED <<wire, in, accepted, delivered>>
      /\ out.pc = "bytes" /\ out.i < Len(out.frame)
      /\ out' = [out EXCEPT !.tx = step.tx, !.i = IF Again(step.tx) THEN @ ELSE @ + 1]
  BY DEF SendByte
<1>2. out \in Call /\ SendOK(out)
  BY DEF LineInv
<1>3. out' = Turn(out, step)
  <2>1. out = [pc |-> "bytes", tx |-> out.tx, frame |-> out.frame, i |-> out.i]
    BY <1>1, <1>2 DEF Call
  <2> HIDE DEF step
  <2> QED BY <1>1, <2>1 DEF Turn
<1>4. /\ step.c \in Byte /\ out' \in Call /\ SendOK(out')
      /\ After(Made(out, Fitting(accepted)), step.c) = Made(out', Fitting(accepted))
  BY <1>1, <1>2, <1>3, AfterByte
<1> HIDE DEF step
<1> QED BY <1>1, <1>4, PutBehind DEF LineInv

LEMMA SendEndLine ==
  ASSUME LineInv, SendEnd
  PROVE  LineInv'
<1>1. /\ Ready(Sender) /\ Put(Sender, Eofr) /\ UNCHANGED <<wire, in, delivered>>
      /\ out.pc = "bytes" /\ out.i = Len(out.frame)
      /\ out' = [out EXCEPT !.pc = "idle", !.tx = EndFrame(out.tx)]
      /\ accepted' = Append(accepted, out.frame)
  BY DEF SendEnd
<1>2. out \in Call /\ SendOK(out) /\ accepted \in Seq(Frames) /\ out.frame \in Frames
  BY <1>1 DEF LineInv, SendOK
<1>3. Eofr \in Byte
  BY StuffingAssumption DEF Control
<1>4. EndFrame(out.tx) \in State
  BY <1>2 DEF EndFrame, Call, State
<1>5. out' \in Call /\ out'.pc = "idle"
  BY <1>1, <1>2, <1>4 DEF Call
<1>6. accepted' \in Seq(Frames)
  BY <1>1, <1>2
<1>7. Fitting(accepted') = IF Fits(out.frame) THEN Append(Fitting(accepted), out.frame)
                                              ELSE Fitting(accepted)
  BY <1>1, <1>2, FittingAppend
<1>8. After(Made(out, Fitting(accepted)), Eofr) = Made(out', Fitting(accepted'))
  BY <1>1, <1>2, <1>5, <1>7, AfterEnd DEF Made
<1> QED BY <1>1, <1>3, <1>5, <1>6, <1>8, PutBehind DEF LineInv, SendOK

LEMMA RecvCallLine ==
  ASSUME LineInv, RecvCall
  PROVE  LineInv'
<1>1. in' = [pc |-> "wait", rx |-> "invalid", buf |-> <<>>] /\ in.pc = "idle"
      /\ UNCHANGED <<udr, wire, out, accepted, delivered>>
  BY DEF RecvCall, uartVars
<1>2. in' \in [pc : {"idle", "wait"}, rx : State, buf : Seq(Byte)]
  BY <1>1 DEF State
<1>3. RecvView' = RecvView
  BY <1>1 DEF RecvView
<1> QED BY <1>1, <1>2, <1>3 DEF LineInv, UartTypeOK

LEMMA LineShiftLine ==
  ASSUME LineInv, LineShift
  PROVE  LineInv'
<1>1. /\ udr[Sender] # Empty /\ wire[Sender] = Empty
      /\ wire' = [wire EXCEPT ![Sender] = udr[Sender]]
      /\ udr' = [udr EXCEPT ![Sender] = Empty]
      /\ UNCHANGED <<out, in, accepted, delivered>>
  BY DEF LineShift, Shift
<1>2. UartTypeOK(Byte)
  BY DEF LineInv
<1>3. /\ UartTypeOK(Byte)'
      /\ wire'[Sender] = udr[Sender] /\ udr'[Sender] = Empty
  BY <1>1, <1>2, SourceOfReceiver DEF UartTypeOK
<1>4. RecvView' = RecvView
  BY <1>1 DEF RecvView
<1>5. After(After(RecvView, wire[Sender]), udr[Sender])' = After(RecvView, udr[Sender])
  BY <1>3, <1>4, AfterNothing
<1>6. After(RecvView, udr[Sender]) = Made(out, Fitting(accepted))
  BY <1>1, AfterNothing DEF LineInv
<1> QED BY <1>1, <1>3, <1>5, <1>6 DEF LineInv

\* One turn of the loop of recv() is one step of After.
LEMMA RecvByteLine ==
  ASSUME LineInv, RecvByte
  PROVE  LineInv'
<1> DEFINE c    == wire[Sender]
           step == TransformIn(in.rx, c)
<1>1. /\ in.pc = "wait" /\ c # Empty
      /\ wire' = [wire EXCEPT ![Sender] = Empty]
      /\ UNCHANGED <<udr, out, accepted>>
      /\ delivered' = IF ~step.data /\ Finished(step.rx)
                      THEN Append(delivered, in.buf) ELSE delivered
  BY SourceOfReceiver DEF RecvByte, RecvByteThen, RxReady, Get
<1>2. /\ UartTypeOK(Byte)
      /\ in \in [pc : {"idle", "wait"}, rx : State, buf : Seq(Byte)]
      /\ delivered \in Seq(Seq(Byte))
  BY DEF LineInv
<1>3. /\ UartTypeOK(Byte)' /\ wire'[Sender] = Empty /\ udr'[Sender] = udr[Sender]
      /\ c \in Byte
  BY <1>1, <1>2, SourceOfReceiver DEF UartTypeOK
<1>4. step.rx \in State /\ step.c \in Byte /\ step.data \in BOOLEAN
  BY <1>2, <1>3, StuffingAssumption
     DEF TransformIn, RxNext, InRegular, Opened, State, Control
<1>5. \/ /\ step.data /\ Len(in.buf) = RecvSize
         /\ in' = [[in EXCEPT !.rx = step.rx] EXCEPT !.rx = "invalid", !.buf = <<>>]
      \/ /\ step.data /\ Len(in.buf) # RecvSize
         /\ in' = [[in EXCEPT !.rx = step.rx] EXCEPT !.buf = Append(@, step.c)]
      \/ /\ ~step.data
         /\ in' = [[in EXCEPT !.rx = step.rx] EXCEPT
                     !.buf = IF Restarted(step.rx) THEN <<>> ELSE @,
                     !.pc  = IF Finished(step.rx) THEN "idle" ELSE @]
  BY SourceOfReceiver DEF RecvByte, RecvByteThen
<1>6. step.data => step.rx = "regular"
  BY DEF TransformIn, RxNext, InRegular, Opened, Control
<1>7. in = [pc |-> "wait", rx |-> in.rx, buf |-> in.buf] /\ in.buf \in Seq(Byte)
  BY <1>1, <1>2
<1>8. RecvView = [rx |-> in.rx, buf |-> in.buf, got |-> delivered]
  BY <1>1 DEF RecvView
<1> HIDE DEF step, c
<1>9. /\ in' \in [pc : {"idle", "wait"}, rx : State, buf : Seq(Byte)]
      /\ delivered' \in Seq(Seq(Byte))
      /\ RecvView' = After(RecvView, c)
  <2>1. CASE step.data /\ Len(in.buf) = RecvSize
    <3>1. in' = [pc |-> "wait", rx |-> "invalid", buf |-> <<>>] /\ delivered' = delivered
      BY <1>1, <1>5, <1>7, <2>1
    <3>2. After(RecvView, c) = [rx |-> "invalid", buf |-> <<>>, got |-> delivered]
      BY <1>1, <1>8, <2>1 DEF After, Stored, step
    <3> QED BY <1>2, <3>1, <3>2 DEF RecvView, State
  <2>2. CASE step.data /\ Len(in.buf) # RecvSize
    <3>1. /\ in' = [pc |-> "wait", rx |-> "regular", buf |-> Append(in.buf, step.c)]
          /\ delivered' = delivered
      BY <1>1, <1>5, <1>6, <1>7, <2>2
    <3>2. After(RecvView, c)
            = [rx |-> "regular", buf |-> Append(in.buf, step.c), got |-> delivered]
      BY <1>1, <1>8, <2>2 DEF After, Stored, step
    <3>3. Append(in.buf, step.c) \in Seq(Byte)
      BY <1>4, <1>7
    <3> QED BY <1>2, <3>1, <3>2, <3>3 DEF RecvView, State
  <2>3. CASE ~step.data /\ Finished(step.rx)
    <3>1. in'.pc = "idle" /\ in' \in [pc : {"idle", "wait"}, rx : State, buf : Seq(Byte)]
      <4>1. ~Restarted(step.rx)
        BY <2>3 DEF Finished, Restarted
      <4>2. in' = [pc |-> "idle", rx |-> step.rx, buf |-> in.buf]
        BY <1>5, <1>7, <2>3, <4>1
      <4> QED BY <1>4, <1>7, <4>2
    <3>2. delivered' = Append(delivered, in.buf) /\ delivered' \in Seq(Seq(Byte))
      BY <1>1, <1>2, <1>7, <2>3
    <3>3. After(RecvView, c)
            = [rx |-> "invalid", buf |-> <<>>, got |-> Append(delivered, in.buf)]
      BY <1>1, <1>8, <2>3 DEF After, step
    <3> QED BY <3>1, <3>2, <3>3 DEF RecvView
  <2>4. CASE ~step.data /\ ~Finished(step.rx)
    <3> DEFINE buf == IF Restarted(step.rx) THEN <<>> ELSE in.buf
    <3>1. in' = [pc |-> "wait", rx |-> step.rx, buf |-> buf] /\ delivered' = delivered
      BY <1>1, <1>5, <1>7, <2>4
    <3>2. After(RecvView, c) = [rx |-> step.rx, buf |-> buf, got |-> delivered]
      BY <1>1, <1>8, <2>4 DEF After, step
    <3>3. buf \in Seq(Byte)
      BY <1>7
    <3> HIDE DEF buf
    <3> QED BY <1>2, <1>4, <3>1, <3>2, <3>3 DEF RecvView
  <2> QED BY <1>4, <2>1, <2>2, <2>3, <2>4
<1>10. After(After(RecvView, wire[Sender]), udr[Sender])'
         = After(After(RecvView, wire[Sender]), udr[Sender])
  BY <1>3, <1>9, AfterNothing DEF c
<1> QED BY <1>1, <1>3, <1>9, <1>10 DEF LineInv

LEMMA StutterLine ==
  ASSUME LineInv, UNCHANGED vars
  PROVE  LineInv'
<1>1. UNCHANGED <<udr, wire, out, in, accepted, delivered>>
  BY DEF vars
<1>2. RecvView' = RecvView
  BY <1>1 DEF RecvView
<1> QED BY <1>1, <1>2 DEF LineInv, UartTypeOK

-----------------------------------------------------------------------------

\* With a pause between two sends, when the line is drained and no send() is
\* in progress, recv() has returned exactly the frames that were sent and fit
\* its buffer, in order: for every frame, every buffer size and every sound
\* set of control characters (CDeviceFrameNoInt::send and recv).
THEOREM FramesArrive == Paced /\ Spec => []SentIsReceived
<1> SUFFICES ASSUME Paced PROVE Spec => []SentIsReceived
  OBVIOUS
<1>1. Init => LineInv
  BY InitLine
<1>2. LineInv /\ [Next]_vars => LineInv'
  BY SendStartLine, SendByteLine, SendEndLine, RecvCallLine, RecvByteLine, LineShiftLine,
     StutterLine DEF Next
<1>3. LineInv => SentIsReceived
  <2> SUFFICES ASSUME LineInv, Drained, out.pc = "idle"
               PROVE  delivered = Fitting(accepted)
    BY DEF SentIsReceived
  <2>1. udr[Sender] = Empty /\ wire[Sender] = Empty
    BY SourceOfReceiver DEF Drained
  <2>2. RecvView = Made(out, Fitting(accepted))
    BY <2>1, AfterNothing DEF LineInv
  <2>3. RecvView.got = delivered
    BY DEF RecvView
  <2>4. Made(out, Fitting(accepted)).got = Fitting(accepted)
    BY DEF Made
  <2> QED BY <2>2, <2>3, <2>4
<1> QED BY <1>1, <1>2, <1>3, PTL DEF Spec

=============================================================================
