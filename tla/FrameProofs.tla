---------------------------- MODULE FrameProofs ----------------------------
(***************************************************************************)
(* Proofs about CDeviceFrame, for every set of stations, every wiring,     *)
(* every payload size and every sound choice of control characters.        *)
(***************************************************************************)
EXTENDS FrameProps, SequenceTheorems, TLAPS

-----------------------------------------------------------------------------
(* CFrame *)

\* transformOut yields a state of the machine and a character.
LEMMA TransformOutType ==
  ASSUME NEW tx \in State, NEW c \in Byte
  PROVE  /\ TransformOut(tx, c).tx \in State
         /\ TransformOut(tx, c).c \in Byte
BY StuffingAssumption DEF TransformOut, Opened, MustStuff, State, Control

\* transformIn yields a state of the machine and a character.
LEMMA TransformInType ==
  ASSUME NEW rx \in State, NEW c \in Byte
  PROVE  /\ TransformIn(rx, c).rx \in State
         /\ TransformIn(rx, c).c \in Byte
         /\ TransformIn(rx, c).data \in BOOLEAN
BY StuffingAssumption DEF TransformIn, RxNext, InRegular, Opened, State, Control
\* What the transmitter makes of one byte, the receiver turns back into that
\* byte: an ordinary character is a data byte at once; a control character
\* goes out as esc, which is no data, and one more character, which is.
\* Sender and receiver stay in step.
THEOREM ByteRoundTrip ==
  ASSUME NEW c \in Byte, NEW state \in {"started", "regular"}
  PROVE  LET out1 == TransformOut(state, c)
             in1  == TransformIn(state, out1.c)
             out2 == TransformOut(out1.tx, c)
             in2  == TransformIn(in1.rx, out2.c)
         IN  /\ ~Again(out1.tx) => in1 = [rx |-> "regular", c |-> c, data |-> TRUE]
             /\ Again(out1.tx)  => /\ in1.rx = "stuff" /\ ~in1.data
                                   /\ ~Again(out2.tx)
                                   /\ in2 = [rx |-> "regular", c |-> c, data |-> TRUE]
<1>1. CASE c \in Control
  <2>1. /\ TransformOut(state, c) = [tx |-> "stuff", c |-> Esc]
        /\ TransformOut("stuff", c) = [tx |-> "regular", c |-> Stuffed[c]]
    BY <1>1 DEF TransformOut, Opened, MustStuff
  <2>2. /\ TransformIn(state, Esc) = [rx |-> "stuff", c |-> Esc, data |-> FALSE]
        /\ TransformIn("stuff", Stuffed[c]) =
             [rx |-> "regular", c |-> Stuffed[Stuffed[c]], data |-> TRUE]
    BY StuffingAssumption DEF TransformIn, RxNext, InRegular, Opened, Control
  <2>3. Stuffed[Stuffed[c]] = c
    BY StuffingAssumption
  <2> QED BY <2>1, <2>2, <2>3 DEF Again
<1>2. CASE c \notin Control
  <2>1. TransformOut(state, c) = [tx |-> "regular", c |-> c]
    BY <1>2 DEF TransformOut, Opened, MustStuff
  <2>2. TransformIn(state, c) = [rx |-> "regular", c |-> c, data |-> TRUE]
    BY <1>2 DEF TransformIn, RxNext, InRegular, Opened, Control
  <2> QED BY <2>1, <2>2 DEF Again
<1> QED BY <1>1, <1>2

-----------------------------------------------------------------------------
(* Uart *)

\* Every station has one source, the station wired to it.
LEMMA SourceType ==
  ASSUME NEW p \in Station
  PROVE  Source(p) \in Station /\ Peer[Source(p)] = p
BY UartAssumption DEF Source

-----------------------------------------------------------------------------
(* CDeviceFrame: the methods keep the shape of the object. *)

LEMMA NewDeviceType == NewDevice \in Device
BY DeviceAssumption DEF NewDevice, Device, State, Size, Cell

LEMMA SendType ==
  ASSUME NEW d \in Device, NEW f \in Frames
  PROVE  Send(d, f) \in Device
<1>1. f \in Seq(Byte) /\ Len(f) \in Size
  BY DeviceAssumption DEF Size
<1>2. [i \in Cell |-> IF i < Len(f) THEN f[i + 1] ELSE d.sendBuf[i]] \in [Cell -> Byte]
  <2> SUFFICES ASSUME NEW i \in Cell, i < Len(f) PROVE f[i + 1] \in Byte
    BY DEF Device
  <2> QED BY <1>1 DEF Cell
<1>3. 0 \in Size
  BY DeviceAssumption DEF Size
<1> QED BY <1>1, <1>2, <1>3 DEF Send, Device, State

LEMMA RecvType ==
  ASSUME NEW d \in Device
  PROVE  Recv(d) \in Device
BY DEF Recv, Device, State

LEMMA StoreByteType ==
  ASSUME NEW d \in Device, NEW c \in Byte
  PROVE  StoreByte(d, c) \in Device
<1>1. (d.recvSize + 1) % (Payload + 1) \in Size /\ c \in Size
  BY DeviceAssumption DEF Device, Size
<1>2. CASE d.recvSize < Payload
  <2>1. d.recvSize \in Cell
    BY <1>2, DeviceAssumption DEF Device, Size, Cell
  <2> QED BY <1>1, <1>2, <2>1 DEF StoreByte, Device
<1>3. CASE ~(d.recvSize < Payload)
  BY <1>1, <1>3 DEF StoreByte, Device
<1> QED BY <1>2, <1>3

LEMMA GetOnReceiveType ==
  ASSUME NEW d \in Device, NEW c \in Byte
  PROVE  GetOnReceive(d, c) \in Device
<1> DEFINE rx0  == IF RecvPosition = Payload THEN "invalid" ELSE d.rx
           in   == TransformIn(rx0, c)
           next == [d EXCEPT !.rx = in.rx]
<1>1. rx0 \in State
  BY DEF State, Device
<1>2. in.rx \in State /\ in.c \in Byte
  BY <1>1, TransformInType
<1>3. next \in Device
  BY <1>2 DEF Device
<1>4. StoreByte(next, in.c) \in Device
  BY <1>2, <1>3, StoreByteType
<1>5. \A n \in Device : [n EXCEPT !.recvSize = 0] \in Device
  <2>1. 0 \in Size
    BY DeviceAssumption DEF Size
  <2> QED BY <2>1 DEF Device
<1> HIDE DEF next
<1>6. [next EXCEPT !.recvSize = 0] \in Device
  BY <1>3, <1>5
<1> USE DEF next
<1> QED BY <1>3, <1>4, <1>6 DEF GetOnReceive

\* The frame in the first size cells of a buffer is a sequence of bytes.
LEMMA ContentType ==
  ASSUME NEW buf \in [Cell -> Byte], NEW size \in Size
  PROVE  Content(buf, size) \in Seq(Byte)
<1>1. \A i \in 1 .. size : buf[i - 1] \in Byte
  BY DeviceAssumption DEF Cell, Size
<1>2. size \in Nat
  BY DeviceAssumption DEF Size
<1> QED BY <1>1, <1>2 DEF Content

-----------------------------------------------------------------------------
(* CDeviceFrame: type correctness. *)

\* What the receive interrupt leaves behind is a device object, and what it
\* hands over is a sequence of bytes.
LEMMA ReceivedType ==
  ASSUME NEW d \in Device
  PROVE  Content(d.recvBuf, d.recvSize) \in Seq(Byte)
<1>1. d.recvBuf \in [Cell -> Byte] /\ d.recvSize \in Size
  BY DEF Device
<1> QED BY <1>1, ContentType

LEMMA InitTypeOK == Init => TypeOK
<1> SUFFICES ASSUME Init PROVE TypeOK
  OBVIOUS
<1>1. device \in [Station -> Device]
  BY NewDeviceType DEF Init
<1>2. UartTypeOK(Byte)
  BY DEF Init, UartInit, UartTypeOK
<1>3. /\ accepted \in [Station -> Seq(Frames)]
      /\ sent \in [Station -> Seq(Seq(Byte))]
      /\ delivered \in [Station -> Seq(Seq(Byte))]
      /\ ready \in [Station -> BOOLEAN]
      /\ damaged \in [Station -> BOOLEAN]
  BY DEF Init
<1> QED BY <1>1, <1>2, <1>3 DEF TypeOK

\* Every step keeps the shape of the state.
LEMMA NextTypeOK == TypeOK /\ [Next]_vars => TypeOK'
<1> SUFFICES ASSUME TypeOK, [Next]_vars PROVE TypeOK'
  OBVIOUS
<1> USE DEF TypeOK
<1>1. CASE UNCHANGED vars
  BY <1>1 DEF vars, uartVars, UartTypeOK
<1>2. ASSUME NEW s \in Station, NEW f \in Frames, AppSend(s, f) PROVE TypeOK'
  <2>1. device[s] \in Device
    OBVIOUS
  <2>2. Send(device[s], f) \in Device
    BY <2>1, SendType
  <2>3. device' \in [Station -> Device]
    BY <1>2, <2>2 DEF AppSend
  <2>4. accepted' \in [Station -> Seq(Frames)]
    BY <1>2 DEF AppSend
  <2>5. ready' \in [Station -> BOOLEAN]
    BY <1>2 DEF AppSend
  <2> QED BY <1>2, <2>3, <2>4, <2>5 DEF AppSend, uartVars, UartTypeOK
<1>3. ASSUME NEW s \in Station, AppRecv(s) PROVE TypeOK'
  <2>1. device[s] \in Device
    OBVIOUS
  <2>2. device' \in [Station -> Device]
    BY <1>3, <2>1, RecvType DEF AppRecv
  <2>3. delivered' \in [Station -> Seq(Seq(Byte))]
    BY <1>3, <2>1, ReceivedType DEF AppRecv
  <2> QED BY <1>3, <2>2, <2>3 DEF AppRecv, uartVars, UartTypeOK
<1>4. ASSUME NEW s \in Station, TxStart(s) PROVE TypeOK'
  <2>1. device[s] \in Device
    OBVIOUS
  <2>2. device' \in [Station -> Device]
    BY <1>4, <2>1 DEF TxStart, StartFrame, Device, State
  <2>3. UartTypeOK(Byte)'
    BY <1>4, StuffingAssumption DEF TxStart, Put, UartTypeOK, Control
  <2> QED BY <1>4, <2>2, <2>3 DEF TxStart, historyVars
<1>5. ASSUME NEW s \in Station, TxIdle(s) PROVE TypeOK'
  <2>1. device[s] \in Device
    OBVIOUS
  <2>2. device' \in [Station -> Device]
    BY <1>5, <2>1 DEF TxIdle, Device
  <2> QED BY <1>5, <2>2 DEF TxIdle, historyVars, uartVars, UartTypeOK
<1>6. ASSUME NEW s \in Station, TxEnd(s) PROVE TypeOK'
  <2>1. device[s] \in Device
    OBVIOUS
  <2>2. device' \in [Station -> Device]
    BY <1>6, <2>1 DEF TxEnd, EndFrame, Device, State
  <2>3. Content(device[s].sendBuf, device[s].sendSize) \in Seq(Byte)
    BY <2>1, ContentType DEF Device
  <2>4. sent' \in [Station -> Seq(Seq(Byte))]
    BY <1>6, <2>3 DEF TxEnd
  <2>5. UartTypeOK(Byte)'
    BY <1>6, StuffingAssumption DEF TxEnd, Put, UartTypeOK, Control
  <2> QED BY <1>6, <2>2, <2>4, <2>5 DEF TxEnd
<1>7. ASSUME NEW s \in Station, NEW stray \in Byte, TxByte(s, stray) PROVE TypeOK'
  <2> DEFINE d == device[s]
             b == IF d.sendPos < Payload THEN d.sendBuf[d.sendPos] ELSE stray
             out == TransformOut(d.tx, b)
  <2>1. d \in Device
    OBVIOUS
  <2>2. b \in Byte /\ d.tx \in State
    BY <2>1, DeviceAssumption DEF Device, Cell, Size
  <2>3. out.tx \in State /\ out.c \in Byte
    BY <2>2, TransformOutType
  <2>4. (d.sendPos + 1) % (Payload + 1) \in Size
    BY <2>1, DeviceAssumption DEF Device, Size
  <2>5. device' \in [Station -> Device]
    BY <1>7, <2>1, <2>3, <2>4 DEF TxByte, Device
  <2>6. UartTypeOK(Byte)'
    BY <1>7, <2>3 DEF TxByte, Put, UartTypeOK
  <2> QED BY <1>7, <2>5, <2>6 DEF TxByte, historyVars
<1>8. ASSUME NEW s \in Station, RxInterrupt(s) PROVE TypeOK'
  <2> DEFINE c == wire[Source(s)]
             d == GetOnReceive(device[s], c)
  <2>1. c \in Byte
    BY <1>8, SourceType DEF RxInterrupt, RxReady, UartTypeOK
  <2>2. d \in Device
    BY <2>1, GetOnReceiveType
  <2>3. Recv(d) \in Device /\ Content(d.recvBuf, d.recvSize) \in Seq(Byte)
    BY <2>2, RecvType, ReceivedType
  <2> HIDE DEF d, c
  <2>4. /\ device' \in [Station -> Device]
        /\ delivered' \in [Station -> Seq(Seq(Byte))]
    BY <1>8, <2>2, <2>3 DEF RxInterrupt, d, c
  <2>5. damaged' \in [Station -> BOOLEAN]
    BY <1>8 DEF RxInterrupt
  <2>6. UartTypeOK(Byte)'
    BY <1>8 DEF RxInterrupt, Get, UartTypeOK
  <2> QED BY <1>8, <2>4, <2>5, <2>6 DEF RxInterrupt
<1>9. ASSUME NEW s \in Station, LineShift(s) PROVE TypeOK'
  BY <1>9 DEF LineShift, Shift, historyVars, UartTypeOK
<1>10. ASSUME NEW s \in Station, LineLose(s) PROVE TypeOK'
  BY <1>10 DEF LineLose, Lose, historyVars, UartTypeOK
<1> QED
  BY <1>1, <1>2, <1>3, <1>4, <1>5, <1>6, <1>7, <1>8, <1>9, <1>10 DEF Next, TxInterrupt

\* The state keeps its shape, also when a frame overruns the receive buffer
\* and when characters are lost.
THEOREM TypeCorrect == Spec => []TypeOK
BY InitTypeOK, NextTypeOK, PTL DEF Spec

-----------------------------------------------------------------------------
(* CDeviceFrame: a transmission in progress is never stranded. *)

\* The receive half of the object does not touch the transmit state or the
\* interrupt enable; StoreByte may hit the position, when it overruns.
LEMMA ReceiveKeepsTransmit ==
  ASSUME NEW d \in Device, NEW c \in Byte
  PROVE  /\ GetOnReceive(d, c).tx = d.tx /\ GetOnReceive(d, c).udrie = d.udrie
         /\ Recv(GetOnReceive(d, c)).tx = d.tx
         /\ Recv(GetOnReceive(d, c)).udrie = d.udrie
<1>1. \A n \in Device, b \in Byte :
        StoreByte(n, b).tx = n.tx /\ StoreByte(n, b).udrie = n.udrie
  BY DEF StoreByte, Device
<1>2. \A n \in Device : Recv(n).tx = n.tx /\ Recv(n).udrie = n.udrie
  BY DEF Recv, Device
<1> DEFINE rx0  == IF RecvPosition = Payload THEN "invalid" ELSE d.rx
           in   == TransformIn(rx0, c)
           next == [d EXCEPT !.rx = in.rx]
<1>3. in.rx \in State /\ in.c \in Byte
  BY TransformInType DEF State, Device
<1>4. next \in Device /\ next.tx = d.tx /\ next.udrie = d.udrie
  BY <1>3 DEF Device
<1> HIDE DEF next
<1>5. /\ [next EXCEPT !.recvSize = 0].tx = d.tx
      /\ [next EXCEPT !.recvSize = 0].udrie = d.udrie
  BY <1>4 DEF Device
<1>6. /\ StoreByte(next, in.c).tx = d.tx
      /\ StoreByte(next, in.c).udrie = d.udrie
  BY <1>1, <1>3, <1>4
<1> HIDE DEF in
<1>7. GetOnReceive(d, c) = IF in.data THEN StoreByte(next, in.c)
                           ELSE IF Restarted(in.rx) THEN [next EXCEPT !.recvSize = 0]
                           ELSE next
  BY DEF GetOnReceive, in, next
<1> QED BY <1>2, <1>4, <1>5, <1>6, <1>7, GetOnReceiveType

\* While a frame is going out its interrupt is enabled, so the transmitter
\* cannot stop halfway and refuse all later frames: whatever arrives
\* meanwhile, whenever the application calls send() or recv() under a lock,
\* and on a lossy line.  (Without the lock a polled recv() can break it, by
\* storing a transmit state that the interrupt has left meanwhile.)
THEOREM NeverStranded == Spec => []SendingHasInterrupt
<1>1. Init => SendingHasInterrupt
  BY DEF Init, NewDevice, SendingHasInterrupt, Sending
<1>2. TypeOK /\ SendingHasInterrupt /\ [Next]_vars => SendingHasInterrupt'
  <2> SUFFICES ASSUME TypeOK, SendingHasInterrupt, [Next]_vars PROVE SendingHasInterrupt'
    OBVIOUS
  <2> USE DEF SendingHasInterrupt
  <2>0. device \in [Station -> Device]
    BY DEF TypeOK
  <2>1. CASE UNCHANGED vars
    BY <2>1 DEF vars
  <2>2. ASSUME NEW s \in Station, NEW f \in Frames, AppSend(s, f) PROVE SendingHasInterrupt'
    <3>1. Send(device[s], f).tx = "invalid"
      BY <2>0, <2>2 DEF AppSend, Send, Device
    <3> QED BY <2>0, <2>2, <3>1 DEF AppSend, Sending
  <2>3. ASSUME NEW s \in Station, AppRecv(s) PROVE SendingHasInterrupt'
    BY <2>0, <2>3 DEF AppRecv, Recv, Device
  <2>4. ASSUME NEW s \in Station, TxStart(s) PROVE SendingHasInterrupt'
    BY <2>0, <2>4 DEF TxStart, TxPending, Device
  <2>5. ASSUME NEW s \in Station, TxIdle(s) PROVE SendingHasInterrupt'
    BY <2>0, <2>5 DEF TxIdle, Device
  <2>6. ASSUME NEW s \in Station, TxEnd(s) PROVE SendingHasInterrupt'
    BY <2>0, <2>6 DEF TxEnd, TxPending, Device
  <2>7. ASSUME NEW s \in Station, NEW stray \in Byte, TxByte(s, stray)
        PROVE  SendingHasInterrupt'
    BY <2>0, <2>7 DEF TxByte, TxPending, Device
  <2>8. ASSUME NEW s \in Station, RxInterrupt(s) PROVE SendingHasInterrupt'
    <3>1. wire[Source(s)] \in Byte
      BY <2>8, SourceType DEF RxInterrupt, RxReady, TypeOK, UartTypeOK
    <3>2. device'[s].tx = device[s].tx /\ device'[s].udrie = device[s].udrie
      BY <2>0, <2>8, <3>1, ReceiveKeepsTransmit DEF RxInterrupt
    <3>3. \A t \in Station : t # s => device'[t] = device[t]
      BY <2>0, <2>8 DEF RxInterrupt
    <3> QED BY <3>2, <3>3
  <2>9. ASSUME NEW s \in Station, LineShift(s) PROVE SendingHasInterrupt'
    BY <2>9 DEF LineShift
  <2>10. ASSUME NEW s \in Station, LineLose(s) PROVE SendingHasInterrupt'
    BY <2>10 DEF LineLose
  <2> QED BY <2>1, <2>2, <2>3, <2>4, <2>5, <2>6, <2>7, <2>8, <2>9, <2>10 DEF Next, TxInterrupt
<1> QED BY <1>1, <1>2, TypeCorrect, PTL DEF Spec

-----------------------------------------------------------------------------
(* CDeviceFrame: a finished frame waits for recv(). *)

\* To a machine in fine every character is nothing: no byte of it is stored
\* and the count stays.
LEMMA FinishedIgnores ==
  ASSUME NEW d \in Device, NEW c \in Byte, Finished(d.rx)
  PROVE  GetOnReceive(d, c) = d
<1>1. RecvPosition # Payload
  BY DeviceAssumption DEF RecvPosition
<1>2. /\ TransformIn(d.rx, c).rx = "fine" /\ ~TransformIn(d.rx, c).data
      /\ ~Restarted(TransformIn(d.rx, c).rx)
  BY DEF TransformIn, RxNext, Opened, Finished, Restarted
<1>3. [d EXCEPT !.rx = "fine"] = d
  BY DEF Finished, Device
<1> QED BY <1>1, <1>2, <1>3 DEF GetOnReceive

\* A finished frame stays in the buffer, whatever arrives and whatever is lost
\* meanwhile, until recv() returns exactly it.
THEOREM FinishedStays == Spec => FinishedUntilRead
<1> DEFINE Kept(s) == Finished(device[s].rx) =>
             \/ delivered'[s] = Append(delivered[s], Content(device[s].recvBuf, device[s].recvSize))
             \/ /\ Finished(device'[s].rx)
                /\ device'[s].recvSize = device[s].recvSize
                /\ device'[s].recvBuf  = device[s].recvBuf
<1>1. TypeOK /\ [Next]_vars => [\A s \in Station : Kept(s)]_vars
  <2> SUFFICES ASSUME TypeOK, Next, NEW s \in Station PROVE Kept(s)
    OBVIOUS
  <2>0. device \in [Station -> Device] /\ DOMAIN delivered = Station
    BY DEF TypeOK
  <2>1. ASSUME NEW t \in Station, NEW f \in Frames, AppSend(t, f) PROVE Kept(s)
    <3>1. /\ Send(device[t], f).rx = device[t].rx
          /\ Send(device[t], f).recvSize = device[t].recvSize
          /\ Send(device[t], f).recvBuf = device[t].recvBuf
      BY <2>0 DEF Send, Device
    <3> QED BY <2>0, <2>1, <3>1 DEF AppSend
  <2>2. ASSUME NEW t \in Station, AppRecv(t) PROVE Kept(s)
    BY <2>0, <2>2 DEF AppRecv
  <2>3. ASSUME NEW t \in Station, TxStart(t) PROVE Kept(s)
    BY <2>0, <2>3 DEF TxStart, Device
  <2>4. ASSUME NEW t \in Station, TxIdle(t) PROVE Kept(s)
    BY <2>0, <2>4 DEF TxIdle, Device
  <2>5. ASSUME NEW t \in Station, TxEnd(t) PROVE Kept(s)
    BY <2>0, <2>5 DEF TxEnd, Device
  <2>6. ASSUME NEW t \in Station, NEW stray \in Byte, TxByte(t, stray) PROVE Kept(s)
    BY <2>0, <2>6 DEF TxByte, Device
  <2>7. ASSUME NEW t \in Station, RxInterrupt(t) PROVE Kept(s)
    <3>1. wire[Source(t)] \in Byte
      BY <2>7, SourceType DEF RxInterrupt, RxReady, TypeOK, UartTypeOK
    <3>2. CASE t # s
      BY <2>0, <2>7, <3>2 DEF RxInterrupt
    <3>3. CASE t = s
      BY <2>0, <2>7, <3>1, <3>3, FinishedIgnores DEF RxInterrupt
    <3> QED BY <3>2, <3>3
  <2>8. ASSUME NEW t \in Station, LineShift(t) \/ LineLose(t) PROVE Kept(s)
    BY <2>8 DEF LineShift, LineLose
  <2> QED BY <2>1, <2>2, <2>3, <2>4, <2>5, <2>6, <2>7, <2>8 DEF Next, TxInterrupt
<1> QED BY <1>1, TypeCorrect, PTL DEF Spec, FinishedUntilRead

-----------------------------------------------------------------------------
(***************************************************************************)
(* CDeviceFrame on a line that loses nothing implements FrameChannel,      *)
(* whether main polls or the callback reads.                               *)
(*                                                                         *)
(* The argument: a receiver is always out of a frame, or in step with the  *)
(* sender once it has read the characters still under way (Link).          *)
(***************************************************************************)
(* The two ends of a line. *)

\* The transmit half and the receive half of a device.
WriterOf(d) == [tx |-> d.tx, buf |-> d.sendBuf, size |-> d.sendSize, pos |-> d.sendPos]
ReaderOf(d) == [rx |-> d.rx, buf |-> d.recvBuf, size |-> d.recvSize]

Char   == Byte \cup {Empty}
Writer == [tx : State, buf : [Cell -> Byte], size : Size, pos : Size]
Reader == [rx : State \cup {"overrun"}, buf : [Cell -> Byte], size : Size]

\* The receiver v after the character c; overrun is for ever.
After(v, c) ==
  LET in == TransformIn(v.rx, c)
  IN  IF c = Empty THEN v
      ELSE IF ~in.data
           THEN [rx |-> in.rx, buf |-> v.buf, size |-> IF Restarted(in.rx) THEN 0 ELSE v.size]
      ELSE IF v.size < Payload
           THEN [rx |-> in.rx, buf |-> [v.buf EXCEPT ![v.size] = in.c], size |-> v.size + 1]
      ELSE [rx |-> "overrun", buf |-> v.buf, size |-> v.size]

\* Inside a frame, the receiver v is where the sender o is, with the same
\* bytes.
InStep(v, o) ==
  \/ v.rx \in {"invalid", "fine"}
  \/ /\ v.rx \in {"started", "regular", "stuff"}
     /\ v.rx = o.tx
     /\ v.size = o.pos
     /\ \A i \in Cell : i < v.size => v.buf[i] = o.buf[i]

\* The sender holds a frame, and sends a non-empty one.
WriterOK(o) ==
  /\ o.size > 0 => Content(o.buf, o.size) \in Frames
  /\ Sending(o.tx) => o.size > 0
  /\ o.tx = "started" => o.pos = 0
  /\ o.tx = "regular" => o.pos \in 1 .. o.size
  /\ o.tx = "stuff" => o.pos < o.size /\ MustStuff(o.buf[o.pos])

\* At most one eofr is under way, that of the last frame of log; the next
\* frame has at most its start on the line behind it.
LineOK(w, u, o, log) ==
  /\ u = Eofr => o.tx \in {"fine", "invalid"}
  /\ w = Eofr => \/ u = Empty /\ o.tx \in {"fine", "invalid"}
                 \/ u = Sofr /\ o.tx = "started"
  /\ Eofr \in {w, u} => log # <<>>

\* Receivers that hunt for a frame start.
Hunting == [rx : {"invalid"}, buf : [Cell -> Byte], size : Size]

\* A receiver that joins now falls in step, and not into an end of frame.
JoinOK(w, u, o) ==
  \A h \in Hunting : /\ InStep(After(h, u), o)
                     /\ InStep(After(After(h, w), u), o)
                     /\ After(After(h, w), u).rx # "fine"

\* The receiver is in step ahead, and the frame it is about to finish is the
\* last that was sent.
AheadOK(w, u, o, v, log) ==
  LET a == After(After(v, w), u)
  IN  /\ InStep(a, o)
      /\ a.rx = "fine" /\ v.rx # "fine" => Content(a.buf, a.size) = log[Len(log)]

\* The line from sender o to receiver v, with the character w in the receive
\* and u in the transmit register, after the frames of log have been sent.
Link(w, u, o, v, log) ==
  /\ WriterOK(o)
  /\ LineOK(w, u, o, log)
  /\ JoinOK(w, u, o)
  /\ AheadOK(w, u, o, v, log)

-----------------------------------------------------------------------------
(* One character. *)

LEMMA ControlFacts ==
  /\ Esc \in Byte /\ Sofr \in Byte /\ Eofr \in Byte /\ Empty \notin Byte
  /\ Esc # Sofr /\ Esc # Eofr /\ Sofr # Eofr
  /\ Esc \in Control /\ Sofr \in Control /\ Eofr \in Control
  /\ Payload \in Nat /\ Payload > 0
BY StuffingAssumption, DeviceAssumption DEF Control

LEMMA AfterEmpty == \A v : After(v, Empty) = v
BY DEF After

\* A receiver in overrun, too, has a next state.
LEMMA AfterType ==
  ASSUME NEW v \in Reader, NEW c \in Char
  PROVE  After(v, c) \in Reader
<1>1. CASE c = Empty
  BY <1>1, AfterEmpty
<1>2. CASE c # Empty
  <2> DEFINE in == TransformIn(v.rx, c)
  <2>1. in.rx \in State \cup {"overrun"} /\ in.c \in Byte /\ in.data \in BOOLEAN
    BY <1>2, StuffingAssumption
       DEF Char, Reader, TransformIn, RxNext, InRegular, Opened, State, Control
  <2>2. v.buf \in [Cell -> Byte] /\ v.size \in Size /\ 0 \in Size
    BY ControlFacts DEF Reader, Size
  <2>3. v.size < Payload => v.size \in Cell /\ v.size + 1 \in Size
    BY <2>2, ControlFacts DEF Cell, Size
  <2>4. [v.buf EXCEPT ![v.size] = in.c] \in [Cell -> Byte]
    BY <2>1, <2>2
  <2> HIDE DEF in
  <2>5. After(v, c) =
          IF ~in.data
          THEN [rx |-> in.rx, buf |-> v.buf, size |-> IF Restarted(in.rx) THEN 0 ELSE v.size]
          ELSE IF v.size < Payload
          THEN [rx |-> in.rx, buf |-> [v.buf EXCEPT ![v.size] = in.c], size |-> v.size + 1]
          ELSE [rx |-> "overrun", buf |-> v.buf, size |-> v.size]
    BY <1>2 DEF After, in
  <2> QED BY <2>1, <2>2, <2>3, <2>4, <2>5 DEF Reader
<1> QED BY <1>1, <1>2

\* A finished receiver passes over everything.
LEMMA AfterFine ==
  ASSUME NEW v \in Reader, v.rx = "fine", NEW c
  PROVE  After(v, c) = v
<1>1. TransformIn("fine", c) = [rx |-> "fine", c |-> c, data |-> FALSE]
  BY DEF TransformIn, RxNext, Opened
<1>2. v = [rx |-> "fine", buf |-> v.buf, size |-> v.size]
  BY DEF Reader
<1> QED BY <1>1, <1>2 DEF After, Restarted

\* A hunting one passes over everything but a frame start.
LEMMA AfterInvalid ==
  ASSUME NEW v \in Reader, v.rx = "invalid", NEW c
  PROVE  After(v, c) = IF c = Sofr THEN [rx |-> "started", buf |-> v.buf, size |-> 0] ELSE v
<1>1. TransformIn("invalid", c)
        = [rx |-> IF c = Sofr THEN "started" ELSE "invalid", c |-> c, data |-> FALSE]
  BY DEF TransformIn, RxNext, Opened
<1>2. v = [rx |-> "invalid", buf |-> v.buf, size |-> v.size]
  BY DEF Reader
<1>3. CASE c = Sofr
  BY <1>1, <1>3, ControlFacts DEF After, Restarted
<1>4. CASE c # Sofr
  BY <1>1, <1>2, <1>4 DEF After, Restarted
<1> QED BY <1>3, <1>4

\* An overrun is not forgotten.
LEMMA AfterOverrun ==
  ASSUME NEW v, v.rx = "overrun", NEW c
  PROVE  After(v, c).rx = "overrun"
<1>1. TransformIn("overrun", c) = [rx |-> "overrun", c |-> c, data |-> FALSE]
  BY DEF TransformIn, RxNext, Opened
<1> QED BY <1>1 DEF After

\* Only an eofr finishes a frame.
LEMMA AfterFinishes ==
  ASSUME NEW v \in Reader, v.rx # "fine", NEW c, After(v, c).rx = "fine"
  PROVE  c = Eofr
BY DEF After, TransformIn, RxNext, InRegular, Opened, Reader, State

\* A receiver in step has room for the next byte, and stays in step.
LEMMA AfterInStep ==
  ASSUME NEW v \in Reader, NEW o \in Writer, WriterOK(o), InStep(v, o),
         Sending(o.tx), o.pos # o.size
  PROVE  LET out  == TransformOut(o.tx, o.buf[o.pos])
             next == [tx |-> out.tx, buf |-> o.buf, size |-> o.size,
                     pos |-> IF Again(out.tx) THEN o.pos ELSE o.pos + 1]
         IN  /\ out.c \in Byte /\ out.c \notin {Sofr, Eofr}
             /\ o.pos \in Cell
             /\ next \in Writer /\ WriterOK(next) /\ Sending(next.tx) /\ next.tx # "started"
             /\ InStep(After(v, out.c), next)
             /\ After(v, out.c).rx = "fine" => v.rx = "fine"
<1> DEFINE b    == o.buf[o.pos]
           out  == TransformOut(o.tx, b)
           next == [tx |-> out.tx, buf |-> o.buf, size |-> o.size,
                    pos |-> IF Again(out.tx) THEN o.pos ELSE o.pos + 1]
<1>1. /\ o.tx \in {"started", "regular", "stuff"}
      /\ o.pos \in Nat /\ o.size \in Nat /\ o.pos < o.size /\ o.size <= Payload
      /\ o.pos \in Cell /\ o.buf \in [Cell -> Byte]
      /\ o.tx = "stuff" => b \in Control
  BY ControlFacts DEF WriterOK, Writer, Sending, State, Size, Cell, MustStuff
<1>2. b \in Byte
  BY <1>1
<1>3. CASE o.tx # "stuff" /\ b \in Control
  <2>1. out = [tx |-> "stuff", c |-> Esc]
    BY <1>1, <1>3 DEF TransformOut, Opened, MustStuff
  <2>2. next = [tx |-> "stuff", buf |-> o.buf, size |-> o.size, pos |-> o.pos]
    BY <2>1 DEF Again
  <2>3. next \in Writer /\ WriterOK(next) /\ Sending(next.tx)
    <3>1. next \in Writer
      BY <2>2 DEF Writer, State
    <3>2. WriterOK(next)
      BY <1>1, <1>3, <2>2 DEF WriterOK, MustStuff, Sending
    <3> QED BY <2>2, <3>1, <3>2 DEF Sending
  <2>4. v.rx = "invalid" \/ v.rx = "fine" => After(v, Esc) = v
    BY AfterFine, AfterInvalid, ControlFacts
  <2>5. CASE v.rx \in {"invalid", "fine"}
    BY <2>1, <2>2, <2>3, <2>4, <2>5, <1>1, ControlFacts DEF InStep
  <2>6. CASE v.rx \notin {"invalid", "fine"}
    <3>1. v.rx = o.tx /\ v.size = o.pos /\ \A i \in Cell : i < v.size => v.buf[i] = o.buf[i]
      BY <2>6 DEF InStep
    <3>2. TransformIn(v.rx, Esc) = [rx |-> "stuff", c |-> Esc, data |-> FALSE]
      BY <1>1, <1>3, <3>1, ControlFacts DEF TransformIn, RxNext, InRegular, Opened
    <3>3. After(v, Esc) = [rx |-> "stuff", buf |-> v.buf, size |-> v.size]
      BY <3>2, ControlFacts DEF After, Restarted
    <3>4. InStep(After(v, Esc), next)
      <4> DEFINE a == After(v, Esc)
      <4>1. a.rx = "stuff" /\ a.buf = v.buf /\ a.size = v.size
        BY <3>3
      <4>2. next.tx = "stuff" /\ next.buf = o.buf /\ next.pos = o.pos
        BY <2>2
      <4> HIDE DEF a, next
      <4>3. InStep(a, next)
        BY <3>1, <4>1, <4>2 DEF InStep
      <4> QED BY <4>3 DEF a, next
    <3> QED BY <1>1, <2>1, <2>2, <2>3, <3>3, <3>4, ControlFacts
  <2> QED BY <2>5, <2>6
<1>4. CASE ~(o.tx # "stuff" /\ b \in Control)
  <2> DEFINE c == IF o.tx = "stuff" THEN Stuffed[b] ELSE b
  <2>1. out = [tx |-> "regular", c |-> c]
    BY <1>1, <1>4 DEF TransformOut, Opened, MustStuff
  <2>2. next = [tx |-> "regular", buf |-> o.buf, size |-> o.size, pos |-> o.pos + 1]
    BY <2>1 DEF Again
  <2>3. next \in Writer /\ WriterOK(next) /\ Sending(next.tx)
    <3>1. o.pos + 1 \in Size /\ o.pos + 1 \in 1 .. o.size
      BY <1>1, ControlFacts DEF Size
    <3>2. next \in Writer
      BY <2>2, <3>1 DEF Writer, State
    <3>3. WriterOK(next)
      BY <1>1, <2>2, <3>1 DEF WriterOK, Sending
    <3> QED BY <2>2, <3>2, <3>3 DEF Sending
  <2>4. c \in Byte /\ c \notin Control
    BY <1>1, <1>2, <1>4, StuffingAssumption
  <2>5. c # Empty /\ c # Sofr /\ c # Eofr
    BY <2>4, ControlFacts
  <2>6. Stuffed[c] = b \/ o.tx # "stuff"
    BY <1>2, StuffingAssumption
  <2> HIDE DEF c, next
  <2>7. v.rx = "invalid" \/ v.rx = "fine" => After(v, c) = v
    BY <2>5, AfterFine, AfterInvalid
  <2>8. CASE v.rx \in {"invalid", "fine"}
    BY <2>1, <2>2, <2>3, <2>4, <2>5, <2>7, <2>8, <1>1 DEF InStep, next
  <2>9. CASE v.rx \notin {"invalid", "fine"}
    <3>1. v.rx = o.tx /\ v.size = o.pos /\ \A i \in Cell : i < v.size => v.buf[i] = o.buf[i]
      BY <2>9 DEF InStep
    <3>2. TransformIn(v.rx, c) = [rx |-> "regular", c |-> b, data |-> TRUE]
      <4>1. CASE o.tx = "stuff"
        BY <2>6, <3>1, <4>1 DEF TransformIn, RxNext, Opened
      <4>2. CASE o.tx # "stuff"
        <5>1. c = b
          BY <4>2 DEF c
        <5>2. Opened(v.rx) = "regular" /\ v.rx # "stuff"
          BY <1>1, <3>1, <4>2 DEF Opened
        <5>3. c # Esc
          BY <2>4, ControlFacts
        <5> QED BY <2>4, <2>5, <5>1, <5>2, <5>3 DEF TransformIn, RxNext, InRegular
      <4> QED BY <4>1, <4>2
    <3>3. v.size < Payload
      BY <1>1, <3>1, ControlFacts
    <3>4. After(v, c) = [rx |-> "regular", buf |-> [v.buf EXCEPT ![v.size] = b],
                         size |-> v.size + 1]
      BY <2>5, <3>2, <3>3 DEF After
    <3>5. \A i \in Cell : i < v.size + 1 => [v.buf EXCEPT ![v.size] = b][i] = o.buf[i]
      <4> SUFFICES ASSUME NEW i \in Cell, i < v.size + 1
                   PROVE  [v.buf EXCEPT ![v.size] = b][i] = o.buf[i]
        OBVIOUS
      <4>1. v.buf \in [Cell -> Byte]
        BY DEF Reader
      <4>2. CASE i = v.size
        BY <3>1, <4>1, <4>2
      <4>3. CASE i # v.size
        <5>1. i < v.size
          BY <1>1, <3>1, <4>3 DEF Cell
        <5> QED BY <3>1, <4>1, <4>3, <5>1
      <4> QED BY <4>2, <4>3
    <3>6. InStep(After(v, c), next)
      BY <2>2, <3>1, <3>4, <3>5 DEF InStep
    <3> QED BY <1>1, <2>1, <2>2, <2>3, <2>4, <2>5, <3>4, <3>6 DEF next
  <2> QED BY <2>8, <2>9
<1> QED BY <1>3, <1>4
-----------------------------------------------------------------------------
(* What each step does to a line. *)

LEMMA HuntingIsReader ==
  ASSUME NEW h \in Hunting
  PROVE  h \in Reader /\ h.rx = "invalid"
BY DEF Hunting, Reader, State

\* The frame start takes a receiver that is out of a frame into step.
LEMMA StartInStep ==
  ASSUME NEW a \in Reader, NEW o, InStep(a, o), ~Sending(o.tx),
         NEW n, n.tx = "started", n.pos = 0
  PROVE  /\ InStep(After(a, Sofr), n)
         /\ After(a, Sofr).rx = "fine" => a.rx = "fine" /\ After(a, Sofr) = a
<1>1. a.rx \in {"invalid", "fine"}
  BY DEF InStep, Sending
<1>2. CASE a.rx = "fine"
  BY <1>2, AfterFine DEF InStep
<1>3. CASE a.rx = "invalid"
  <2>1. After(a, Sofr) = [rx |-> "started", buf |-> a.buf, size |-> 0]
    BY <1>3, AfterInvalid
  <2>2. \A i \in Cell : ~(i < 0)
    BY DEF Cell
  <2> QED BY <2>1, <2>2 DEF InStep
<1> QED BY <1>1, <1>2, <1>3

LEMMA LinkStart ==
  ASSUME NEW o \in Writer, NEW v \in Reader, NEW w \in Char, NEW log,
         Link(w, Empty, o, v, log), o.tx = "invalid", o.pos = 0, o.size > 0,
         NEW n, n = [tx |-> "started", buf |-> o.buf, size |-> o.size, pos |-> o.pos]
  PROVE  Link(w, Sofr, n, v, log)
<1>1. n.tx = "started" /\ n.pos = 0 /\ n.buf = o.buf /\ n.size = o.size
  OBVIOUS
<1>2. ~Sending(o.tx)
  BY DEF Sending
<1>3. WriterOK(n)
  BY <1>1 DEF Link, WriterOK, Sending
<1>4. LineOK(w, Sofr, n, log)
  BY <1>1, ControlFacts DEF Link, LineOK
<1>5. JoinOK(w, Sofr, n)
  <2> SUFFICES ASSUME NEW h \in Hunting
               PROVE  /\ InStep(After(h, Sofr), n)
                      /\ InStep(After(After(h, w), Sofr), n)
                      /\ After(After(h, w), Sofr).rx # "fine"
    BY DEF JoinOK
  <2>1. h \in Reader /\ After(h, w) \in Reader
    BY HuntingIsReader, AfterType
  <2>2. InStep(h, o) /\ InStep(After(h, w), o) /\ After(h, w).rx # "fine"
    BY AfterEmpty DEF Link, JoinOK
  <2> QED BY <1>1, <1>2, <2>1, <2>2, StartInStep
<1>6. AheadOK(w, Sofr, n, v, log)
  <2>1. After(v, w) \in Reader
    BY AfterType
  <2>2. /\ InStep(After(v, w), o)
        /\ After(v, w).rx = "fine" /\ v.rx # "fine" =>
             Content(After(v, w).buf, After(v, w).size) = log[Len(log)]
    BY AfterEmpty DEF Link, AheadOK
  <2>3. /\ InStep(After(After(v, w), Sofr), n)
        /\ After(After(v, w), Sofr).rx = "fine" =>
             After(v, w).rx = "fine" /\ After(After(v, w), Sofr) = After(v, w)
    BY <1>1, <1>2, <2>1, <2>2, StartInStep
  <2> QED BY <2>2, <2>3 DEF AheadOK
<1> QED BY <1>3, <1>4, <1>5, <1>6 DEF Link

LEMMA LinkByte ==
  ASSUME NEW o \in Writer, NEW v \in Reader, NEW w \in Char, NEW log,
         Link(w, Empty, o, v, log), Sending(o.tx), o.pos # o.size
  PROVE  LET out == TransformOut(o.tx, o.buf[o.pos])
         IN  Link(w, out.c,
                  [tx |-> out.tx, buf |-> o.buf, size |-> o.size,
                   pos |-> IF Again(out.tx) THEN o.pos ELSE o.pos + 1], v, log)
<1> DEFINE out == TransformOut(o.tx, o.buf[o.pos])
           c   == out.c
           n   == [tx |-> out.tx, buf |-> o.buf, size |-> o.size,
                   pos |-> IF Again(out.tx) THEN o.pos ELSE o.pos + 1]
<1>1. ASSUME NEW a \in Reader, InStep(a, o)
      PROVE  /\ c \in Byte /\ c \notin {Sofr, Eofr} /\ WriterOK(n)
             /\ InStep(After(a, c), n)
             /\ After(a, c).rx = "fine" => a.rx = "fine" /\ After(a, c) = a
  BY <1>1, AfterInStep, AfterFine DEF Link
<1>2. After(v, w) \in Reader
  BY AfterType
<1>3. /\ InStep(After(v, w), o)
      /\ After(v, w).rx = "fine" /\ v.rx # "fine" =>
           Content(After(v, w).buf, After(v, w).size) = log[Len(log)]
  BY AfterEmpty DEF Link, AheadOK
<1>4. o.tx \notin {"invalid", "fine"}
  BY DEF Sending
<1> HIDE DEF n, c
<1>5. LineOK(w, c, n, log)
  BY <1>1, <1>2, <1>3, <1>4, ControlFacts DEF Link, LineOK
<1>6. JoinOK(w, c, n)
  <2> SUFFICES ASSUME NEW h \in Hunting
               PROVE  /\ InStep(After(h, c), n)
                      /\ InStep(After(After(h, w), c), n)
                      /\ After(After(h, w), c).rx # "fine"
    BY DEF JoinOK
  <2>1. h \in Reader /\ After(h, w) \in Reader
    BY HuntingIsReader, AfterType
  <2>2. InStep(h, o) /\ InStep(After(h, w), o) /\ After(h, w).rx # "fine"
    BY AfterEmpty DEF Link, JoinOK
  <2> QED BY <1>1, <2>1, <2>2
<1>7. AheadOK(w, c, n, v, log)
  BY <1>1, <1>2, <1>3 DEF AheadOK
<1>8. Link(w, c, n, v, log)
  BY <1>1, <1>2, <1>3, <1>5, <1>6, <1>7 DEF Link
<1> QED BY <1>8 DEF n, c

\* The frame end finishes the frame of a receiver in step.
LEMMA EndInStep ==
  ASSUME NEW a \in Reader, NEW o \in Writer, InStep(a, o), o.tx = "regular", o.pos = o.size
  PROVE  /\ After(a, Eofr).rx \in {"invalid", "fine"}
         /\ a.rx \in {"invalid", "fine"} => After(a, Eofr) = a
         /\ a.rx \notin {"invalid", "fine"} =>
              Content(After(a, Eofr).buf, After(a, Eofr).size) = Content(o.buf, o.size)
<1>1. CASE a.rx \in {"invalid", "fine"}
  BY <1>1, AfterFine, AfterInvalid, ControlFacts
<1>2. CASE a.rx \notin {"invalid", "fine"}
  <2>1. a.rx = "regular" /\ a.size = o.size /\ \A i \in Cell : i < a.size => a.buf[i] = o.buf[i]
    BY <1>2 DEF InStep
  <2>2. TransformIn("regular", Eofr) = [rx |-> "fine", c |-> Eofr, data |-> FALSE]
    BY ControlFacts DEF TransformIn, RxNext, InRegular, Opened
  <2>3. After(a, Eofr) = [rx |-> "fine", buf |-> a.buf, size |-> a.size]
    BY <2>1, <2>2, ControlFacts DEF After, Restarted
  <2>4. \A i \in 1 .. o.size : i - 1 \in Cell /\ i - 1 < a.size
    BY <2>1, ControlFacts DEF Cell, Writer, Size
  <2>5. Content(a.buf, a.size) = Content(o.buf, o.size)
    BY <2>1, <2>4 DEF Content
  <2> QED BY <1>2, <2>3, <2>5
<1> QED BY <1>1, <1>2

LEMMA LinkEnd ==
  ASSUME NEW o \in Writer, NEW v \in Reader, NEW w \in Char, NEW S, NEW log \in Seq(S),
         Link(w, Empty, o, v, log), o.tx = "regular", o.pos = o.size,
         Content(o.buf, o.size) \in S,
         NEW n, n = [tx |-> "fine", buf |-> o.buf, size |-> o.size, pos |-> o.pos]
  PROVE  /\ w # Eofr
         /\ Link(w, Eofr, n, v, Append(log, Content(o.buf, o.size)))
<1> DEFINE f    == Content(o.buf, o.size)
           logf == Append(log, f)
<1>0. n.tx = "fine" /\ n.pos = o.pos /\ n.buf = o.buf /\ n.size = o.size
  OBVIOUS
<1>1. w # Eofr
  BY DEF Link, LineOK
<1>2. WriterOK(n)
  BY <1>0 DEF Link, WriterOK, Sending
<1>3. logf # <<>> /\ logf[Len(logf)] = f
  OBVIOUS
<1> HIDE DEF logf, f
<1>4. LineOK(w, Eofr, n, logf)
  BY <1>0, <1>1, <1>3 DEF LineOK
<1>5. JoinOK(w, Eofr, n)
  <2> SUFFICES ASSUME NEW h \in Hunting
               PROVE  /\ InStep(After(h, Eofr), n)
                      /\ InStep(After(After(h, w), Eofr), n)
                      /\ After(After(h, w), Eofr).rx # "fine"
    BY DEF JoinOK
  <2>1. h \in Reader /\ h.rx = "invalid" /\ After(h, w) \in Reader
    BY HuntingIsReader, AfterType
  <2>2. InStep(After(h, w), o) /\ After(h, w).rx # "fine"
    BY AfterEmpty DEF Link, JoinOK
  <2>3. After(h, w).rx \in {"invalid", "started"}
    BY <2>1, AfterInvalid
  <2>4. After(h, w).rx = "invalid"
    BY <2>2, <2>3 DEF InStep
  <2>5. After(h, Eofr) = h /\ After(After(h, w), Eofr) = After(h, w)
    BY <2>1, <2>4, AfterInvalid, ControlFacts
  <2> QED BY <2>1, <2>4, <2>5 DEF InStep
<1>6. AheadOK(w, Eofr, n, v, logf)
  <2> DEFINE a == After(v, w)
  <2>1. a \in Reader
    BY AfterType
  <2>2. InStep(a, o)
    BY AfterEmpty DEF Link, AheadOK
  <2>3. v.rx # "fine" => a.rx # "fine"
    BY <1>1, AfterFinishes
  <2> HIDE DEF a
  <2>4. /\ After(a, Eofr).rx \in {"invalid", "fine"}
        /\ a.rx \in {"invalid", "fine"} => After(a, Eofr) = a
        /\ a.rx \notin {"invalid", "fine"} =>
              Content(After(a, Eofr).buf, After(a, Eofr).size) = f
    BY <2>1, <2>2, EndInStep DEF f
  <2>5. InStep(After(a, Eofr), n)
    BY <2>4 DEF InStep
  <2>6. After(a, Eofr).rx = "fine" /\ v.rx # "fine" =>
          Content(After(a, Eofr).buf, After(a, Eofr).size) = logf[Len(logf)]
    BY <1>3, <2>3, <2>4
  <2> QED BY <2>5, <2>6 DEF AheadOK, a
<1>7. Link(w, Eofr, n, v, logf)
  BY <1>2, <1>4, <1>5, <1>6 DEF Link
<1> QED BY <1>1, <1>7 DEF logf, f

LEMMA LinkShift ==
  ASSUME NEW o, NEW v, NEW u, NEW log, Link(Empty, u, o, v, log), u # Empty
  PROVE  Link(u, Empty, o, v, log)
<1>1. LineOK(u, Empty, o, log)
  BY ControlFacts DEF Link, LineOK
<1>2. JoinOK(u, Empty, o)
  <2> SUFFICES ASSUME NEW h \in Hunting
               PROVE  /\ InStep(After(h, Empty), o)
                      /\ InStep(After(After(h, u), Empty), o)
                      /\ After(After(h, u), Empty).rx # "fine"
    BY DEF JoinOK
  <2>1. InStep(h, o)
    BY HuntingIsReader DEF InStep
  <2> QED BY <2>1, AfterEmpty DEF Link, JoinOK
<1>3. AheadOK(u, Empty, o, v, log)
  BY AfterEmpty DEF Link, AheadOK
<1> QED BY <1>1, <1>2, <1>3 DEF Link

\* Reading a character never overruns the buffer, and a frame is finished by
\* an eofr and is the last that was sent.
LEMMA LinkRead ==
  ASSUME NEW o, NEW v \in Reader, NEW w \in Char, NEW u \in Char, NEW log,
         Link(w, u, o, v, log)
  PROVE  /\ After(v, w).rx # "overrun"
         /\ Link(Empty, u, o, After(v, w), log)
         /\ After(v, w).rx = "fine" /\ v.rx # "fine" =>
              /\ w = Eofr
              /\ Content(After(v, w).buf, After(v, w).size) = log[Len(log)]
<1> DEFINE a == After(v, w)
<1>1. a \in Reader
  BY AfterType
<1>2. /\ InStep(After(a, u), o)
      /\ After(a, u).rx = "fine" /\ v.rx # "fine" =>
           Content(After(a, u).buf, After(a, u).size) = log[Len(log)]
  BY DEF Link, AheadOK
<1>3. v.rx = "fine" => a.rx = "fine"
  BY AfterFine
<1>4. a.rx = "fine" /\ v.rx # "fine" => w = Eofr
  BY AfterFinishes
<1> HIDE DEF a
<1>5. a.rx # "overrun"
  BY <1>2, AfterOverrun DEF InStep
<1>6. a.rx = "fine" => After(a, u) = a
  BY <1>1, AfterFine
<1>7. LineOK(Empty, u, o, log)
  BY ControlFacts DEF Link, LineOK
<1>8. JoinOK(Empty, u, o)
  <2> SUFFICES ASSUME NEW h \in Hunting
               PROVE  /\ InStep(After(h, u), o)
                      /\ InStep(After(After(h, Empty), u), o)
                      /\ After(After(h, Empty), u).rx # "fine"
    BY DEF JoinOK
  <2>1. h \in Reader /\ h.rx = "invalid"
    BY HuntingIsReader
  <2>2. After(h, u).rx # "fine"
    BY <2>1, AfterInvalid
  <2> QED BY <2>2, AfterEmpty DEF Link, JoinOK
<1>9. AheadOK(Empty, u, o, a, log)
  BY <1>2, <1>3, AfterEmpty DEF AheadOK
<1>10. Link(Empty, u, o, a, log)
  BY <1>7, <1>8, <1>9 DEF Link
<1> QED BY <1>2, <1>4, <1>5, <1>6, <1>10 DEF a

\* recv() makes the receiver hunt.
LEMMA LinkFree ==
  ASSUME NEW o, NEW v, NEW w, NEW u, NEW log, Link(w, u, o, v, log),
         NEW h \in Hunting
  PROVE  Link(w, u, o, h, log)
BY DEF Link, AheadOK, JoinOK

\* send() exchanges the frame of a sender that is not sending.
LEMMA LinkSend ==
  ASSUME NEW o, NEW v, NEW w, NEW u, NEW log, Link(w, u, o, v, log), ~Sending(o.tx),
         NEW n, n.tx = "invalid", n.size > 0 => Content(n.buf, n.size) \in Frames
  PROVE  Link(w, u, n, v, log)
<1>1. ASSUME NEW a, InStep(a, o) PROVE InStep(a, n)
  BY <1>1 DEF InStep, Sending
<1>2. WriterOK(n)
  BY DEF WriterOK, Sending
<1>3. LineOK(w, u, n, log)
  BY DEF Link, LineOK, Sending
<1>4. JoinOK(w, u, n)
  BY <1>1 DEF Link, JoinOK
<1>5. AheadOK(w, u, n, v, log)
  BY <1>1 DEF Link, AheadOK
<1> QED BY <1>2, <1>3, <1>4, <1>5 DEF Link

-----------------------------------------------------------------------------
(* The invariant. *)

\* The line of station s.
LineLink(s) ==
  Link(wire[s], udr[s], WriterOf(device[s]), ReaderOf(device[Peer[s]]), sent[s])

\* What the callback can read it has read.
CallbackRead(p) ==
  ReadInCallback /\ Finished(device[p].rx) => device[p].recvSize > AppSize

ChannelInv ==
  /\ TypeOK
  /\ \A s \in Station : LineLink(s) /\ CallbackRead(s)

\* What the channel shows of the receiver v.
Inbox(v) == IF Finished(v.rx) THEN Content(v.buf, v.size) ELSE NoFrame

LineBar  == [s \in Station |-> OnLine(s)]
InboxBar == [p \in Station |-> Inbox(ReaderOf(device[p]))]

\* The step of the channel in terms of what it shows.
ChannelStep == [Channel!Next]_(Channel!channelVars)

\* InboxBar is what FrameProps puts for the inbox, before and after a step.
LEMMA InboxBarIs ==
  LET mapped == [p \in Station |-> IF Finished(device[p].rx)
                                   THEN Content(device[p].recvBuf, device[p].recvSize)
                                   ELSE NoFrame]
  IN  InboxBar = mapped /\ InboxBar' = mapped'
BY DEF InboxBar, Inbox, ReaderOf

LEMMA EndsType ==
  ASSUME TypeOK, NEW s \in Station
  PROVE  /\ Peer[s] \in Station
         /\ device[s] \in Device
         /\ WriterOf(device[s]) \in Writer
         /\ ReaderOf(device[s]) \in Reader
         /\ wire[s] \in Char /\ udr[s] \in Char
         /\ sent[s] \in Seq(Seq(Byte))
BY UartAssumption DEF TypeOK, UartTypeOK, Char, Device, WriterOf, ReaderOf, Writer, Reader

\* The last element of a sequence, as a sequence.
LEMMA LastIs ==
  ASSUME NEW S, NEW log \in Seq(S), log # <<>>
  PROVE  SubSeq(log, Len(log), Len(log)) = <<log[Len(log)]>>
<1> DEFINE n == Len(log)
<1>1. n \in 1 .. Len(log) /\ n \in n .. Len(log) /\ n \in Nat /\ log[n] \in S
  OBVIOUS
<1>2. SubSeq(log, n, n) = <<log[n]>> \o SubSeq(log, n + 1, n)
  BY <1>1, SubSeqRecursiveFirst
<1>3. SubSeq(log, n + 1, n) = <<>>
  BY <1>1, SubSeqEmpty
<1>4. <<log[n]>> \in Seq(S)
  BY <1>1
<1> HIDE DEF n
<1>5. SubSeq(log, n, n) = <<log[n]>>
  BY <1>2, <1>3, <1>4, ConcatEmptySeq
<1> QED BY <1>5 DEF n

\* OnLine in terms of the two registers and the frames sent.
Shown(w, u, log) ==
  LET pending == (IF w = Eofr THEN 1 ELSE 0) + (IF u = Eofr THEN 1 ELSE 0)
      first   == Len(log) - pending + 1
  IN  SubSeq(log, IF first > 0 THEN first ELSE 1, Len(log))

LEMMA OnLineShown ==
  ASSUME NEW s \in Station
  PROVE  /\ OnLine(s)  = Shown(wire[s], udr[s], sent[s])
         /\ OnLine(s)' = Shown(wire'[s], udr'[s], sent'[s])
BY DEF OnLine, Pending, Shown

\* The abstract line holds the last frame sent while its eofr is under way.
LEMMA ShownIs ==
  ASSUME NEW S, NEW log \in Seq(S), NEW w, NEW u, NEW o, LineOK(w, u, o, log)
  PROVE  Shown(w, u, log) = IF Eofr \in {w, u} THEN <<log[Len(log)]>> ELSE <<>>
<1> DEFINE n == Len(log)
<1>1. CASE Eofr \in {w, u}
  <2>1. (IF w = Eofr THEN 1 ELSE 0) + (IF u = Eofr THEN 1 ELSE 0) = 1
    BY <1>1, ControlFacts DEF LineOK
  <2>2. log # <<>> /\ n \in Nat /\ n > 0
    BY <1>1 DEF LineOK
  <2>3. n - 1 + 1 = n
    BY <2>2
  <2>4. SubSeq(log, n, n) = <<log[n]>>
    BY <2>2, LastIs
  <2>5. Shown(w, u, log) = SubSeq(log, n, n)
    <3> HIDE DEF n
    <3>1. (IF n - 1 + 1 > 0 THEN n - 1 + 1 ELSE 1) = n
      BY <2>2, <2>3
    <3> QED BY <2>1, <3>1 DEF Shown, n
  <2> QED BY <1>1, <2>4, <2>5
<1>2. CASE Eofr \notin {w, u}
  <2>1. n \in Nat /\ SubSeq(log, n + 1, n) = <<>>
    OBVIOUS
  <2>2. (IF w = Eofr THEN 1 ELSE 0) + (IF u = Eofr THEN 1 ELSE 0) = 0
    BY <1>2
  <2>3. Shown(w, u, log) = SubSeq(log, n + 1, n)
    <3> HIDE DEF n
    <3>1. (IF n - 0 + 1 > 0 THEN n - 0 + 1 ELSE 1) = n + 1
      BY <2>1
    <3> QED BY <2>2, <3>1 DEF Shown, n
  <2> QED BY <1>2, <2>1, <2>3
<1> QED BY <1>1, <1>2

\* The receive interrupt without its callback is one step of After, unless it
\* overruns the buffer.
LEMMA ReceiveIsAfter ==
  ASSUME NEW d \in Device, NEW c \in Byte, After(ReaderOf(d), c).rx # "overrun"
  PROVE  /\ ReaderOf(GetOnReceive(d, c)) = After(ReaderOf(d), c)
         /\ WriterOf(GetOnReceive(d, c)) = WriterOf(d)
         /\ GetOnReceive(d, c).udrie = d.udrie
<1> DEFINE in   == TransformIn(d.rx, c)
           next == [d EXCEPT !.rx = in.rx]
           v    == ReaderOf(d)
<1>1. RecvPosition # Payload
  BY DeviceAssumption DEF RecvPosition
<1>2. c # Empty /\ d.recvSize \in Nat /\ d.recvSize <= Payload
  BY ControlFacts DEF Device, Size
<1>3. in.rx \in State /\ in.c \in Byte /\ in.data \in BOOLEAN
  BY TransformInType DEF Device
<1>4. /\ next \in Device /\ next.rx = in.rx /\ next.recvBuf = d.recvBuf
      /\ next.recvSize = d.recvSize /\ WriterOf(next) = WriterOf(d) /\ next.udrie = d.udrie
  BY <1>3 DEF Device, WriterOf
<1>5. GetOnReceive(d, c) = IF in.data THEN StoreByte(next, in.c)
                           ELSE IF Restarted(in.rx) THEN [next EXCEPT !.recvSize = 0]
                           ELSE next
  BY <1>1 DEF GetOnReceive
<1>6. After(v, c) =
        IF ~in.data
        THEN [rx |-> in.rx, buf |-> d.recvBuf, size |-> IF Restarted(in.rx) THEN 0 ELSE d.recvSize]
        ELSE IF d.recvSize < Payload
        THEN [rx |-> in.rx, buf |-> [d.recvBuf EXCEPT ![d.recvSize] = in.c], size |-> d.recvSize + 1]
        ELSE [rx |-> "overrun", buf |-> d.recvBuf, size |-> d.recvSize]
  BY <1>2 DEF After, ReaderOf
<1> HIDE DEF next, in
<1>7. CASE in.data
  <2>1. d.recvSize < Payload
    BY <1>6, <1>7
  <2>2. (d.recvSize + 1) % (Payload + 1) = d.recvSize + 1
    BY <1>2, <2>1, ControlFacts
  <2>3. StoreByte(next, in.c) =
          [[next EXCEPT !.recvSize = d.recvSize + 1] EXCEPT !.recvBuf[d.recvSize] = in.c]
    BY <1>4, <2>1, <2>2 DEF StoreByte
  <2> DEFINE g == StoreByte(next, in.c)
  <2>4. /\ g.rx = in.rx /\ g.recvSize = d.recvSize + 1
        /\ g.recvBuf = [d.recvBuf EXCEPT ![d.recvSize] = in.c]
        /\ g.tx = next.tx /\ g.sendBuf = next.sendBuf /\ g.sendSize = next.sendSize
        /\ g.sendPos = next.sendPos /\ g.udrie = next.udrie
    BY <1>4, <2>3 DEF Device
  <2> HIDE DEF g
  <2>5. ReaderOf(g) = After(v, c) /\ WriterOf(g) = WriterOf(next) /\ g.udrie = d.udrie
    BY <1>4, <1>6, <1>7, <2>1, <2>4 DEF ReaderOf, WriterOf
  <2> QED BY <1>4, <1>5, <1>7, <2>5 DEF g
<1>8. CASE ~in.data /\ Restarted(in.rx)
  <2> DEFINE g == [next EXCEPT !.recvSize = 0]
  <2>1. /\ g.rx = in.rx /\ g.recvSize = 0 /\ g.recvBuf = d.recvBuf
        /\ g.tx = next.tx /\ g.sendBuf = next.sendBuf /\ g.sendSize = next.sendSize
        /\ g.sendPos = next.sendPos /\ g.udrie = next.udrie
    BY <1>4 DEF Device
  <2> HIDE DEF g
  <2>2. ReaderOf(g) = After(v, c) /\ WriterOf(g) = WriterOf(next) /\ g.udrie = d.udrie
    BY <1>4, <1>6, <1>8, <2>1 DEF ReaderOf, WriterOf
  <2> QED BY <1>4, <1>5, <1>8, <2>2 DEF g
<1>9. CASE ~in.data /\ ~Restarted(in.rx)
  <2>1. ReaderOf(next) = After(v, c)
    BY <1>4, <1>6, <1>9 DEF ReaderOf
  <2> QED BY <1>4, <1>5, <1>9, <2>1
<1> QED BY <1>3, <1>7, <1>8, <1>9

\* send() exchanges the frame.
LEMMA SendIs ==
  ASSUME NEW d \in Device, NEW f \in Frames, ~Sending(d.tx)
  PROVE  /\ ReaderOf(Send(d, f)) = ReaderOf(d)
         /\ WriterOf(Send(d, f)).tx = "invalid"
         /\ WriterOf(Send(d, f)).size = Len(f) /\ WriterOf(Send(d, f)).pos = 0
         /\ Content(WriterOf(Send(d, f)).buf, Len(f)) = f
         /\ Send(d, f).udrie
<1> DEFINE g == Send(d, f)
           b == [i \in Cell |-> IF i < Len(f) THEN f[i + 1] ELSE d.sendBuf[i]]
<1>1. /\ g.rx = d.rx /\ g.recvBuf = d.recvBuf /\ g.recvSize = d.recvSize
      /\ g.tx = "invalid" /\ g.sendSize = Len(f) /\ g.sendPos = 0 /\ g.udrie
      /\ g.sendBuf = b
  BY DEF Send, Device
<1>2. Content(b, Len(f)) = f
  <2>1. f \in Seq(Byte) /\ Len(f) <= Payload /\ Len(f) \in Nat
    BY DeviceAssumption
  <2>2. \A i \in 1 .. Len(f) : i - 1 \in Cell /\ i - 1 < Len(f) /\ i - 1 + 1 = i
    BY <2>1, ControlFacts DEF Cell
  <2>3. \A i \in 1 .. Len(f) : b[i - 1] = f[i]
    BY <2>2
  <2>4. f = [i \in 1 .. Len(f) |-> f[i]]
    BY <2>1
  <2> HIDE DEF b
  <2> QED BY <2>3, <2>4 DEF Content
<1> HIDE DEF g, b
<1>3. /\ ReaderOf(g) = ReaderOf(d)
      /\ WriterOf(g).tx = "invalid" /\ WriterOf(g).size = Len(f) /\ WriterOf(g).pos = 0
      /\ Content(WriterOf(g).buf, Len(f)) = f /\ g.udrie
  BY <1>1, <1>2 DEF ReaderOf, WriterOf
<1> QED BY <1>3 DEF g

-----------------------------------------------------------------------------
(* What the steps do to the two ends of a line, for whatever receiver v is *)
(* taken to be at its other end.                                           *)

\* A step of the transmitter of s: no receiver and no other line changes.
TransmitOnly(s) ==
  /\ \A t \in Station : ReaderOf(device'[t]) = ReaderOf(device[t])
  /\ \A t \in Station : t # s => /\ udr'[t] = udr[t] /\ wire'[t] = wire[t] /\ sent'[t] = sent[t]
                                 /\ WriterOf(device'[t]) = WriterOf(device[t])
  /\ damaged' = damaged

LEMMA AppSendIs ==
  ASSUME TypeOK, NEW s \in Station, NEW f \in Frames, AppSend(s, f),
         NEW v, Link(wire[s], udr[s], WriterOf(device[s]), v, sent[s])
  PROVE  /\ TransmitOnly(s) /\ wire' = wire /\ udr' = udr /\ sent' = sent
         /\ Link(wire[s], udr[s], WriterOf(device'[s]), v, sent[s])
<1> DEFINE n == WriterOf(device'[s])
<1>1. /\ ~Sending(device[s].tx) /\ damaged' = damaged
      /\ device' = [device EXCEPT ![s] = Send(device[s], f)]
      /\ UNCHANGED <<udr, wire, sent>>
  BY DEF AppSend, uartVars
<1>2. device \in [Station -> Device] /\ device[s] \in Device
  BY DEF TypeOK
<1>3. \A t \in Station : ReaderOf(device'[t]) = ReaderOf(device[t])
  BY <1>1, <1>2, SendIs
<1>4. \A t \in Station : t # s => device'[t] = device[t]
  BY <1>1, <1>2
<1>5. n.tx = "invalid" /\ (n.size > 0 => Content(n.buf, n.size) \in Frames)
  BY <1>1, <1>2, SendIs
<1>6. ~Sending(WriterOf(device[s]).tx)
  BY <1>1 DEF WriterOf
<1> HIDE DEF n
<1>7. Link(wire[s], udr[s], n, v, sent[s])
  BY <1>5, <1>6, LinkSend
<1> QED BY <1>1, <1>3, <1>4, <1>7 DEF n, TransmitOnly

LEMMA TxStartIs ==
  ASSUME TypeOK, NEW s \in Station, TxStart(s),
         NEW v \in Reader, Link(wire[s], udr[s], WriterOf(device[s]), v, sent[s])
  PROVE  /\ TransmitOnly(s) /\ wire' = wire /\ sent' = sent
         /\ udr[s] = Empty /\ Put(s, Sofr)
         /\ Link(wire[s], udr'[s], WriterOf(device'[s]), v, sent[s])
<1> DEFINE o == WriterOf(device[s])
           n == WriterOf(device'[s])
<1>1. /\ udr[s] = Empty /\ Put(s, Sofr) /\ udr' = [udr EXCEPT ![s] = Sofr]
      /\ device[s].tx = "invalid" /\ device[s].sendPos = 0 /\ device[s].sendSize > 0
      /\ device' = [device EXCEPT ![s].tx = "started"]
      /\ wire' = wire /\ sent' = sent /\ damaged' = damaged
  BY DEF TxStart, TxPending, Ready, Put, MayStart, ReadyToStart, StartFrame, historyVars
<1>2. device \in [Station -> Device] /\ device[s] \in Device /\ DOMAIN udr = Station
  BY DEF TypeOK, UartTypeOK
<1>3. TransmitOnly(s)
  BY <1>1, <1>2 DEF TransmitOnly, ReaderOf, Device
<1>4. n = [tx |-> "started", buf |-> o.buf, size |-> o.size, pos |-> o.pos]
  BY <1>1, <1>2 DEF WriterOf, Device
<1>5. o.tx = "invalid" /\ o.pos = 0 /\ o.size > 0 /\ udr'[s] = Sofr
  BY <1>1, <1>2 DEF WriterOf
<1>6. o \in Writer /\ wire[s] \in Char
  BY EndsType
<1> HIDE DEF o, n
<1>7. Link(wire[s], Sofr, n, v, sent[s])
  BY <1>1, <1>4, <1>5, <1>6, LinkStart DEF o
<1> QED BY <1>1, <1>3, <1>5, <1>7 DEF n

LEMMA TxByteIs ==
  ASSUME TypeOK, NEW s \in Station, NEW stray \in Byte, TxByte(s, stray),
         NEW v \in Reader, Link(wire[s], udr[s], WriterOf(device[s]), v, sent[s])
  PROVE  /\ TransmitOnly(s) /\ wire' = wire /\ sent' = sent
         /\ udr[s] = Empty /\ \E c \in Byte \ {Eofr} : Put(s, c)
         /\ Link(wire[s], udr'[s], WriterOf(device'[s]), v, sent[s])
<1> DEFINE d   == device[s]
           o   == WriterOf(d)
           out == TransformOut(o.tx, o.buf[o.pos])
           n   == [tx |-> out.tx, buf |-> o.buf, size |-> o.size,
                   pos |-> IF Again(out.tx) THEN o.pos ELSE o.pos + 1]
<1>1. device \in [Station -> Device] /\ d \in Device /\ DOMAIN udr = Station
  BY DEF TypeOK, UartTypeOK
<1>2. /\ udr[s] = Empty /\ Sending(d.tx) /\ d.sendPos # d.sendSize
      /\ wire' = wire /\ sent' = sent /\ damaged' = damaged
  BY DEF TxByte, TxPending, Ready, historyVars
<1>3. /\ o.tx = d.tx /\ o.buf = d.sendBuf /\ o.pos = d.sendPos /\ o.size = d.sendSize
      /\ Sending(o.tx) /\ o.pos # o.size
  BY <1>2 DEF WriterOf
<1>4. o \in Writer /\ wire[s] \in Char /\ Link(wire[s], Empty, o, v, sent[s])
  BY <1>2, EndsType
<1>5. /\ out.c \in Byte /\ out.c # Eofr /\ o.pos \in Cell
  <2>1. /\ After(v, wire[s]) \in Reader /\ InStep(After(v, wire[s]), o) /\ WriterOK(o)
    BY <1>4, AfterType, AfterEmpty DEF Link, AheadOK
  <2> HIDE DEF o
  <2> QED BY <1>3, <1>4, <2>1, AfterInStep
<1>6. o.pos < Payload /\ (o.pos + 1) % (Payload + 1) = o.pos + 1
  BY <1>5, ControlFacts DEF Cell
<1>7. /\ Put(s, out.c)
      /\ device' = [device EXCEPT ![s].tx = out.tx,
                      ![s].sendPos = IF Again(out.tx) THEN @ ELSE @ + 1]
  BY <1>3, <1>6 DEF TxByte
<1> HIDE DEF out
<1>8. TransmitOnly(s) /\ WriterOf(device'[s]) = n
  <2>1. udr' = [udr EXCEPT ![s] = out.c]
    BY <1>2, <1>7 DEF Put, Ready
  <2>2. \A t \in Station : t # s => udr'[t] = udr[t]
    BY <1>1, <2>1
  <2> QED BY <1>1, <1>2, <1>3, <1>7, <2>2 DEF TransmitOnly, ReaderOf, WriterOf, Device
<1>9. udr'[s] = out.c
  BY <1>1, <1>2, <1>7 DEF Put, Ready
<1>10. Link(wire[s], out.c, n, v, sent[s])
  <2> HIDE DEF o
  <2> QED BY <1>3, <1>4, LinkByte DEF out
<1> HIDE DEF n, o
<1> QED BY <1>2, <1>5, <1>7, <1>8, <1>9, <1>10

LEMMA TxEndIs ==
  ASSUME TypeOK, NEW s \in Station, TxEnd(s),
         NEW v \in Reader, Link(wire[s], udr[s], WriterOf(device[s]), v, sent[s])
  PROVE  LET f == Content(device[s].sendBuf, device[s].sendSize)
         IN  /\ TransmitOnly(s) /\ wire' = wire /\ udr[s] = Empty /\ udr'[s] = Eofr
             /\ f \in Frames /\ sent'[s] = Append(sent[s], f) /\ wire[s] # Eofr
             /\ Link(wire[s], Eofr, WriterOf(device'[s]), v, sent'[s])
<1> DEFINE d == device[s]
           o == WriterOf(d)
           n == [tx |-> "fine", buf |-> o.buf, size |-> o.size, pos |-> o.pos]
           f == Content(o.buf, o.size)
<1>1. device \in [Station -> Device] /\ d \in Device
  BY DEF TypeOK
<1>2. /\ udr[s] = Empty /\ Sending(d.tx) /\ d.sendPos = d.sendSize /\ Put(s, Eofr)
      /\ wire' = wire /\ damaged' = damaged
      /\ device' = [device EXCEPT ![s].tx = EndFrame(@)]
      /\ sent' = IF d.tx # "regular" THEN sent
                 ELSE [sent EXCEPT ![s] = Append(@, Content(d.sendBuf, d.sendSize))]
  BY DEF TxEnd, TxPending, Ready
<1>3. /\ o.tx = d.tx /\ o.buf = d.sendBuf /\ o.pos = d.sendPos /\ o.size = d.sendSize
  BY DEF WriterOf
<1>4. /\ o \in Writer /\ wire[s] \in Char /\ sent[s] \in Seq(Seq(Byte))
      /\ Link(wire[s], Empty, o, v, sent[s])
  BY <1>2, EndsType
<1>5. o.tx = "regular" /\ f \in Frames /\ f \in Seq(Byte)
  <2> HIDE DEF o
  <2>1. WriterOK(o) /\ Sending(o.tx) /\ o.pos = o.size /\ o.size \in Nat /\ o.tx \in State
    BY <1>2, <1>3, <1>4, ControlFacts DEF Link, Writer, Size
  <2>2. o.tx = "regular" /\ o.size > 0
    BY <2>1 DEF WriterOK, Sending, State
  <2>3. f \in Frames
    BY <2>1, <2>2 DEF WriterOK
  <2> QED BY <2>2, <2>3, DeviceAssumption
<1>6. /\ device' = [device EXCEPT ![s].tx = "fine"]
      /\ sent' = [sent EXCEPT ![s] = Append(@, f)]
  BY <1>1, <1>2, <1>3, <1>5 DEF EndFrame
<1>7. /\ \A t \in Station : /\ ReaderOf(device'[t]) = ReaderOf(device[t])
                            /\ t # s => WriterOf(device'[t]) = WriterOf(device[t])
      /\ WriterOf(device'[s]) = n
  BY <1>1, <1>3, <1>6 DEF ReaderOf, WriterOf, Device
<1>8. /\ udr'[s] = Eofr /\ sent'[s] = Append(sent[s], f)
      /\ \A t \in Station : t # s => udr'[t] = udr[t] /\ sent'[t] = sent[t]
  BY <1>2, <1>6 DEF Put, Ready, TypeOK, UartTypeOK
<1> HIDE DEF o
<1>9. /\ wire[s] # Eofr
      /\ Link(wire[s], Eofr, n, v, sent'[s])
  BY <1>2, <1>3, <1>4, <1>5, <1>8, LinkEnd
<1>10. f = Content(d.sendBuf, d.sendSize)
  BY <1>3
<1> HIDE DEF n, f
<1> QED BY <1>2, <1>5, <1>7, <1>8, <1>9, <1>10 DEF TransmitOnly

LEMMA LineShiftIs ==
  ASSUME TypeOK, NEW s \in Station, LineShift(s),
         NEW v, Link(wire[s], udr[s], WriterOf(device[s]), v, sent[s])
  PROVE  /\ TransmitOnly(s) /\ device' = device /\ sent' = sent
         /\ wire[s] = Empty /\ wire'[s] = udr[s] /\ udr'[s] = Empty
         /\ Link(wire'[s], udr'[s], WriterOf(device[s]), v, sent[s])
<1>1. /\ udr[s] # Empty /\ wire[s] = Empty
      /\ wire' = [wire EXCEPT ![s] = udr[s]] /\ udr' = [udr EXCEPT ![s] = Empty]
      /\ device' = device /\ sent' = sent /\ damaged' = damaged
  BY DEF LineShift, Shift, historyVars
<1>2. /\ wire'[s] = udr[s] /\ udr'[s] = Empty
      /\ \A t \in Station : t # s => wire'[t] = wire[t] /\ udr'[t] = udr[t]
  BY <1>1 DEF TypeOK, UartTypeOK
<1>3. Link(udr[s], Empty, WriterOf(device[s]), v, sent[s])
  BY <1>1, LinkShift
<1> QED BY <1>1, <1>2, <1>3 DEF TransmitOnly

\* The receive interrupt, with what it does to the receiver and to the line.
LEMMA RxInterruptIs ==
  ASSUME TypeOK, NEW p \in Station, RxInterrupt(p),
         After(ReaderOf(device[p]), wire[Source(p)]).rx # "overrun"
  PROVE  LET s    == Source(p)
             v    == ReaderOf(device[p])
             a    == After(v, wire[s])
             read == ReadInCallback /\ Finished(a.rx) /\ a.size <= AppSize
         IN  /\ a \in Reader
             /\ ReaderOf(device'[p]) =
                  IF read THEN [rx |-> "invalid", buf |-> a.buf, size |-> a.size] ELSE a
             /\ delivered' = IF read THEN [delivered EXCEPT ![p] = Append(@, Content(a.buf, a.size))]
                             ELSE delivered
             /\ wire[s] # Empty /\ wire' = [wire EXCEPT ![s] = Empty]
             /\ udr' = udr /\ sent' = sent
             /\ \A t \in Station : t # p => ReaderOf(device'[t]) = ReaderOf(device[t])
             /\ \A t \in Station : WriterOf(device'[t]) = WriterOf(device[t])
<1> DEFINE s == Source(p)
           v == ReaderOf(device[p])
           a == After(v, wire[s])
           d == GetOnReceive(device[p], wire[s])
           g == IF ReadInCallback /\ CanRecv(d) THEN Recv(d) ELSE d
<1>1. s \in Station /\ Peer[s] = p
  BY SourceType
<1>2. /\ wire[s] # Empty /\ wire' = [wire EXCEPT ![s] = Empty]
      /\ udr' = udr /\ sent' = sent
      /\ device' = [device EXCEPT ![p] = g]
      /\ delivered' = IF ReadInCallback /\ CanRecv(d)
                      THEN [delivered EXCEPT ![p] = Append(@, Content(d.recvBuf, d.recvSize))]
                      ELSE delivered
  BY DEF RxInterrupt, RxReady, Get
<1>3. /\ device \in [Station -> Device] /\ device[p] \in Device /\ v \in Reader
      /\ wire[s] \in Byte /\ wire[s] \in Char /\ udr[s] \in Char
  BY <1>1, <1>2, EndsType DEF TypeOK, UartTypeOK
<1>4. a \in Reader /\ a.rx # "overrun"
  BY <1>3, AfterType
<1>5. ReaderOf(d) = a /\ WriterOf(d) = WriterOf(device[p])
  BY <1>3, <1>4, ReceiveIsAfter
<1>6. d \in Device
  BY <1>3, GetOnReceiveType
<1>7. CanRecv(d) <=> Finished(a.rx) /\ a.size <= AppSize
  <2>1. d.rx = a.rx /\ d.recvSize = a.size
    BY <1>5 DEF ReaderOf
  <2> QED BY <2>1 DEF CanRecv
<1>8. d.recvBuf = a.buf /\ d.recvSize = a.size /\ d.rx = a.rx
  BY <1>5 DEF ReaderOf
<1> HIDE DEF d, a, s
<1>9. /\ WriterOf(g) = WriterOf(d)
      /\ ReaderOf(g) = IF ReadInCallback /\ CanRecv(d)
                       THEN [rx |-> "invalid", buf |-> a.buf, size |-> a.size] ELSE a
  BY <1>5, <1>6, <1>8 DEF Recv, WriterOf, ReaderOf, Device
<1> HIDE DEF g
<1>10. device'[p] = g /\ \A t \in Station : t # p => device'[t] = device[t]
  BY <1>2, <1>3
<1>11. \A t \in Station : WriterOf(device'[t]) = WriterOf(device[t])
  BY <1>5, <1>9, <1>10
<1> QED BY <1>2, <1>4, <1>7, <1>8, <1>9, <1>10, <1>11 DEF s, a

-----------------------------------------------------------------------------
(* The steps. *)

\* A line that a step leaves alone stays in order.
LEMMA LineUntouched ==
  ASSUME NEW s \in Station, LineLink(s),
         wire'[s] = wire[s], udr'[s] = udr[s], sent'[s] = sent[s],
         WriterOf(device'[s]) = WriterOf(device[s]),
         ReaderOf(device'[Peer[s]]) = ReaderOf(device[Peer[s]])
  PROVE  LineLink(s)'
BY DEF LineLink

\* A step that no receiver and no abstract line sees is a stutter.
LEMMA ChannelUntouched ==
  ASSUME \A p \in Station : ReaderOf(device'[p]) = ReaderOf(device[p]),
         \A s \in Station : OnLine(s)' = OnLine(s),
         delivered' = delivered
  PROVE  ChannelStep
<1>1. InboxBar' = InboxBar /\ LineBar' = LineBar
  BY DEF InboxBar, LineBar
<1> QED BY <1>1, InboxBarIs DEF ChannelStep, Channel!channelVars, LineBar

\* The callback has read what it can, if no receiver changes.
LEMMA CallbackUntouched ==
  ASSUME NEW p \in Station, CallbackRead(p), ReaderOf(device'[p]) = ReaderOf(device[p])
  PROVE  CallbackRead(p)'
BY DEF CallbackRead, ReaderOf

\* A step of the transmitter of s concerns the line of s only.
LEMMA TransmitLine ==
  ASSUME ChannelInv, NEW s \in Station, TransmitOnly(s),
         Link(wire'[s], udr'[s], WriterOf(device'[s]), ReaderOf(device[Peer[s]]), sent'[s])
  PROVE  \A t \in Station : LineLink(t)' /\ CallbackRead(t)'
<1> SUFFICES ASSUME NEW t \in Station PROVE LineLink(t)' /\ CallbackRead(t)'
  OBVIOUS
<1>1. Peer[t] \in Station /\ LineLink(t) /\ CallbackRead(t)
  BY EndsType DEF ChannelInv
<1>2. CASE t = s
  BY <1>1, <1>2, CallbackUntouched DEF LineLink, TransmitOnly
<1>3. CASE t # s
  BY <1>1, <1>3, LineUntouched, CallbackUntouched DEF TransmitOnly
<1> QED BY <1>2, <1>3

LEMMA AppSendLine ==
  ASSUME ChannelInv, NEW s \in Station, NEW f \in Frames, AppSend(s, f)
  PROVE  (\A t \in Station : LineLink(t)' /\ CallbackRead(t)') /\ ChannelStep
<1>1. Link(wire[s], udr[s], WriterOf(device[s]), ReaderOf(device[Peer[s]]), sent[s]) /\ TypeOK
  BY DEF ChannelInv, LineLink
<1>2. /\ TransmitOnly(s) /\ wire' = wire /\ udr' = udr /\ sent' = sent
      /\ Link(wire[s], udr[s], WriterOf(device'[s]), ReaderOf(device[Peer[s]]), sent[s])
  BY <1>1, AppSendIs
<1>3. delivered' = delivered
  BY DEF AppSend
<1>4. \A t \in Station : LineLink(t)' /\ CallbackRead(t)'
  BY <1>2, TransmitLine
<1>5. \A t \in Station : OnLine(t)' = OnLine(t)
  BY <1>2 DEF OnLine, Pending
<1> QED BY <1>2, <1>3, <1>4, <1>5, ChannelUntouched DEF TransmitOnly

LEMMA AppRecvLine ==
  ASSUME ChannelInv, NEW p \in Station, AppRecv(p)
  PROVE  (\A t \in Station : LineLink(t)' /\ CallbackRead(t)') /\ ChannelStep
<1> DEFINE v == ReaderOf(device[p])
           h == [rx |-> "invalid", buf |-> v.buf, size |-> v.size]
<1>1. /\ CanRecv(device[p])
      /\ device' = [device EXCEPT ![p] = [device[p] EXCEPT !.rx = "invalid"]]
      /\ delivered' = [delivered EXCEPT ![p] =
                         Append(@, Content(device[p].recvBuf, device[p].recvSize))]
      /\ UNCHANGED <<udr, wire, sent>>
  BY DEF AppRecv, Recv, uartVars
<1>2. device \in [Station -> Device] /\ device[p] \in Device /\ v \in Reader
  BY EndsType DEF ChannelInv, TypeOK
<1>3. /\ \A t \in Station : WriterOf(device'[t]) = WriterOf(device[t])
      /\ \A t \in Station : t # p => device'[t] = device[t]
  BY <1>1, <1>2 DEF WriterOf, Device
<1>4. ReaderOf(device'[p]) = h /\ h \in Hunting
  BY <1>1, <1>2 DEF ReaderOf, Device, Hunting
<1>5. ASSUME NEW t \in Station PROVE LineLink(t)'
  <2>1. LineLink(t) /\ Peer[t] \in Station
    BY EndsType DEF ChannelInv
  <2>2. CASE Peer[t] = p
    <3>1. Link(wire[t], udr[t], WriterOf(device[t]), h, sent[t])
      BY <1>4, <2>1, LinkFree DEF LineLink
    <3> QED BY <1>1, <1>3, <1>4, <2>2, <3>1 DEF LineLink
  <2>3. CASE Peer[t] # p
    BY <1>1, <1>3, <2>1, <2>3, LineUntouched
  <2> QED BY <2>2, <2>3
<1>6. ASSUME NEW t \in Station PROVE CallbackRead(t)'
  <2>1. CASE t = p
    BY <1>4, <2>1 DEF CallbackRead, ReaderOf, Finished
  <2>2. CASE t # p
    BY <1>3, <2>2, CallbackUntouched DEF ChannelInv
  <2> QED BY <2>1, <2>2
<1>7. \A t \in Station : OnLine(t)' = OnLine(t)
  BY <1>1 DEF OnLine, Pending
<1>8. Channel!Read(p)
  <2>1. InboxBar[p] = Content(device[p].recvBuf, device[p].recvSize)
    BY <1>1 DEF InboxBar, Inbox, ReaderOf, CanRecv
  <2>2. Content(device[p].recvBuf, device[p].recvSize) \in Seq(Byte)
    BY <1>2, ReceivedType
  <2>3. InboxBar[p] # NoFrame
    BY <2>1, <2>2, NoFrameAssumption
  <2>4. InboxBar' = [InboxBar EXCEPT ![p] = NoFrame]
    <3>1. Inbox(h) = NoFrame
      BY DEF Inbox, Finished
    <3> QED BY <1>3, <1>4, <3>1 DEF InboxBar
  <2>5. delivered' = [delivered EXCEPT ![p] = Append(@, InboxBar[p])]
    BY <1>1, <2>1
  <2>6. LineBar' = LineBar
    BY <1>7 DEF LineBar
  <2> QED BY <2>3, <2>4, <2>5, <2>6, InboxBarIs DEF Channel!Read, LineBar
<1> QED BY <1>5, <1>6, <1>8 DEF ChannelStep, Channel!Next

\* A character other than eofr put on the device changes no abstract line.
LEMMA PutIsUnseen ==
  ASSUME TypeOK, NEW s \in Station, NEW c, c # Eofr, Put(s, c), udr[s] = Empty,
         wire' = wire, sent' = sent
  PROVE  /\ udr' = [udr EXCEPT ![s] = c]
         /\ udr'[s] = c /\ \A t \in Station : t # s => udr'[t] = udr[t]
         /\ \A t \in Station : OnLine(t)' = OnLine(t)
<1>1. udr' = [udr EXCEPT ![s] = c] /\ DOMAIN udr = Station
  BY DEF Put, Ready, TypeOK, UartTypeOK
<1>2. \A t \in Station : (udr'[t] = Eofr) <=> (udr[t] = Eofr)
  BY <1>1, ControlFacts
<1> QED BY <1>1, <1>2 DEF OnLine, Pending

LEMMA TxStartLine ==
  ASSUME ChannelInv, NEW s \in Station, TxStart(s)
  PROVE  (\A t \in Station : LineLink(t)' /\ CallbackRead(t)') /\ ChannelStep
<1> DEFINE v == ReaderOf(device[Peer[s]])
<1>1. v \in Reader /\ TypeOK /\ Link(wire[s], udr[s], WriterOf(device[s]), v, sent[s])
  BY EndsType DEF ChannelInv, LineLink
<1>2. /\ TransmitOnly(s) /\ wire' = wire /\ sent' = sent /\ udr[s] = Empty /\ Put(s, Sofr)
      /\ Link(wire[s], udr'[s], WriterOf(device'[s]), v, sent[s])
  BY <1>1, TxStartIs
<1>3. delivered' = delivered /\ \A t \in Station : OnLine(t)' = OnLine(t)
  BY <1>1, <1>2, PutIsUnseen, ControlFacts DEF TxStart, historyVars
<1>4. \A t \in Station : LineLink(t)' /\ CallbackRead(t)'
  BY <1>2, TransmitLine
<1> QED BY <1>2, <1>3, <1>4, ChannelUntouched DEF TransmitOnly

LEMMA TxIdleLine ==
  ASSUME ChannelInv, NEW s \in Station, TxIdle(s)
  PROVE  (\A t \in Station : LineLink(t)' /\ CallbackRead(t)') /\ ChannelStep
<1>1. /\ device' = [device EXCEPT ![s].udrie = FALSE]
      /\ UNCHANGED <<udr, wire, sent, delivered>>
  BY DEF TxIdle, uartVars, historyVars
<1>2. \A t \in Station : /\ ReaderOf(device'[t]) = ReaderOf(device[t])
                         /\ WriterOf(device'[t]) = WriterOf(device[t])
  BY <1>1 DEF ReaderOf, WriterOf, ChannelInv, TypeOK, Device
<1>3. \A t \in Station : LineLink(t)' /\ CallbackRead(t)'
  BY <1>1, <1>2, EndsType, LineUntouched, CallbackUntouched DEF ChannelInv
<1>4. \A t \in Station : OnLine(t)' = OnLine(t)
  BY <1>1 DEF OnLine, Pending
<1> QED BY <1>1, <1>2, <1>3, <1>4, ChannelUntouched

LEMMA TxByteLine ==
  ASSUME ChannelInv, NEW s \in Station, NEW stray \in Byte, TxByte(s, stray)
  PROVE  (\A t \in Station : LineLink(t)' /\ CallbackRead(t)') /\ ChannelStep
<1> DEFINE v == ReaderOf(device[Peer[s]])
<1>1. v \in Reader /\ TypeOK /\ Link(wire[s], udr[s], WriterOf(device[s]), v, sent[s])
  BY EndsType DEF ChannelInv, LineLink
<1>2. /\ TransmitOnly(s) /\ wire' = wire /\ sent' = sent
      /\ udr[s] = Empty /\ \E c \in Byte \ {Eofr} : Put(s, c)
      /\ Link(wire[s], udr'[s], WriterOf(device'[s]), v, sent[s])
  BY <1>1, TxByteIs
<1>3. delivered' = delivered
  BY DEF TxByte, historyVars
<1>4. \A t \in Station : OnLine(t)' = OnLine(t)
  <2>1. PICK c \in Byte \ {Eofr} : Put(s, c)
    BY <1>2
  <2> QED BY <1>1, <1>2, <2>1, PutIsUnseen
<1>5. \A t \in Station : LineLink(t)' /\ CallbackRead(t)'
  BY <1>2, TransmitLine
<1> QED BY <1>2, <1>3, <1>4, <1>5, ChannelUntouched DEF TransmitOnly

LEMMA TxEndLine ==
  ASSUME ChannelInv, NEW s \in Station, TxEnd(s)
  PROVE  (\A t \in Station : LineLink(t)' /\ CallbackRead(t)') /\ ChannelStep
<1> DEFINE v == ReaderOf(device[Peer[s]])
           f == Content(device[s].sendBuf, device[s].sendSize)
<1>1. /\ v \in Reader /\ TypeOK /\ sent[s] \in Seq(Seq(Byte))
      /\ Link(wire[s], udr[s], WriterOf(device[s]), v, sent[s])
  BY EndsType DEF ChannelInv, LineLink
<1>2. /\ TransmitOnly(s) /\ wire' = wire /\ udr[s] = Empty /\ udr'[s] = Eofr
      /\ f \in Frames /\ sent'[s] = Append(sent[s], f) /\ wire[s] # Eofr
      /\ Link(wire[s], Eofr, WriterOf(device'[s]), v, sent'[s])
  BY <1>1, TxEndIs
<1>3. f \in Seq(Byte) /\ delivered' = delivered
  BY <1>2, DeviceAssumption DEF TxEnd
<1> HIDE DEF f
<1>4. \A t \in Station : LineLink(t)' /\ CallbackRead(t)'
  BY <1>2, TransmitLine
<1>5. Channel!Transmit(s, f)
  <2>1. OnLine(s) = <<>>
    BY <1>1, <1>2, ControlFacts, OnLineShown, ShownIs DEF Link
  <2>2. OnLine(s)' = <<f>>
    <3>1. sent'[s] \in Seq(Seq(Byte)) /\ sent'[s][Len(sent'[s])] = f
      BY <1>1, <1>2, <1>3
    <3>2. LineOK(wire'[s], udr'[s], WriterOf(device'[s]), sent'[s])
      BY <1>4 DEF LineLink, Link
    <3>3. Shown(wire'[s], udr'[s], sent'[s]) = <<f>>
      BY <1>2, <3>1, <3>2, ShownIs
    <3> QED BY <3>3, OnLineShown
  <2>3. \A t \in Station : t # s => OnLine(t)' = OnLine(t)
    BY <1>2, OnLineShown DEF TransmitOnly
  <2>4. Append(<<>>, f) = <<f>>
    OBVIOUS
  <2>5. LineBar' = [LineBar EXCEPT ![s] = Append(@, f)]
    BY <2>1, <2>2, <2>3, <2>4 DEF LineBar
  <2>6. InboxBar' = InboxBar
    BY <1>2 DEF InboxBar, TransmitOnly
  <2> QED BY <1>3, <2>5, <2>6, InboxBarIs DEF Channel!Transmit, LineBar
<1> QED BY <1>2, <1>4, <1>5 DEF ChannelStep, Channel!Next

LEMMA LineShiftLine ==
  ASSUME ChannelInv, NEW s \in Station, LineShift(s)
  PROVE  (\A t \in Station : LineLink(t)' /\ CallbackRead(t)') /\ ChannelStep
<1> DEFINE v == ReaderOf(device[Peer[s]])
<1>1. TypeOK /\ Link(wire[s], udr[s], WriterOf(device[s]), v, sent[s])
  BY DEF ChannelInv, LineLink
<1>2. /\ TransmitOnly(s) /\ device' = device /\ sent' = sent
      /\ wire[s] = Empty /\ wire'[s] = udr[s] /\ udr'[s] = Empty
      /\ Link(wire'[s], udr'[s], WriterOf(device[s]), v, sent[s])
  BY <1>1, LineShiftIs
<1>3. delivered' = delivered
  BY DEF LineShift, historyVars
<1>4. \A t \in Station : LineLink(t)' /\ CallbackRead(t)'
  BY <1>2, TransmitLine
<1>5. \A t \in Station : OnLine(t)' = OnLine(t)
  <2> SUFFICES ASSUME NEW t \in Station PROVE OnLine(t)' = OnLine(t)
    OBVIOUS
  <2>1. CASE t = s
    <3>1. Pending(s)' = Pending(s)
      BY <1>2, ControlFacts DEF Pending
    <3> QED BY <1>2, <2>1, <3>1 DEF OnLine
  <2>2. CASE t # s
    BY <1>2, <2>2 DEF OnLine, Pending, TransmitOnly
  <2> QED BY <2>1, <2>2
<1> QED BY <1>2, <1>3, <1>4, <1>5, ChannelUntouched

\* On a line that loses nothing it does not overrun the buffer.
LEMMA NoOverrunYet ==
  ASSUME ChannelInv, NEW p \in Station, RxInterrupt(p)
  PROVE  After(ReaderOf(device[p]), wire[Source(p)]).rx # "overrun"
<1> DEFINE s   == Source(p)
           v   == ReaderOf(device[p])
           w   == wire[s]
           u   == udr[s]
           o   == WriterOf(device[s])
           log == sent[s]
<1>1. s \in Station /\ Peer[s] = p
  BY SourceType
<1>2. v \in Reader /\ w \in Char /\ u \in Char /\ Link(w, u, o, v, log)
  BY <1>1, EndsType DEF ChannelInv, LineLink
<1> HIDE DEF v, w, u, o, log, s
<1>3. After(v, w).rx # "overrun"
  BY <1>2, LinkRead
<1> QED BY <1>3 DEF v, w, s

LEMMA RxInterruptLine ==
  ASSUME ChannelInv, NEW p \in Station, RxInterrupt(p)
  PROVE  (\A t \in Station : LineLink(t)' /\ CallbackRead(t)') /\ ChannelStep
<1> DEFINE s    == Source(p)
           v    == ReaderOf(device[p])
           w    == wire[s]
           a    == After(v, w)
           read == ReadInCallback /\ Finished(a.rx) /\ a.size <= AppSize
           h    == [rx |-> "invalid", buf |-> a.buf, size |-> a.size]
           u    == udr[s]
           o    == WriterOf(device[s])
           log  == sent[s]
           last == log[Len(log)]
<1>1. /\ s \in Station /\ Peer[s] = p
      /\ \A t \in Station : Peer[t] = p => t = s
  BY SourceType, UartAssumption
<1>2. /\ a.rx # "overrun" /\ a \in Reader
      /\ ReaderOf(device'[p]) = IF read THEN h ELSE a
      /\ delivered' = IF read THEN [delivered EXCEPT ![p] = Append(@, Content(a.buf, a.size))]
                      ELSE delivered
      /\ w # Empty /\ wire' = [wire EXCEPT ![s] = Empty]
      /\ udr' = udr /\ sent' = sent
      /\ \A t \in Station : t # p => ReaderOf(device'[t]) = ReaderOf(device[t])
      /\ \A t \in Station : WriterOf(device'[t]) = WriterOf(device[t])
  BY NoOverrunYet, RxInterruptIs DEF ChannelInv
<1>3. /\ v \in Reader /\ w \in Char /\ u \in Char /\ log \in Seq(Seq(Byte))
      /\ Link(w, u, o, v, log) /\ DOMAIN wire = Station
  BY <1>1, EndsType DEF ChannelInv, LineLink, TypeOK, UartTypeOK
<1>4. wire'[s] = Empty /\ \A t \in Station : t # s => wire'[t] = wire[t]
  BY <1>1, <1>2, <1>3
<1>5. /\ Link(Empty, u, o, a, log)
      /\ Finished(a.rx) /\ ~Finished(v.rx) => w = Eofr /\ Content(a.buf, a.size) = last
  <2> HIDE DEF s, v, w, u, o, log
  <2>1. Link(Empty, u, o, After(v, w), log)
    BY <1>3, LinkRead
  <2>2. After(v, w).rx = "fine" /\ v.rx # "fine" =>
          w = Eofr /\ Content(After(v, w).buf, After(v, w).size) = last
    BY <1>3, LinkRead
  <2> QED BY <2>1, <2>2 DEF Finished
<1>6. Finished(v.rx) => a = v /\ ~read
  <2> SUFFICES ASSUME Finished(v.rx) PROVE a = v /\ ~read
    OBVIOUS
  <2>1. a = v
    BY <1>3, AfterFine DEF Finished
  <2>2. ReadInCallback => v.size > AppSize /\ v.size \in Nat
    BY <1>3, ControlFacts DEF ChannelInv, CallbackRead, ReaderOf, Reader, Size
  <2>3. AppSize \in Nat
    BY DeviceAssumption
  <2> HIDE DEF v, a
  <2> QED BY <2>1, <2>2, <2>3
<1> HIDE DEF a
<1>7. Link(Empty, u, o, IF read THEN h ELSE a, log)
  <2>1. h \in Hunting
    BY <1>2 DEF Hunting, Reader
  <2> HIDE DEF h, read, u, o, log
  <2> QED BY <1>5, <2>1, LinkFree
<1>8. LineLink(s)'
  BY <1>1, <1>2, <1>4, <1>7 DEF LineLink
<1>9. ASSUME NEW t \in Station PROVE LineLink(t)'
  <2>1. LineLink(t) /\ Peer[t] \in Station
    BY EndsType DEF ChannelInv
  <2>2. t # s => Peer[t] # p
    BY <1>1
  <2> HIDE DEF s
  <2> QED BY <1>2, <1>4, <1>8, <2>1, <2>2, LineUntouched
<1>10. ASSUME NEW t \in Station PROVE CallbackRead(t)'
  <2>1. CASE t # p
    BY <1>2, <2>1, CallbackUntouched DEF ChannelInv
  <2>2. CASE t = p /\ read
    <3>1. device'[p].rx = "invalid"
      BY <1>2, <2>2 DEF ReaderOf
    <3> QED BY <2>2, <3>1 DEF CallbackRead, Finished
  <2>3. CASE t = p /\ ~read
    <3>1. device'[p].rx = a.rx /\ device'[p].recvSize = a.size
      BY <1>2, <2>3 DEF ReaderOf
    <3>2. a.size \in Nat /\ AppSize \in Nat
      BY <1>2, DeviceAssumption DEF Reader, Size
    <3>3. ReadInCallback /\ Finished(a.rx) => a.size > AppSize
      BY <2>3, <3>2
    <3> QED BY <2>3, <3>1, <3>3 DEF CallbackRead
  <2> QED BY <2>1, <2>2, <2>3
<1>11. /\ InboxBar[p] = Inbox(v)
       /\ InboxBar' = [InboxBar EXCEPT ![p] = IF read THEN NoFrame ELSE Inbox(a)]
  <2>1. Inbox(h) = NoFrame
    BY DEF Inbox, Finished
  <2>2. InboxBar'[p] = IF read THEN NoFrame ELSE Inbox(a)
    BY <1>2, <2>1 DEF InboxBar
  <2>3. \A t \in Station : t # p => InboxBar'[t] = InboxBar[t]
    BY <1>2 DEF InboxBar
  <2> QED BY <2>2, <2>3 DEF InboxBar
<1>12. \A t \in Station : t # s => OnLine(t)' = OnLine(t)
  BY <1>2, <1>4, OnLineShown
<1>13. LineOK(w, u, o, log)
  BY <1>3 DEF Link
<1>14. CASE w # Eofr
  <2>1. OnLine(s)' = OnLine(s)
    BY <1>1, <1>2, <1>4, <1>14, ControlFacts, OnLineShown DEF Shown
  <2>2. LineBar' = LineBar
    BY <1>12, <2>1 DEF LineBar
  <2>3. ~read /\ Inbox(a) = Inbox(v)
    BY <1>5, <1>6, <1>14 DEF Inbox
  <2>4. InboxBar' = InboxBar /\ delivered' = delivered
    BY <1>2, <1>11, <2>3 DEF InboxBar
  <2>5. ChannelStep
    BY <2>2, <2>4, InboxBarIs DEF ChannelStep, Channel!channelVars, LineBar
  <2> QED BY <1>9, <1>10, <2>5
<1>15. CASE w = Eofr
  <2>1. u # Eofr
    BY <1>13, <1>15, ControlFacts DEF LineOK
  <2>2. OnLine(s) = <<last>>
    <3>1. Shown(w, u, log) = <<last>>
      BY <1>3, <1>13, <1>15, ShownIs
    <3> QED BY <1>1, <3>1, OnLineShown
  <2>3. OnLine(s)' = <<>>
    <3>1. LineOK(Empty, u, o, log)
      BY <1>5 DEF Link
    <3>2. Shown(Empty, u, log) = <<>>
      BY <1>3, <2>1, <3>1, ControlFacts, ShownIs
    <3> QED BY <1>1, <1>2, <1>4, <3>2, OnLineShown
  <2>4. LineBar[s] = <<last>> /\ LineBar[s] # <<>> /\ Head(LineBar[s]) = last
    <3>1. <<last>> # <<>> /\ Head(<<last>>) = last
      OBVIOUS
    <3>2. LineBar[s] = <<last>>
      BY <1>1, <2>2 DEF LineBar
    <3> QED BY <3>1, <3>2
  <2>5. LineBar' = [LineBar EXCEPT ![s] = Tail(@)]
    <3>1. Tail(<<last>>) = <<>>
      OBVIOUS
    <3> QED BY <1>12, <2>2, <2>3, <3>1 DEF LineBar
  <2>6. CASE read
    <3>1. ~Finished(v.rx) /\ Finished(a.rx) /\ Content(a.buf, a.size) = last
      BY <1>5, <1>6, <2>6
    <3>2. InboxBar[p] = NoFrame /\ InboxBar' = InboxBar
      BY <1>11, <2>6, <3>1 DEF Inbox, InboxBar
    <3>3. delivered' = [delivered EXCEPT ![p] = Append(@, Head(LineBar[s]))]
      BY <1>2, <2>4, <2>6, <3>1
    <3>4. Channel!ArriveAndRead(s)
      BY <1>1, <2>4, <2>5, <3>2, <3>3, InboxBarIs DEF Channel!ArriveAndRead, LineBar
    <3> QED BY <1>1, <1>9, <1>10, <3>4 DEF ChannelStep, Channel!Next
  <2>7. CASE ~read
    <3>1. \/ InboxBar' = InboxBar
          \/ InboxBar[p] = NoFrame /\ InboxBar' = [InboxBar EXCEPT ![p] = last]
      <4>1. CASE Finished(a.rx) /\ ~Finished(v.rx)
        <5>1. Inbox(v) = NoFrame /\ Inbox(a) = last
          BY <1>5, <4>1 DEF Inbox
        <5> QED BY <1>11, <2>7, <5>1
      <4>2. CASE ~(Finished(a.rx) /\ ~Finished(v.rx))
        <5>1. Inbox(a) = Inbox(v)
          BY <1>6, <4>2 DEF Inbox
        <5> QED BY <1>11, <2>7, <5>1 DEF InboxBar
      <4> QED BY <4>1, <4>2
    <3>2. delivered' = delivered
      BY <1>2, <2>7
    <3>3. Channel!Arrive(s)
      BY <1>1, <2>4, <2>5, <3>1, <3>2, InboxBarIs DEF Channel!Arrive, LineBar
    <3> QED BY <1>1, <1>9, <1>10, <3>3 DEF ChannelStep, Channel!Next
  <2> QED BY <2>6, <2>7
<1> QED BY <1>14, <1>15

-----------------------------------------------------------------------------
(* The theorems. *)

LEMMA ChannelInit == Init => ChannelInv /\ Channel!Init
<1> SUFFICES ASSUME Init PROVE ChannelInv /\ Channel!Init
  OBVIOUS
<1> DEFINE o == WriterOf(NewDevice)
           v == ReaderOf(NewDevice)
<1>1. o.tx = "invalid" /\ o.size = 0 /\ v.rx = "invalid"
  BY DEF WriterOf, ReaderOf, NewDevice
<1> HIDE DEF o, v
<1>2. WriterOK(o) /\ LineOK(Empty, Empty, o, <<>>)
  BY <1>1, ControlFacts DEF WriterOK, LineOK, Sending
<1>3. JoinOK(Empty, Empty, o) /\ AheadOK(Empty, Empty, o, v, <<>>)
  BY <1>1, AfterEmpty, HuntingIsReader DEF JoinOK, AheadOK, InStep
<1>4. Link(Empty, Empty, o, v, <<>>)
  BY <1>2, <1>3 DEF Link
<1>5. ASSUME NEW s \in Station PROVE LineLink(s) /\ CallbackRead(s)
  <2>1. Peer[s] \in Station
    BY UartAssumption
  <2>2. device[s].rx = "invalid"
    BY DEF Init, NewDevice
  <2> QED BY <1>4, <2>1, <2>2 DEF Init, UartInit, LineLink, CallbackRead, Finished, o, v
<1>6. TypeOK
  BY InitTypeOK
<1>7. LineBar = [s \in Station |-> <<>>]
  <2> SUFFICES ASSUME NEW s \in Station PROVE OnLine(s) = <<>>
    BY DEF LineBar
  <2>1. Shown(Empty, Empty, <<>>) = <<>>
    <3>1. <<>> \in Seq(Byte)
      OBVIOUS
    <3> QED BY <1>2, <3>1, ControlFacts, ShownIs
  <2> QED BY <2>1, OnLineShown DEF Init, UartInit
<1>8. InboxBar = [p \in Station |-> NoFrame]
  BY DEF Init, InboxBar, Inbox, ReaderOf, Finished, NewDevice
<1>9. delivered = [p \in Station |-> <<>>]
  BY DEF Init
<1>10. Channel!Init
  BY <1>7, <1>8, <1>9, InboxBarIs DEF Channel!Init, LineBar
<1> QED BY <1>5, <1>6, <1>10 DEF ChannelInv

LEMMA ChannelNext ==
  ASSUME ~Lossy, ChannelInv, [Next]_vars
  PROVE  ChannelInv' /\ ChannelStep
<1>0. TypeOK'
  BY NextTypeOK DEF ChannelInv
<1>1. (\A t \in Station : LineLink(t)' /\ CallbackRead(t)') /\ ChannelStep
  <2>1. CASE UNCHANGED vars
    <3>1. UNCHANGED <<udr, wire, device, sent, delivered>>
      BY <2>1 DEF vars
    <3>2. \A t \in Station : LineLink(t)' /\ CallbackRead(t)'
      BY <3>1, EndsType, LineUntouched, CallbackUntouched DEF ChannelInv
    <3>3. \A t \in Station : OnLine(t)' = OnLine(t)
      BY <3>1, OnLineShown
    <3> QED BY <3>1, <3>2, <3>3, ChannelUntouched
  <2>2. ASSUME NEW s \in Station, NEW f \in Frames, AppSend(s, f)
        PROVE  (\A t \in Station : LineLink(t)' /\ CallbackRead(t)') /\ ChannelStep
    BY <2>2, AppSendLine
  <2>3. ASSUME NEW s \in Station, AppRecv(s)
        PROVE  (\A t \in Station : LineLink(t)' /\ CallbackRead(t)') /\ ChannelStep
    BY <2>3, AppRecvLine
  <2>4. ASSUME NEW s \in Station, TxStart(s)
        PROVE  (\A t \in Station : LineLink(t)' /\ CallbackRead(t)') /\ ChannelStep
    BY <2>4, TxStartLine
  <2>5. ASSUME NEW s \in Station, TxIdle(s)
        PROVE  (\A t \in Station : LineLink(t)' /\ CallbackRead(t)') /\ ChannelStep
    BY <2>5, TxIdleLine
  <2>6. ASSUME NEW s \in Station, TxEnd(s)
        PROVE  (\A t \in Station : LineLink(t)' /\ CallbackRead(t)') /\ ChannelStep
    BY <2>6, TxEndLine
  <2>7. ASSUME NEW s \in Station, NEW stray \in Byte, TxByte(s, stray)
        PROVE  (\A t \in Station : LineLink(t)' /\ CallbackRead(t)') /\ ChannelStep
    BY <2>7, TxByteLine
  <2>8. ASSUME NEW s \in Station, RxInterrupt(s)
        PROVE  (\A t \in Station : LineLink(t)' /\ CallbackRead(t)') /\ ChannelStep
    BY <2>8, RxInterruptLine
  <2>9. ASSUME NEW s \in Station, LineShift(s)
        PROVE  (\A t \in Station : LineLink(t)' /\ CallbackRead(t)') /\ ChannelStep
    BY <2>9, LineShiftLine
  <2>10. \A s \in Station : ~LineLose(s)
    BY DEF LineLose
  <2> QED BY <2>1, <2>2, <2>3, <2>4, <2>5, <2>6, <2>7, <2>8, <2>9, <2>10 DEF Next, TxInterrupt
<1> QED BY <1>0, <1>1 DEF ChannelInv

LEMMA ChannelInvariant ==
  ASSUME ~Lossy
  PROVE  Spec => []ChannelInv
<1>1. ChannelInv /\ [Next]_vars => ChannelInv'
  BY ChannelNext
<1> QED BY ChannelInit, <1>1, PTL DEF Spec

\* Through stuffing, interrupts, a callback that reads or a main program that
\* polls, and receivers that join in the middle of a frame, the applications
\* see a channel of whole frames.
THEOREM ChannelImplemented == ~Lossy /\ Spec => ImplementsChannel
<1> SUFFICES ASSUME ~Lossy PROVE Spec => ImplementsChannel
  OBVIOUS
<1>1. ChannelInv /\ [Next]_vars => [Channel!Next]_(Channel!channelVars)
  BY ChannelNext DEF ChannelStep
<1>2. Init => Channel!Init
  BY ChannelInit
<1> QED BY <1>1, <1>2, ChannelInvariant, PTL DEF Spec, ImplementsChannel, Channel!Spec

\* The count of a receiver that does not overrun drops at a frame start only.
LEMMA AfterShrinks ==
  ASSUME NEW v \in Reader, NEW c, After(v, c).rx # "overrun", After(v, c).size < v.size
  PROVE  After(v, c).rx = "started"
<1>1. v.size \in Nat
  BY ControlFacts DEF Reader, Size
<1> QED BY <1>1 DEF After, Restarted

\* The count of received bytes falls back only when a new frame starts: the
\* payload array never overflows, although getonReceive() does not check it.
THEOREM NoOverrun == ~Lossy /\ Spec => RecvWithinPayload
<1> SUFFICES ASSUME ~Lossy PROVE Spec => RecvWithinPayload
  OBVIOUS
<1> DEFINE Within(s) == device'[s].recvSize < device[s].recvSize => Restarted(device'[s].rx)
<1>1. ChannelInv /\ [Next]_vars => [\A s \in Station : Within(s)]_vars
  <2> SUFFICES ASSUME ChannelInv, Next, NEW s \in Station PROVE Within(s)
    OBVIOUS
  <2>0. /\ device \in [Station -> Device] /\ device[s].recvSize \in Nat
        /\ ~(device[s].recvSize < device[s].recvSize)
    BY ControlFacts DEF ChannelInv, TypeOK, Device, Size
  <2>1. ASSUME NEW t \in Station, NEW f \in Frames, AppSend(t, f) PROVE Within(s)
    <3>1. Send(device[t], f).recvSize = device[t].recvSize
      BY <2>0 DEF Send, Device
    <3> QED BY <2>0, <2>1, <3>1 DEF AppSend
  <2>2. ASSUME NEW t \in Station, AppRecv(t) PROVE Within(s)
    <3>1. Recv(device[t]).recvSize = device[t].recvSize
      BY <2>0 DEF Recv, Device
    <3> QED BY <2>0, <2>2, <3>1 DEF AppRecv
  <2>3. ASSUME NEW t \in Station, TxStart(t) PROVE Within(s)
    BY <2>0, <2>3 DEF TxStart
  <2>4. ASSUME NEW t \in Station, TxIdle(t) PROVE Within(s)
    BY <2>0, <2>4 DEF TxIdle
  <2>5. ASSUME NEW t \in Station, TxEnd(t) PROVE Within(s)
    BY <2>0, <2>5 DEF TxEnd
  <2>6. ASSUME NEW t \in Station, NEW stray \in Byte, TxByte(t, stray) PROVE Within(s)
    BY <2>0, <2>6 DEF TxByte
  <2>7. ASSUME NEW t \in Station, RxInterrupt(t) PROVE Within(s)
    <3> DEFINE v == ReaderOf(device[t])
               a == After(v, wire[Source(t)])
    <3>1. /\ a.rx # "overrun" /\ a.size \in Nat
          /\ \/ ReaderOf(device'[t]) = a
             \/ /\ ReaderOf(device'[t]) = [rx |-> "invalid", buf |-> a.buf, size |-> a.size]
                /\ Finished(a.rx)
          /\ t # s => ReaderOf(device'[s]) = ReaderOf(device[s])
      BY <2>7, NoOverrunYet, RxInterruptIs, ControlFacts DEF Reader, Size, ChannelInv
    <3>2. v \in Reader /\ v.size = device[t].recvSize
      BY EndsType DEF ChannelInv, ReaderOf
    <3>3. a.size < v.size => a.rx = "started"
      BY <3>1, <3>2, AfterShrinks
    <3> HIDE DEF a
    <3>4. CASE t = s
      <4>1. device'[s].recvSize = a.size
        BY <3>1, <3>4 DEF ReaderOf
      <4>2. device'[s].rx = a.rx \/ a.rx = "fine"
        BY <3>1, <3>4 DEF ReaderOf, Finished
      <4> QED BY <3>2, <3>3, <3>4, <4>1, <4>2 DEF Restarted
    <3>5. CASE t # s
      <4>1. device'[s].recvSize = device[s].recvSize
        BY <3>1, <3>5 DEF ReaderOf
      <4> QED BY <2>0, <4>1
    <3> QED BY <3>4, <3>5
  <2>8. ASSUME NEW t \in Station, LineShift(t) \/ LineLose(t) PROVE Within(s)
    BY <2>0, <2>8 DEF LineShift, LineLose
  <2> QED BY <2>1, <2>2, <2>3, <2>4, <2>5, <2>6, <2>7, <2>8 DEF Next, TxInterrupt
<1> QED BY <1>1, ChannelInvariant, PTL DEF Spec, RecvWithinPayload

-----------------------------------------------------------------------------
(* Every accepted frame is put on the device, if the application waits for *)
(* onReady before it sends.                                                *)

\* The device holds a frame that it has yet to send, or to finish.
Owes(d) == Sending(d.tx) \/ MayStart(d)

\* The frames accepted are those sent, and the one the device still holds.
SentOrOwed(s) ==
  /\ accepted[s] = IF Owes(device[s])
                   THEN Append(sent[s], Content(device[s].sendBuf, device[s].sendSize))
                   ELSE sent[s]
  /\ Owes(device[s]) => device[s].udrie /\ ~ready[s]

\* A step that leaves the writer and the histories alone keeps SentOrOwed.
LEMMA OwedUntouched ==
  ASSUME NEW s \in Station, SentOrOwed(s),
         WriterOf(device'[s]) = WriterOf(device[s]), device'[s].udrie = device[s].udrie,
         accepted'[s] = accepted[s], sent'[s] = sent[s], ready'[s] = ready[s]
  PROVE  SentOrOwed(s)'
<1>1. /\ device'[s].tx = device[s].tx /\ device'[s].sendPos = device[s].sendPos
      /\ device'[s].sendSize = device[s].sendSize /\ device'[s].sendBuf = device[s].sendBuf
  BY DEF WriterOf
<1> QED BY <1>1 DEF SentOrOwed, Owes, MayStart

LEMMA OwedNext ==
  ASSUME ~Lossy, AwaitReady, ChannelInv, ChannelInv', \A s \in Station : SentOrOwed(s), [Next]_vars
  PROVE  \A s \in Station : SentOrOwed(s)'
<1> SUFFICES ASSUME NEW s \in Station PROVE SentOrOwed(s)'
  OBVIOUS
<1> DEFINE d == device[s]
           e == device'[s]
<1>0. /\ device \in [Station -> Device] /\ d \in Device
      /\ SentOrOwed(s) /\ accepted \in [Station -> Seq(Frames)]
      /\ sent \in [Station -> Seq(Seq(Byte))] /\ ready \in [Station -> BOOLEAN]
  BY DEF ChannelInv, TypeOK
<1>1. CASE UNCHANGED vars
  BY <1>0, <1>1, OwedUntouched DEF vars
<1>2. ASSUME NEW t \in Station, NEW f \in Frames, AppSend(t, f) PROVE SentOrOwed(s)'
  <2>1. /\ ~Sending(device[t].tx) /\ ready[t]
        /\ device' = [device EXCEPT ![t] = Send(device[t], f)]
        /\ ready' = [ready EXCEPT ![t] = FALSE] /\ sent' = sent
        /\ accepted' = IF f = <<>> THEN accepted ELSE [accepted EXCEPT ![t] = Append(@, f)]
    BY <1>2 DEF AppSend
  <2>2. CASE t # s
    <3>1. e = d /\ ready'[s] = ready[s] /\ accepted'[s] = accepted[s] /\ sent'[s] = sent[s]
      BY <1>0, <2>1, <2>2
    <3> QED BY <1>0, <3>1, OwedUntouched
  <2>3. CASE t = s
    <3>1. /\ e.tx = "invalid" /\ e.sendSize = Len(f) /\ e.sendPos = 0 /\ e.udrie
          /\ Content(e.sendBuf, e.sendSize) = f
      BY <1>0, <2>1, <2>3, SendIs DEF WriterOf
    <3>2. accepted[s] = sent[s] /\ ~ready'[s]
      BY <1>0, <2>1, <2>3 DEF SentOrOwed
    <3>3. f \in Seq(Byte)
      BY DeviceAssumption
    <3>4. CASE f = <<>>
      <4>1. ~Owes(e)
        BY <3>1, <3>4 DEF Owes, MayStart, Sending
      <4> QED BY <2>1, <3>2, <3>4, <4>1 DEF SentOrOwed
    <3>5. CASE f # <<>>
      <4>1. Owes(e)
        BY <3>1, <3>3, <3>5 DEF Owes, MayStart, ReadyToStart
      <4>2. accepted'[s] = Append(sent[s], f)
        BY <1>0, <2>1, <2>3, <3>2, <3>5
      <4> QED BY <2>1, <3>1, <3>2, <4>1, <4>2 DEF SentOrOwed
    <3> QED BY <3>4, <3>5
  <2> QED BY <2>2, <2>3
<1>3. ASSUME NEW t \in Station, AppRecv(t) PROVE SentOrOwed(s)'
  <2>1. WriterOf(e) = WriterOf(d) /\ e.udrie = d.udrie
    BY <1>0, <1>3 DEF AppRecv, Recv, WriterOf, Device
  <2> QED BY <1>0, <1>3, <2>1, OwedUntouched DEF AppRecv
<1>4. ASSUME NEW t \in Station, TxStart(t) PROVE SentOrOwed(s)'
  <2>1. /\ device' = [device EXCEPT ![t].tx = "started"] /\ MayStart(device[t])
        /\ UNCHANGED <<ready, accepted, sent>>
    BY <1>4 DEF TxStart, MayStart, ReadyToStart, StartFrame, historyVars
  <2>2. CASE t # s
    <3>1. e = d
      BY <1>0, <2>1, <2>2
    <3> QED BY <1>0, <2>1, <3>1, OwedUntouched
  <2>3. CASE t = s
    <3>1. /\ e.tx = "started" /\ e.sendBuf = d.sendBuf /\ e.sendSize = d.sendSize
          /\ e.udrie = d.udrie
      BY <1>0, <2>1, <2>3 DEF Device
    <3>2. Owes(d) /\ Owes(e)
      BY <2>1, <2>3, <3>1 DEF Owes, Sending
    <3> QED BY <1>0, <2>1, <3>1, <3>2 DEF SentOrOwed
  <2> QED BY <2>2, <2>3
<1>5. ASSUME NEW t \in Station, TxIdle(t) PROVE SentOrOwed(s)'
  <2>1. /\ device' = [device EXCEPT ![t].udrie = FALSE] /\ ready' = [ready EXCEPT ![t] = TRUE]
        /\ ~Owes(device[t]) /\ UNCHANGED <<accepted, sent>>
    BY <1>5 DEF TxIdle, Owes, historyVars
  <2>2. CASE t # s
    <3>1. e = d /\ ready'[s] = ready[s]
      BY <1>0, <2>1, <2>2
    <3> QED BY <1>0, <2>1, <3>1, OwedUntouched
  <2>3. CASE t = s
    <3>1. e.tx = d.tx /\ e.sendPos = d.sendPos /\ e.sendSize = d.sendSize
      BY <1>0, <2>1, <2>3 DEF Device
    <3>2. ~Owes(d) /\ ~Owes(e)
      BY <2>1, <2>3, <3>1 DEF Owes, MayStart
    <3> QED BY <1>0, <2>1, <3>2 DEF SentOrOwed
  <2> QED BY <2>2, <2>3
<1>6. ASSUME NEW t \in Station, TxEnd(t) PROVE SentOrOwed(s)'
  <2>1. device[t].tx = "regular"
    <3>1. /\ WriterOK(WriterOf(device[t])) /\ Sending(device[t].tx) /\ device[t].tx \in State
          /\ device[t].sendPos = device[t].sendSize /\ device[t].sendSize \in Nat
      BY <1>0, <1>6, ControlFacts DEF TxEnd, ChannelInv, LineLink, Link, Device, Size
    <3> QED BY <3>1 DEF WriterOK, WriterOf, Sending, State
  <2>2. /\ device' = [device EXCEPT ![t].tx = "fine"] /\ UNCHANGED <<ready, accepted>>
        /\ sent' = [sent EXCEPT ![t] =
                      Append(@, Content(device[t].sendBuf, device[t].sendSize))]
    BY <1>0, <1>6, <2>1 DEF TxEnd, EndFrame
  <2>3. CASE t # s
    <3>1. e = d /\ sent'[s] = sent[s]
      BY <1>0, <2>2, <2>3
    <3> QED BY <1>0, <2>2, <3>1, OwedUntouched
  <2>4. CASE t = s
    <3>1. e.tx = "fine"
      BY <1>0, <2>2, <2>4 DEF Device
    <3>2. Owes(d) /\ ~Owes(e)
      BY <2>1, <2>4, <3>1 DEF Owes, MayStart, Sending, ReadyToStart
    <3>3. sent'[s] = Append(sent[s], Content(d.sendBuf, d.sendSize))
      BY <1>0, <2>2, <2>4
    <3> QED BY <1>0, <2>2, <3>2, <3>3 DEF SentOrOwed
  <2> QED BY <2>3, <2>4
<1>7. ASSUME NEW t \in Station, NEW stray \in Byte, TxByte(t, stray) PROVE SentOrOwed(s)'
  <2> DEFINE c   == IF device[t].sendPos < Payload THEN device[t].sendBuf[device[t].sendPos] ELSE stray
             out == TransformOut(device[t].tx, c)
             pos == IF Again(out.tx) THEN device[t].sendPos ELSE (device[t].sendPos + 1) % (Payload + 1)
  <2>1. /\ device' = [device EXCEPT ![t].tx = out.tx, ![t].sendPos = pos]
        /\ Sending(device[t].tx) /\ UNCHANGED <<ready, accepted, sent>>
    BY <1>7 DEF TxByte, historyVars
  <2>2. Sending(out.tx)
    BY <2>1 DEF TransformOut, Opened, Sending
  <2> HIDE DEF out, pos
  <2>3. CASE t # s
    <3>1. e = d
      BY <1>0, <2>1, <2>3
    <3> QED BY <1>0, <2>1, <3>1, OwedUntouched
  <2>4. CASE t = s
    <3>1. /\ e.tx = out.tx /\ e.sendBuf = d.sendBuf /\ e.sendSize = d.sendSize
          /\ e.udrie = d.udrie
      BY <1>0, <2>1, <2>4 DEF Device
    <3>2. Owes(d) /\ Owes(e)
      BY <2>1, <2>2, <2>4, <3>1 DEF Owes
    <3> QED BY <1>0, <2>1, <3>1, <3>2 DEF SentOrOwed
  <2> QED BY <2>3, <2>4
<1>8. ASSUME NEW t \in Station, RxInterrupt(t) PROVE SentOrOwed(s)'
  <2>1. WriterOf(e) = WriterOf(d) /\ UNCHANGED <<ready, accepted, sent>>
    BY <1>8, NoOverrunYet, RxInterruptIs DEF RxInterrupt, ChannelInv
  <2>2. e.udrie = d.udrie
    <3>1. Source(t) \in Station /\ wire[Source(t)] \in Byte
      BY <1>8, SourceType DEF RxInterrupt, RxReady, ChannelInv, TypeOK, UartTypeOK
    <3>2. /\ GetOnReceive(device[t], wire[Source(t)]).udrie = device[t].udrie
          /\ Recv(GetOnReceive(device[t], wire[Source(t)])).udrie = device[t].udrie
      BY <1>0, <3>1, ReceiveKeepsTransmit
    <3> QED BY <1>0, <1>8, <3>2 DEF RxInterrupt
  <2> QED BY <1>0, <2>1, <2>2, OwedUntouched
<1>9. ASSUME NEW t \in Station, LineShift(t) PROVE SentOrOwed(s)'
  BY <1>0, <1>9, OwedUntouched DEF LineShift, historyVars
<1>10. \A t \in Station : ~LineLose(t)
  BY DEF LineLose
<1> QED BY <1>1, <1>2, <1>3, <1>4, <1>5, <1>6, <1>7, <1>8, <1>9, <1>10 DEF Next, TxInterrupt

\* When the transmitter has gone quiet, every frame send() accepted has been
\* put on the device, once and in order.
THEOREM AllAcceptedSent == ~Lossy /\ AwaitReady /\ Spec => []AcceptedIsSent
<1> SUFFICES ASSUME ~Lossy, AwaitReady PROVE Spec => []AcceptedIsSent
  OBVIOUS
<1> DEFINE Inv == \A s \in Station : SentOrOwed(s)
<1>1. Init => Inv
  <2> SUFFICES ASSUME Init, NEW s \in Station PROVE SentOrOwed(s)
    OBVIOUS
  <2>1. device[s].tx = "invalid" /\ device[s].sendSize = 0
    BY DEF Init, NewDevice
  <2> QED BY <2>1 DEF Init, SentOrOwed, Owes, MayStart, Sending
<1>2. ChannelInv /\ ChannelInv' /\ Inv /\ [Next]_vars => Inv'
  BY OwedNext
<1>3. Inv => AcceptedIsSent
  BY DEF SentOrOwed, AcceptedIsSent
<1> QED BY <1>1, <1>2, <1>3, ChannelInvariant, PTL DEF Spec

-----------------------------------------------------------------------------
(***************************************************************************)
(* A line that loses characters.  Whatever state a receiver is in after a  *)
(* loss, the next frame start it sees leaves it where a receiver is that   *)
(* was hunting for it.  So a receiver whose line is damaged is taken for   *)
(* one that hunts (Seen), and then the line is in order (Link) as it is on *)
(* a line that loses nothing.  A frame that outgrows the payload array     *)
(* overwrites the position of the transmitter of its station, whose line   *)
(* need not be damaged; RecvWithinPayload excludes that.                   *)
(***************************************************************************)

Seen(v, lost) == IF lost THEN [rx |-> "invalid", buf |-> v.buf, size |-> v.size] ELSE v

SeenLink(s) ==
  Link(wire[s], udr[s], WriterOf(device[s]), Seen(ReaderOf(device[Peer[s]]), damaged[s]), sent[s])

\* The frame that the receiver v holds is one of log.
Known(v, log) == \E i \in DOMAIN log : log[i] = Content(v.buf, v.size)

FinishedKnown(s) ==
  Finished(device[Peer[s]].rx) /\ ~damaged[s] => Known(ReaderOf(device[Peer[s]]), sent[s])

LossyInv ==
  /\ TypeOK
  /\ \A s \in Station : SeenLink(s) /\ FinishedKnown(s)

\* The array of station s did not overflow in this step.
Within(s) == device'[s].recvSize < device[s].recvSize => Restarted(device'[s].rx)

LEMMA SeenIsReader ==
  ASSUME NEW v \in Reader, NEW lost \in BOOLEAN
  PROVE  Seen(v, lost) \in Reader /\ Seen(v, TRUE) \in Hunting /\ Seen(v, FALSE) = v
BY DEF Seen, Reader, Hunting, State

\* After a loss a hunting receiver is still in order.
LEMMA LinkLose ==
  ASSUME NEW w, NEW u, NEW o, NEW v, NEW log, Link(w, u, o, v, log), NEW h \in Hunting
  PROVE  Link(Empty, u, o, h, log)
<1>1. LineOK(Empty, u, o, log)
  BY ControlFacts DEF Link, LineOK
<1>2. ASSUME NEW g \in Hunting PROVE InStep(After(g, u), o) /\ After(g, u).rx # "fine"
  <2>1. g \in Reader /\ g.rx = "invalid"
    BY HuntingIsReader
  <2> QED BY <2>1, AfterInvalid DEF Link, JoinOK
<1>3. JoinOK(Empty, u, o) /\ AheadOK(Empty, u, o, h, log)
  BY <1>2, AfterEmpty DEF JoinOK, AheadOK
<1> QED BY <1>1, <1>3 DEF Link

\* A longer log still has the frame.
LEMMA KnownStays ==
  ASSUME NEW v, NEW S, NEW log \in Seq(S), NEW f \in S, Known(v, log)
  PROVE  Known(v, Append(log, f))
BY DEF Known

\* A frame start takes a receiver that is inside a frame where it takes one
\* that hunts.
LEMMA StartAnyhow ==
  ASSUME NEW v \in Reader, v.rx \in {"invalid", "started", "regular"}
  PROVE  After(v, Sofr) = After(Seen(v, TRUE), Sofr) /\ After(v, Sofr).rx = "started"
<1>1. TransformIn(v.rx, Sofr) = [rx |-> "started", c |-> Sofr, data |-> FALSE]
  BY ControlFacts DEF TransformIn, RxNext, InRegular, Opened
<1>2. After(v, Sofr) = [rx |-> "started", buf |-> v.buf, size |-> 0]
  BY <1>1, ControlFacts DEF After, Restarted
<1>3. Seen(v, TRUE) \in Reader /\ Seen(v, TRUE).rx = "invalid" /\ Seen(v, TRUE).buf = v.buf
  BY SeenIsReader DEF Seen
<1>4. After(Seen(v, TRUE), Sofr) = [rx |-> "started", buf |-> v.buf, size |-> 0]
  <2> PICK h \in Reader : h = Seen(v, TRUE)
    BY <1>3
  <2> QED BY <1>3, AfterInvalid
<1> PICK a : a = [rx |-> "started", buf |-> v.buf, size |-> 0]
  OBVIOUS
<1>5. a.rx = "started"
  OBVIOUS
<1>6. After(v, Sofr) = a
  BY <1>2
<1>7. After(Seen(v, TRUE), Sofr) = a
  BY <1>4
<1> QED BY <1>5, <1>6, <1>7

\* A receiver that overruns its array begins to count at zero in the middle
\* of a frame.
LEMMA OverrunFalls ==
  ASSUME NEW d \in Device, NEW c \in Byte, After(ReaderOf(d), c).rx = "overrun"
  PROVE  LET g == GetOnReceive(d, c)
         IN  /\ g.recvSize < d.recvSize /\ g.rx # "started"
             /\ Recv(g).recvSize < d.recvSize /\ Recv(g).rx # "started"
<1> DEFINE in   == TransformIn(d.rx, c)
           next == [d EXCEPT !.rx = in.rx]
           g    == GetOnReceive(d, c)
<1>1. RecvPosition # Payload
  BY DeviceAssumption DEF RecvPosition
<1>2. c # Empty /\ d.recvSize \in Nat /\ d.recvSize <= Payload /\ d.rx \in State
  BY ControlFacts DEF Device, Size
<1>3. in.rx \in State /\ in.c \in Byte /\ in.data \in BOOLEAN
  BY TransformInType DEF Device
<1>4. in.data /\ ~(d.recvSize < Payload)
  BY <1>2, <1>3 DEF After, ReaderOf, State
<1>5. in.rx # "started"
  BY <1>4, ControlFacts DEF TransformIn, RxNext, InRegular, Opened
<1>6. next \in Device /\ next.rx = in.rx /\ next.recvSize = d.recvSize
  BY <1>3 DEF Device
<1>7. g = StoreByte(next, in.c)
  BY <1>1, <1>4 DEF GetOnReceive
<1> HIDE DEF in, next
<1>8. d.recvSize = Payload /\ (d.recvSize + 1) % (Payload + 1) = 0
  <2>1. d.recvSize = Payload
    BY <1>2, <1>4, ControlFacts
  <2>2. \A n \in Nat : (n + 1) % (n + 1) = 0
    OBVIOUS
  <2> QED BY <2>1, <2>2, ControlFacts
<1>9. g = [[next EXCEPT !.recvSize = 0] EXCEPT !.sendPos = in.c]
  BY <1>4, <1>6, <1>7, <1>8 DEF StoreByte
<1>10. g.recvSize = 0 /\ g.rx = in.rx /\ g \in Device
  BY <1>3, <1>6, <1>9, GetOnReceiveType, ControlFacts DEF Device, Size
<1> HIDE DEF g
<1>11. Recv(g).recvSize = 0 /\ Recv(g).rx \in {"invalid", in.rx}
  BY <1>10 DEF Recv, Device
<1> QED BY <1>5, <1>8, <1>10, <1>11, ControlFacts DEF g

-----------------------------------------------------------------------------
(* The steps. *)

\* What a line needs to stay in order when a step leaves it alone.
LEMMA SeenUntouched ==
  ASSUME NEW s \in Station, SeenLink(s), FinishedKnown(s),
         wire'[s] = wire[s], udr'[s] = udr[s], sent'[s] = sent[s], damaged'[s] = damaged[s],
         WriterOf(device'[s]) = WriterOf(device[s]),
         ReaderOf(device'[Peer[s]]) = ReaderOf(device[Peer[s]])
  PROVE  SeenLink(s)' /\ FinishedKnown(s)'
<1>1. device'[Peer[s]].rx = device[Peer[s]].rx
  BY DEF ReaderOf
<1> QED BY <1>1 DEF SeenLink, FinishedKnown

\* A step of the transmitter of s concerns the line of s only.
LEMMA SeenTransmit ==
  ASSUME LossyInv, NEW s \in Station, TransmitOnly(s),
         Link(wire'[s], udr'[s], WriterOf(device'[s]),
              Seen(ReaderOf(device[Peer[s]]), damaged[s]), sent'[s]),
         \/ sent'[s] = sent[s]
         \/ \E f \in Seq(Byte) : sent'[s] = Append(sent[s], f)
  PROVE  \A t \in Station : SeenLink(t)' /\ FinishedKnown(t)'
<1> SUFFICES ASSUME NEW t \in Station PROVE SeenLink(t)' /\ FinishedKnown(t)'
  OBVIOUS
<1>1. /\ Peer[t] \in Station /\ SeenLink(t) /\ FinishedKnown(t) /\ sent[t] \in Seq(Seq(Byte))
      /\ ReaderOf(device'[Peer[t]]) = ReaderOf(device[Peer[t]]) /\ damaged'[t] = damaged[t]
  BY EndsType DEF LossyInv, TransmitOnly
<1>2. CASE t = s
  <2>1. SeenLink(t)'
    BY <1>1, <1>2 DEF SeenLink
  <2>2. FinishedKnown(t)'
    <3>1. device'[Peer[t]].rx = device[Peer[t]].rx
      BY <1>1 DEF ReaderOf
    <3>2. Known(ReaderOf(device[Peer[t]]), sent[t]) => Known(ReaderOf(device[Peer[t]]), sent'[t])
      BY <1>1, <1>2, KnownStays
    <3> QED BY <1>1, <3>1, <3>2 DEF FinishedKnown
  <2> QED BY <2>1, <2>2
<1>3. CASE t # s
  BY <1>1, <1>3, SeenUntouched DEF TransmitOnly
<1> QED BY <1>2, <1>3

\* Every step of a transmitter is such a step.
LEMMA SeenByTransmitter ==
  ASSUME LossyInv, NEW s \in Station,
         \/ \E f \in Frames : AppSend(s, f)
         \/ TxStart(s) \/ TxEnd(s) \/ LineShift(s)
         \/ \E stray \in Byte : TxByte(s, stray)
  PROVE  \A t \in Station : SeenLink(t)' /\ FinishedKnown(t)'
<1> DEFINE v == Seen(ReaderOf(device[Peer[s]]), damaged[s])
<1>1. /\ v \in Reader /\ TypeOK /\ Link(wire[s], udr[s], WriterOf(device[s]), v, sent[s])
  <2>1. damaged[s] \in BOOLEAN /\ Peer[s] \in Station /\ ReaderOf(device[Peer[s]]) \in Reader
    BY EndsType DEF LossyInv, TypeOK
  <2> QED BY <2>1, SeenIsReader DEF LossyInv, SeenLink
<1> HIDE DEF v
<1>2. /\ TransmitOnly(s)
      /\ Link(wire'[s], udr'[s], WriterOf(device'[s]), v, sent'[s])
      /\ \/ sent'[s] = sent[s]
         \/ \E f \in Frames : sent'[s] = Append(sent[s], f)
  <2>1. CASE \E f \in Frames : AppSend(s, f)
    BY <1>1, <2>1, AppSendIs
  <2>2. CASE TxStart(s)
    BY <1>1, <2>2, TxStartIs
  <2>3. CASE TxEnd(s)
    <3> DEFINE f == Content(device[s].sendBuf, device[s].sendSize)
    <3>1. /\ TransmitOnly(s) /\ wire' = wire /\ udr'[s] = Eofr /\ f \in Frames
          /\ sent'[s] = Append(sent[s], f)
          /\ Link(wire[s], Eofr, WriterOf(device'[s]), v, sent'[s])
      BY <1>1, <2>3, TxEndIs
    <3> HIDE DEF f
    <3> QED BY <3>1
  <2>4. CASE LineShift(s)
    BY <1>1, <2>4, LineShiftIs
  <2>5. ASSUME NEW stray \in Byte, TxByte(s, stray)
        PROVE  /\ TransmitOnly(s) /\ sent' = sent
               /\ Link(wire'[s], udr'[s], WriterOf(device'[s]), v, sent'[s])
    BY <1>1, <2>5, TxByteIs
  <2> QED BY <2>1, <2>2, <2>3, <2>4, <2>5
<1>3. Frames \subseteq Seq(Byte)
  BY DeviceAssumption
<1> QED BY <1>2, <1>3, SeenTransmit DEF v

LEMMA SeenByIdle ==
  ASSUME LossyInv, NEW s \in Station, TxIdle(s)
  PROVE  \A t \in Station : SeenLink(t)' /\ FinishedKnown(t)'
<1>1. /\ device' = [device EXCEPT ![s].udrie = FALSE]
      /\ UNCHANGED <<udr, wire, sent, damaged>>
  BY DEF TxIdle, uartVars, historyVars
<1>2. \A t \in Station : /\ ReaderOf(device'[t]) = ReaderOf(device[t])
                         /\ WriterOf(device'[t]) = WriterOf(device[t])
  BY <1>1 DEF ReaderOf, WriterOf, LossyInv, TypeOK, Device
<1> QED BY <1>1, <1>2, EndsType, SeenUntouched DEF LossyInv

LEMMA SeenByRecv ==
  ASSUME LossyInv, NEW p \in Station, AppRecv(p)
  PROVE  \A t \in Station : SeenLink(t)' /\ FinishedKnown(t)'
<1> DEFINE v == ReaderOf(device[p])
           h == [rx |-> "invalid", buf |-> v.buf, size |-> v.size]
<1>1. /\ device' = [device EXCEPT ![p] = [device[p] EXCEPT !.rx = "invalid"]]
      /\ UNCHANGED <<udr, wire, sent, damaged>>
  BY DEF AppRecv, Recv, uartVars
<1>2. device \in [Station -> Device] /\ device[p] \in Device /\ v \in Reader
  BY EndsType DEF LossyInv, TypeOK
<1>3. /\ \A t \in Station : WriterOf(device'[t]) = WriterOf(device[t])
      /\ \A t \in Station : t # p => device'[t] = device[t]
  BY <1>1, <1>2 DEF WriterOf, Device
<1>4. ReaderOf(device'[p]) = h /\ h \in Hunting /\ device'[p].rx = "invalid"
  BY <1>1, <1>2 DEF ReaderOf, Device, Hunting
<1> HIDE DEF h
<1> SUFFICES ASSUME NEW t \in Station PROVE SeenLink(t)' /\ FinishedKnown(t)'
  OBVIOUS
<1>5. SeenLink(t) /\ FinishedKnown(t) /\ Peer[t] \in Station /\ damaged[t] \in BOOLEAN
  BY EndsType DEF LossyInv, TypeOK
<1>6. CASE Peer[t] = p
  <2>1. Seen(h, damaged[t]) \in Hunting
    BY <1>4, <1>5, SeenIsReader, HuntingIsReader
  <2>2. Link(wire[t], udr[t], WriterOf(device[t]), Seen(h, damaged[t]), sent[t])
    BY <1>5, <2>1, LinkFree DEF SeenLink
  <2>3. SeenLink(t)'
    BY <1>1, <1>3, <1>4, <1>6, <2>2 DEF SeenLink
  <2>4. FinishedKnown(t)'
    BY <1>4, <1>6 DEF FinishedKnown, Finished
  <2> QED BY <2>3, <2>4
<1>7. CASE Peer[t] # p
  BY <1>1, <1>3, <1>5, <1>7, SeenUntouched
<1> QED BY <1>6, <1>7

LEMMA SeenByLoss ==
  ASSUME LossyInv, NEW s \in Station, LineLose(s)
  PROVE  \A t \in Station : SeenLink(t)' /\ FinishedKnown(t)'
<1>1. /\ wire' = [wire EXCEPT ![s] = Empty] /\ damaged' = [damaged EXCEPT ![s] = TRUE]
      /\ UNCHANGED <<udr, device, sent>>
  BY DEF LineLose, Lose, historyVars
<1>2. DOMAIN wire = Station /\ DOMAIN damaged = Station
  BY DEF LossyInv, TypeOK, UartTypeOK
<1> SUFFICES ASSUME NEW t \in Station PROVE SeenLink(t)' /\ FinishedKnown(t)'
  OBVIOUS
<1>3. /\ SeenLink(t) /\ FinishedKnown(t) /\ Peer[t] \in Station
      /\ ReaderOf(device[Peer[t]]) \in Reader
  BY EndsType DEF LossyInv
<1>4. CASE t = s
  <2>1. wire'[t] = Empty /\ damaged'[t] = TRUE
    BY <1>1, <1>2, <1>4
  <2>2. Seen(ReaderOf(device[Peer[t]]), TRUE) \in Hunting
    BY <1>3, SeenIsReader
  <2>3. Link(Empty, udr[t], WriterOf(device[t]), Seen(ReaderOf(device[Peer[t]]), TRUE), sent[t])
    BY <1>3, <2>2, LinkLose DEF SeenLink
  <2> QED BY <1>1, <2>1, <2>3 DEF SeenLink, FinishedKnown
<1>5. CASE t # s
  <2>1. wire'[t] = wire[t] /\ damaged'[t] = damaged[t]
    BY <1>1, <1>2, <1>5
  <2> QED BY <1>1, <1>3, <2>1, SeenUntouched
<1> QED BY <1>4, <1>5

\* Without an overflow the receive interrupt is a step of After.
LEMMA WithinNoOverrun ==
  ASSUME TypeOK, NEW p \in Station, RxInterrupt(p), Within(p)
  PROVE  After(ReaderOf(device[p]), wire[Source(p)]).rx # "overrun"
<1> DEFINE c == wire[Source(p)]
           d == device[p]
           g == GetOnReceive(d, c)
<1>1. Source(p) \in Station /\ c \in Byte /\ d \in Device /\ device \in [Station -> Device]
  BY SourceType DEF RxInterrupt, RxReady, TypeOK, UartTypeOK
<1>2. device'[p] \in {g, Recv(g)}
  BY <1>1 DEF RxInterrupt
<1>3. ASSUME After(ReaderOf(d), c).rx = "overrun" PROVE FALSE
  <2>1. /\ g.recvSize < d.recvSize /\ g.rx # "started"
        /\ Recv(g).recvSize < d.recvSize /\ Recv(g).rx # "started"
    BY <1>1, <1>3, OverrunFalls
  <2> HIDE DEF g
  <2> QED BY <1>2, <2>1 DEF Within, Restarted
<1> QED BY <1>3

LEMMA SeenByReceiver ==
  ASSUME LossyInv, NEW p \in Station, RxInterrupt(p), Within(p)
  PROVE  \A t \in Station : SeenLink(t)' /\ FinishedKnown(t)'
<1> DEFINE s    == Source(p)
           v    == ReaderOf(device[p])
           w    == wire[s]
           lost == damaged[s]
           a    == After(v, w)
           read == ReadInCallback /\ Finished(a.rx) /\ a.size <= AppSize
           h    == [rx |-> "invalid", buf |-> a.buf, size |-> a.size]
           n    == IF read THEN h ELSE a
           still == IF w = Sofr /\ v.rx \notin {"stuff", "fine"} THEN FALSE ELSE lost
           u    == udr[s]
           o    == WriterOf(device[s])
           log  == sent[s]
<1>1. /\ s \in Station /\ Peer[s] = p
      /\ \A t \in Station : Peer[t] = p => t = s
  BY SourceType, UartAssumption
<1>2. a.rx # "overrun"
  BY WithinNoOverrun DEF LossyInv
<1>3. /\ a \in Reader /\ ReaderOf(device'[p]) = n
      /\ wire' = [wire EXCEPT ![s] = Empty] /\ udr' = udr /\ sent' = sent
      /\ \A t \in Station : t # p => ReaderOf(device'[t]) = ReaderOf(device[t])
      /\ \A t \in Station : WriterOf(device'[t]) = WriterOf(device[t])
  BY <1>2, RxInterruptIs DEF LossyInv
<1>4. damaged' = [damaged EXCEPT ![s] = still]
  <2>1. v.rx = device[p].rx
    BY DEF ReaderOf
  <2>2. damaged' = IF w = Sofr /\ v.rx \notin {"stuff", "fine"}
                   THEN [damaged EXCEPT ![s] = FALSE] ELSE damaged
    BY <2>1 DEF RxInterrupt
  <2>3. damaged = [damaged EXCEPT ![s] = damaged[s]]
    BY <1>1 DEF LossyInv, TypeOK
  <2> QED BY <2>2, <2>3
<1>5. /\ wire'[s] = Empty /\ damaged'[s] = still
      /\ \A t \in Station : t # s => wire'[t] = wire[t] /\ damaged'[t] = damaged[t]
  BY <1>1, <1>3, <1>4 DEF LossyInv, TypeOK, UartTypeOK
<1>6. /\ v \in Reader /\ w \in Char /\ u \in Char /\ lost \in BOOLEAN
      /\ Link(w, u, o, Seen(v, lost), log) /\ log \in Seq(Seq(Byte))
      /\ (Finished(v.rx) /\ ~lost => Known(v, log))
  <2>1. s \in Station /\ SeenLink(s) /\ FinishedKnown(s) /\ damaged[s] \in BOOLEAN
    BY <1>1 DEF LossyInv, TypeOK
  <2>2. v.rx = device[p].rx
    BY DEF ReaderOf
  <2> QED BY <1>1, <2>1, <2>2, EndsType DEF LossyInv, SeenLink, FinishedKnown
<1>7. h \in Hunting /\ h \in Reader /\ n \in Reader
  BY <1>3 DEF Hunting, Reader, State
<1>8. Link(Empty, u, o, Seen(n, still), log) /\ (Finished(n.rx) /\ ~still => Known(n, log))
  <2> HIDE DEF s, v, w, lost, u, o, log, n
  <2>1. CASE ~lost
    <3>1. ~still /\ Seen(v, lost) = v /\ Seen(n, still) = n
      BY <1>6, <1>7, <2>1, SeenIsReader
    <3>2. /\ Link(Empty, u, o, a, log)
          /\ a.rx = "fine" /\ v.rx # "fine" =>
               w = Eofr /\ Content(a.buf, a.size) = log[Len(log)]
      BY <1>6, <3>1, LinkRead
    <3>3. Link(Empty, u, o, n, log)
      <4>1. Link(Empty, u, o, h, log)
        <5> HIDE DEF h, a
        <5> QED BY <1>7, <3>2, LinkFree
      <4> QED BY <3>2, <4>1 DEF n
    <3>4. ASSUME Finished(n.rx) PROVE Known(n, log)
      <4>1. n = a /\ a.rx = "fine"
        BY <3>4 DEF n, Finished
      <4>2. CASE v.rx = "fine"
        <5>1. a = v
          BY <1>6, <4>2, AfterFine
        <5> QED BY <1>6, <2>1, <4>1, <4>2, <5>1 DEF Finished
      <4>3. CASE v.rx # "fine"
        <5>1. w = Eofr /\ Content(a.buf, a.size) = log[Len(log)]
          BY <3>2, <4>1, <4>3
        <5>2. log # <<>>
          BY <1>6, <5>1 DEF Link, LineOK
        <5>3. Len(log) \in DOMAIN log
          BY <1>6, <5>2
        <5> QED BY <4>1, <5>1, <5>3 DEF Known
      <4> QED BY <4>2, <4>3
    <3> QED BY <3>1, <3>3, <3>4
  <2>2. CASE lost /\ still
    <3>1. Seen(n, still) \in Hunting
      BY <1>7, <2>2, SeenIsReader
    <3>2. Link(Empty, u, o, Seen(n, still), log)
      <4> HIDE DEF still
      <4> QED BY <1>6, <3>1, LinkLose
    <3> QED BY <2>2, <3>2
  <2>3. CASE lost /\ ~still
    <3>1. w = Sofr /\ v.rx \in {"invalid", "started", "regular"}
      <4>1. w = Sofr /\ v.rx \notin {"stuff", "fine"}
        BY <2>3
      <4>2. v.rx # "overrun"
        BY <1>2, AfterOverrun
      <4> QED BY <1>6, <4>1, <4>2 DEF Reader, State
    <3>2. a = After(Seen(v, TRUE), w) /\ a.rx = "started"
      BY <1>6, <3>1, StartAnyhow
    <3>3. n = a /\ Seen(n, still) = a /\ ~Finished(n.rx)
      <4>1. n = a
        BY <3>2 DEF n, Finished
      <4>2. Seen(n, FALSE) = n
        BY <1>7, SeenIsReader
      <4> QED BY <2>3, <3>2, <4>1, <4>2 DEF Finished
    <3>4. Seen(v, TRUE) \in Reader /\ Seen(v, lost) = Seen(v, TRUE)
      BY <1>6, <2>3, SeenIsReader
    <3>5. Link(Empty, u, o, After(Seen(v, TRUE), w), log)
      BY <1>6, <3>4, LinkRead
    <3> QED BY <3>2, <3>3, <3>5
  <2> QED BY <2>1, <2>2, <2>3
<1> HIDE DEF n, still, v
<1>9. SeenLink(s)' /\ FinishedKnown(s)'
  <2>1. SeenLink(s)'
    BY <1>1, <1>3, <1>5, <1>8 DEF SeenLink
  <2>2. device'[p].rx = n.rx
    BY <1>3 DEF ReaderOf
  <2>3. FinishedKnown(s)'
    BY <1>1, <1>3, <1>5, <1>8, <2>2 DEF FinishedKnown
  <2> QED BY <2>1, <2>3
<1> SUFFICES ASSUME NEW t \in Station PROVE SeenLink(t)' /\ FinishedKnown(t)'
  OBVIOUS
<1>10. CASE t = s
  BY <1>9, <1>10
<1>11. CASE t # s
  <2>1. SeenLink(t) /\ FinishedKnown(t) /\ Peer[t] \in Station /\ Peer[t] # p
    BY <1>1, <1>11, EndsType DEF LossyInv
  <2> HIDE DEF s
  <2> QED BY <1>3, <1>5, <1>11, <2>1, SeenUntouched
<1> QED BY <1>10, <1>11

LEMMA LossyNext ==
  ASSUME LossyInv, [Next]_vars, [\A s \in Station : Within(s)]_vars
  PROVE  LossyInv'
<1>0. TypeOK'
  BY NextTypeOK DEF LossyInv
<1>1. CASE UNCHANGED vars
  <2>1. UNCHANGED <<udr, wire, device, sent, damaged>>
    BY <1>1 DEF vars
  <2>2. \A t \in Station : SeenLink(t)' /\ FinishedKnown(t)'
    BY <2>1, SeenUntouched DEF LossyInv
  <2> QED BY <1>0, <2>2 DEF LossyInv
<1>2. CASE Next /\ \A s \in Station : Within(s)
  <2>1. \A t \in Station : SeenLink(t)' /\ FinishedKnown(t)'
    BY <1>2, SeenByTransmitter, SeenByIdle, SeenByRecv, SeenByLoss, SeenByReceiver
       DEF Next, TxInterrupt
  <2> QED BY <1>0, <2>1 DEF LossyInv
<1> QED BY <1>1, <1>2

LEMMA LossyInit == Init => LossyInv
<1> SUFFICES ASSUME Init PROVE LossyInv
  OBVIOUS
<1>1. ChannelInv
  BY ChannelInit
<1>2. ASSUME NEW s \in Station PROVE SeenLink(s) /\ FinishedKnown(s)
  <2>1. LineLink(s) /\ Peer[s] \in Station
    BY <1>1, EndsType DEF ChannelInv
  <2>2. damaged[s] = FALSE /\ device[Peer[s]].rx = "invalid"
    BY <2>1 DEF Init, NewDevice
  <2> QED BY <2>1, <2>2 DEF LineLink, SeenLink, Seen, FinishedKnown, Finished
<1> QED BY <1>1, <1>2 DEF ChannelInv, LossyInv

\* Resynchronisation, on a line that may lose any character: as long as no
\* receive buffer overflows, a receiver that has seen a frame start and no
\* loss since holds a frame that its sender put on the line.
THEOREM DamageOnly == Spec /\ RecvWithinPayload => []OnlyDamageCorrupts
<1> DEFINE AllWithin == \A s \in Station : Within(s)
<1>1. LossyInv /\ [Next]_vars /\ [AllWithin]_vars => LossyInv'
  BY LossyNext
<1>2. LossyInv => OnlyDamageCorrupts
  BY DEF LossyInv, FinishedKnown, Known, ReaderOf, OnlyDamageCorrupts
<1>3. RecvWithinPayload <=> [][AllWithin]_vars
  BY DEF RecvWithinPayload, Within
<1> HIDE DEF AllWithin
<1> QED BY LossyInit, <1>1, <1>2, <1>3, PTL DEF Spec
=============================================================================
