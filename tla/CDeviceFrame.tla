---------------------------- MODULE CDeviceFrame ----------------------------
(***************************************************************************)
(* The interrupt-driven frame device CDeviceFrame<Uart, FLT, PL> of        *)
(* src/include/avr-halib/common/cdeviceframe.h on a full-duplex UART.      *)
(*                                                                         *)
(* Actors of a station: the application, the data-register-empty interrupt *)
(* (putonReady), the receive interrupt (getonReceive) and the UART.  An    *)
(* interrupt handler, with the callbacks it makes, runs with interrupts    *)
(* off, so it is one action.  The application's calls are one action too:  *)
(* they are made from a callback, or by main under a GlobalIntLock.        *)
(*                                                                         *)
(* FLT and char have the same width and PL is its largest value, as in the *)
(* default arguments <.., uint8_t, 255>: Payload stands for 255.           *)
(***************************************************************************)
EXTENDS CFrame, Uart

CONSTANTS Payload,         \* info::payload, and the largest FLT
          Frames,          \* what the application may send, as sequences of bytes
          MaxSends,        \* bound: frames a station's send() accepts in a behaviour
          AppSize,         \* the size argument the application passes to recv()
          ReadInCallback,  \* the onReceive handler calls recv(); else main polls
          AwaitReady,      \* the application sends only after onReady
          Lossy            \* the line may lose characters

ASSUME DeviceAssumption ==
  /\ Payload \in Nat /\ Payload > 0
  /\ Byte = 0 .. Payload
  /\ Empty \notin Byte
  /\ \A f \in Frames : f \in Seq(Byte) /\ Len(f) <= Payload
  /\ MaxSends \in Nat
  /\ AppSize \in 0 .. Payload
  /\ {ReadInCallback, AwaitReady, Lossy} \subseteq BOOLEAN

VARIABLES
  device,     \* the CDeviceFrame object of each station, with its UDRIE bit
  ready,      \* set by the onReady handler, cleared by a successful send()
  accepted,   \* history: the frames for which send() returned their size
  sent,       \* history: the frames whose eofr was put on the device
  delivered,  \* history: the frames recv() returned
  damaged     \* history: a character was lost since Peer[s] last saw a frame start

historyVars == <<accepted, sent, delivered>>
vars == <<udr, wire, device, ready, accepted, sent, delivered, damaged>>

Cell == 0 .. Payload - 1
Size == 0 .. Payload

Device == [tx : State, rx : State,
           recvSize : Size, recvBuf : [Cell -> Byte],
           sendPos : Size, sendSize : Size, sendBuf : [Cell -> Byte],
           udrie : BOOLEAN]

Content(buf, size) == [i \in 1 .. size |-> buf[i - 1]]

-----------------------------------------------------------------------------
(* The methods, as operators on a device object. *)

\* The constructor: frame states reset, sizes and positions zero (the objects
\* are global, so the payload arrays start zeroed); UDRIE is still off.
NewDevice ==
  [tx |-> "invalid", rx |-> "invalid",
   recvSize |-> 0, recvBuf |-> [i \in Cell |-> 0],
   sendPos |-> 0, sendSize |-> 0, sendBuf |-> [i \in Cell |-> 0],
   udrie |-> FALSE]

\* recvMob.position: set by the constructor and by nothing else.
RecvPosition == 0

\* Mutants of Send: the position is not reset; the interrupt is not enabled.
SendKeepsPosition(d, f) ==
  IF Sending(d.tx) THEN d
  ELSE [d EXCEPT !.sendSize = Len(f),
                 !.sendBuf = [i \in Cell |-> IF i < Len(f) THEN f[i + 1] ELSE @[i]],
                 !.tx = "invalid", !.udrie = TRUE]
SendSilently(d, f) ==
  IF Sending(d.tx) THEN d
  ELSE [d EXCEPT !.sendSize = Len(f), !.sendPos = 0,
                 !.sendBuf = [i \in Cell |-> IF i < Len(f) THEN f[i + 1] ELSE @[i]],
                 !.tx = "invalid"]

\* send() copies the frame over the buffer, drops the transmit state to
\* invalid and enables the interrupt; while a frame is going out it does
\* nothing.
Send(d, f) ==
  IF Sending(d.tx) THEN d
  ELSE [d EXCEPT !.sendSize = Len(f), !.sendPos = 0,
                 !.sendBuf = [i \in Cell |-> IF i < Len(f) THEN f[i + 1] ELSE @[i]],
                 !.tx = "invalid", !.udrie = TRUE]

CanRecv(d) == Finished(d.rx) /\ d.recvSize <= AppSize

\* recv(): copies the frame out (Content) and frees the receiver.
Recv(d) == IF CanRecv(d) THEN [d EXCEPT !.rx = "invalid"] ELSE d

\* payload[size++] = c.  The element behind the last one is
\* sendMob.position, the next member of the object.
StoreByte(d, c) ==
  LET next == [d EXCEPT !.recvSize = (@ + 1) % (Payload + 1)]
  IN  IF d.recvSize < Payload
      THEN [next EXCEPT !.recvBuf[d.recvSize] = c]
      ELSE [next EXCEPT !.sendPos = c]

\* Mutant of GetOnReceive: a restart does not empty the buffer.
GetOnReceiveAppends(d, c) ==
  LET in   == TransformIn(d.rx, c)
      next == [d EXCEPT !.rx = in.rx]
  IN  IF in.data THEN StoreByte(next, in.c) ELSE next

\* getonReceive() up to the callback.
GetOnReceive(d, c) ==
  LET rx0  == IF RecvPosition = Payload THEN "invalid" ELSE d.rx
      in   == TransformIn(rx0, c)
      next == [d EXCEPT !.rx = in.rx]
  IN  IF in.data THEN StoreByte(next, in.c)
      ELSE IF Restarted(in.rx) THEN [next EXCEPT !.recvSize = 0]
      ELSE next

-----------------------------------------------------------------------------
Init ==
  /\ UartInit
  /\ device    = [s \in Station |-> NewDevice]
  /\ ready     = [s \in Station |-> TRUE]
  /\ accepted  = [s \in Station |-> <<>>]
  /\ sent      = [s \in Station |-> <<>>]
  /\ delivered = [s \in Station |-> <<>>]
  /\ damaged   = [s \in Station |-> FALSE]

\* A send() that is not refused.  It returns the size: a frame of size zero
\* reports failure although it takes the same path.
AppSend(s, f) ==
  /\ AwaitReady => ready[s]
  /\ Len(accepted[s]) < MaxSends
  /\ ~Sending(device[s].tx)
  /\ device'   = [device EXCEPT ![s] = Send(@, f)]
  /\ ready'    = [ready EXCEPT ![s] = FALSE]
  /\ accepted' = IF f = <<>> THEN accepted ELSE [accepted EXCEPT ![s] = Append(@, f)]
  /\ UNCHANGED <<uartVars, sent, delivered, damaged>>

\* main polls with recv().
AppRecv(s) ==
  /\ ~ReadInCallback
  /\ CanRecv(device[s])
  /\ device'    = [device EXCEPT ![s] = Recv(@)]
  /\ delivered' = [delivered EXCEPT ![s] =
                     Append(@, Content(device[s].recvBuf, device[s].recvSize))]
  /\ UNCHANGED <<uartVars, ready, accepted, sent, damaged>>

-----------------------------------------------------------------------------
(* putonReady(): the interrupt is pending while UDRIE and UDRE are set. *)

TxPending(s) == device[s].udrie /\ Ready(s)

MayStart(d) == ReadyToStart(d.tx) /\ d.sendPos = 0 /\ d.sendSize > 0

TxStart(s) ==
  /\ TxPending(s)
  /\ MayStart(device[s])
  /\ Put(s, Sofr)
  /\ device' = [device EXCEPT ![s].tx = StartFrame(@)]
  /\ UNCHANGED <<wire, ready, historyVars, damaged>>

\* Mutant of TxIdle: the transmit state is not consulted.
TxIdleAnytime(s) ==
  /\ TxPending(s)
  /\ ~MayStart(device[s])
  /\ device' = [device EXCEPT ![s].udrie = FALSE]
  /\ ready'  = [ready EXCEPT ![s] = TRUE]
  /\ UNCHANGED <<uartVars, historyVars, damaged>>

\* Nothing to send: the interrupt is disabled and onReady called.
TxIdle(s) ==
  /\ TxPending(s)
  /\ ~MayStart(device[s])
  /\ ~Sending(device[s].tx)
  /\ device' = [device EXCEPT ![s].udrie = FALSE]
  /\ ready'  = [ready EXCEPT ![s] = TRUE]
  /\ UNCHANGED <<uartVars, historyVars, damaged>>

TxEnd(s) ==
  /\ TxPending(s)
  /\ Sending(device[s].tx)
  /\ device[s].sendPos = device[s].sendSize
  /\ Put(s, Eofr)
  /\ device' = [device EXCEPT ![s].tx = EndFrame(@)]
  /\ sent' = IF device[s].tx # "regular" THEN sent
             ELSE [sent EXCEPT ![s] =
                     Append(@, Content(device[s].sendBuf, device[s].sendSize))]
  /\ UNCHANGED <<wire, ready, accepted, delivered, damaged>>

\* Mutant of TxByte: every character advances the position.
TxByteSkips(s, stray) ==
  LET d   == device[s]
      out == TransformOut(d.tx, IF d.sendPos < Payload THEN d.sendBuf[d.sendPos] ELSE stray)
  IN  /\ TxPending(s) /\ Sending(d.tx)
      /\ d.sendPos # d.sendSize
      /\ d.sendPos < Payload => stray = 0
      /\ Put(s, out.c)
      /\ device' = [device EXCEPT ![s].tx = out.tx, ![s].sendPos = (@ + 1) % (Payload + 1)]
      /\ UNCHANGED <<wire, ready, historyVars, damaged>>

\* One character of the payload; an escaped one takes two interrupts.  A
\* position behind the buffer reads an unrelated byte.
TxByte(s, stray) ==
  LET d   == device[s]
      out == TransformOut(d.tx, IF d.sendPos < Payload THEN d.sendBuf[d.sendPos] ELSE stray)
  IN  /\ TxPending(s)
      /\ Sending(d.tx)
      /\ d.sendPos # d.sendSize
      /\ d.sendPos < Payload => stray = 0
      /\ Put(s, out.c)
      /\ device' = [device EXCEPT ![s].tx = out.tx,
                      ![s].sendPos = IF Again(out.tx) THEN @ ELSE (@ + 1) % (Payload + 1)]
      /\ UNCHANGED <<wire, ready, historyVars, damaged>>

-----------------------------------------------------------------------------
(* getonReceive() with the onReceive callback. *)

RxInterrupt(p) ==
  LET c    == wire[Source(p)]
      d    == GetOnReceive(device[p], c)
      read == ReadInCallback /\ CanRecv(d)
  IN  /\ RxReady(p)
      /\ Get(p)
      /\ device'    = [device EXCEPT ![p] = IF read THEN Recv(d) ELSE d]
      /\ delivered' = IF read
                      THEN [delivered EXCEPT ![p] = Append(@, Content(d.recvBuf, d.recvSize))]
                      ELSE delivered
      /\ damaged'   = IF c = Sofr /\ device[p].rx \notin {"stuff", "fine"}
                      THEN [damaged EXCEPT ![Source(p)] = FALSE] ELSE damaged
      /\ UNCHANGED <<udr, ready, accepted, sent>>

-----------------------------------------------------------------------------
LineShift(s) == Shift(s) /\ UNCHANGED <<device, ready, historyVars, damaged>>

LineLose(s) ==
  /\ Lossy
  /\ Lose(s)
  /\ damaged' = [damaged EXCEPT ![s] = TRUE]
  /\ UNCHANGED <<device, ready, historyVars>>

TxInterrupt(s) ==
  \/ TxStart(s) \/ TxIdle(s) \/ TxEnd(s)
  \/ \E stray \in Byte : TxByte(s, stray)

Next ==
  \E s \in Station :
    \/ \E f \in Frames : AppSend(s, f)
    \/ AppRecv(s)
    \/ TxInterrupt(s)
    \/ RxInterrupt(s)
    \/ LineShift(s)
    \/ LineLose(s)

Spec == Init /\ [][Next]_vars

\* Interrupts are served and the UART shifts; a main program that polls keeps
\* polling.  Nothing obliges the application to send.
FairSpec ==
  /\ Spec
  /\ \A s \in Station : /\ WF_vars(TxInterrupt(s))
                        /\ WF_vars(RxInterrupt(s))
                        /\ WF_vars(LineShift(s))
                        /\ WF_vars(AppRecv(s))
=============================================================================
