----------------------------- MODULE FrameProps -----------------------------
(***************************************************************************)
(* Correctness of CDeviceFrame.                                            *)
(***************************************************************************)
EXTENDS CDeviceFrame

CONSTANT NoFrame

ASSUME NoFrameAssumption == NoFrame \notin Seq(Byte)

\* The shape of the state: sizes and positions stay within FLT and the
\* histories hold frames.
TypeOK ==
  /\ UartTypeOK(Byte)
  /\ device \in [Station -> Device]
  /\ ready \in [Station -> BOOLEAN]
  /\ damaged \in [Station -> BOOLEAN]
  /\ accepted \in [Station -> Seq(Frames)]
  /\ sent \in [Station -> Seq(Seq(Byte))]
  /\ delivered \in [Station -> Seq(Seq(Byte))]

\* A transmission in progress always has its interrupt enabled.  Were UDRIE
\* off while cframe.sending() holds, nothing would move the frame on and
\* send() would refuse every later frame.
SendingHasInterrupt ==
  \A s \in Station : Sending(device[s].tx) => device[s].udrie

\* When the transmitter has gone quiet, every frame send() accepted (by
\* returning its size) has been put on the device, once and in order.
AcceptedIsSent ==
  \A s \in Station : ~device[s].udrie => sent[s] = accepted[s]

\* On a line that loses nothing the payload array never overflows, not even
\* with frames that fill it: the count of received bytes falls back only when a
\* new frame starts, never by running past payload[PL - 1] and wrapping around.
\* getonReceive() itself does not see to that (its test is of a position that
\* stays 0); it holds because the sender stays inside its own buffer and the
\* receiver starts over with every frame.
RecvWithinPayload ==
  [][\A s \in Station :
       device'[s].recvSize < device[s].recvSize => Restarted(device'[s].rx)]_vars

\* A finished frame stays, unchanged, until recv() hands it over, whatever
\* arrives meanwhile.
FinishedUntilRead ==
  [][\A s \in Station : Finished(device[s].rx) =>
        \/ delivered'[s] = Append(delivered[s], Content(device[s].recvBuf, device[s].recvSize))
        \/ /\ Finished(device'[s].rx)
           /\ device'[s].recvSize = device[s].recvSize
           /\ device'[s].recvBuf  = device[s].recvBuf]_vars

\* Resynchronisation on a lossy line: a frame that is handed over although it
\* was never sent lost one of its characters, or its start was swallowed by
\* the damage before it.  After the receiver has seen a frame start and no
\* loss since, it holds a frame of the sender.  (As long as no receive buffer
\* overflows: a merged frame that does writes over the position of the frame
\* that is going out.)
OnlyDamageCorrupts ==
  \A s \in Station :
    Finished(device[Peer[s]].rx) /\ ~damaged[s] =>
      \E i \in DOMAIN sent[s] :
        sent[s][i] = Content(device[Peer[s]].recvBuf, device[Peer[s]].recvSize)

\* Every frame accepted is read by the peer in the end.
EventuallyDelivered ==
  \A s \in Station, n \in 1 .. MaxSends :
    Len(accepted[s]) >= n ~> Len(delivered[Peer[s]]) >= n

-----------------------------------------------------------------------------
(* The device implements FrameChannel: a frame is on the abstract line from *)
(* its eofr being put on the device until that eofr reaches the peer.       *)

Pending(s) == (IF wire[s] = Eofr THEN 1 ELSE 0) + (IF udr[s] = Eofr THEN 1 ELSE 0)

OnLine(s) ==
  LET first == Len(sent[s]) - Pending(s) + 1
  IN  SubSeq(sent[s], IF first > 0 THEN first ELSE 1, Len(sent[s]))

Channel == INSTANCE FrameChannel WITH
  Frame <- Frames,
  line  <- [s \in Station |-> OnLine(s)],
  inbox <- [p \in Station |->
              IF Finished(device[p].rx) THEN Content(device[p].recvBuf, device[p].recvSize)
              ELSE NoFrame],
  got   <- delivered

\* What the applications see is a channel of whole frames: no frame is
\* corrupted, merged, duplicated or reordered by stuffing, by interrupts or
\* by a receiver that joins in the middle of a frame.
ImplementsChannel == Channel!Spec
=============================================================================
