-------------------------- MODULE CDeviceFrameNoInt --------------------------
(***************************************************************************)
(* The polling frame device CDeviceFrameNoInt of                           *)
(* src/include/avr-halib/common/cdeviceframe.h: send() and recv() block and *)
(* have a CFrame of their own, which lives as long as the call.            *)
(*                                                                         *)
(* One station sends frame after frame, its peer calls recv() again and    *)
(* again, each time within a character time, so that the receive register  *)
(* never overruns; the two run concurrently and the UART moves characters  *)
(* between them.                                                           *)
(***************************************************************************)
EXTENDS CFrame, Uart

CONSTANTS Sender, Receiver,
          Frames,     \* non-empty frames to send, as sequences of bytes
          RecvSize,   \* the size argument of recv()
          MaxSends,   \* bound: calls of send() in a behaviour
          Paced       \* the application pauses between two sends (delay_ms)

ASSUME PollingAssumption ==
  /\ {Sender, Receiver} \subseteq Station /\ Peer[Sender] = Receiver
  /\ Empty \notin Byte
  /\ \A f \in Frames : f \in Seq(Byte) /\ Len(f) > 0
  /\ RecvSize \in Nat /\ MaxSends \in Nat
  /\ Paced \in BOOLEAN

VARIABLES
  out,       \* the call of send(): its CFrame state, the frame, the index i
  in,        \* the call of recv(): its CFrame state and the bytes stored so far
  accepted,  \* history: the frames send() returned the size of
  delivered  \* history: the frames recv() returned

vars == <<udr, wire, out, in, accepted, delivered>>

Init ==
  /\ UartInit
  /\ out = [pc |-> "idle", tx |-> "invalid", frame |-> <<>>, i |-> 0]
  /\ in  = [pc |-> "idle", rx |-> "invalid", buf |-> <<>>]
  /\ accepted  = <<>>
  /\ delivered = <<>>

-----------------------------------------------------------------------------
(* send() *)

Drained == \A s \in Station : udr[s] = Empty /\ wire[s] = Empty

\* A size of zero returns at once.  The frame start is put without waiting
\* for ready().
SendStart(f) ==
  /\ out.pc = "idle"
  /\ Len(accepted) < MaxSends
  /\ Paced => Drained
  /\ Put(Sender, Sofr)
  /\ out' = [pc |-> "bytes", tx |-> StartFrame("invalid"), frame |-> f, i |-> 0]
  /\ UNCHANGED <<wire, in, accepted, delivered>>

\* Mutant of SendByte: the loop on again() is missing.
SendByteOnce ==
  LET step == TransformOut(out.tx, out.frame[out.i + 1])
  IN  /\ out.pc = "bytes" /\ out.i < Len(out.frame)
      /\ Ready(Sender)
      /\ Put(Sender, step.c)
      /\ out' = [out EXCEPT !.tx = step.tx, !.i = @ + 1]
      /\ UNCHANGED <<wire, in, accepted, delivered>>

SendByte ==
  LET step == TransformOut(out.tx, out.frame[out.i + 1])
  IN  /\ out.pc = "bytes"
      /\ out.i < Len(out.frame)
      /\ Ready(Sender)
      /\ Put(Sender, step.c)
      /\ out' = [out EXCEPT !.tx = step.tx, !.i = IF Again(step.tx) THEN @ ELSE @ + 1]
      /\ UNCHANGED <<wire, in, accepted, delivered>>

SendEnd ==
  /\ out.pc = "bytes"
  /\ out.i = Len(out.frame)
  /\ Ready(Sender)
  /\ Put(Sender, Eofr)
  /\ out' = [out EXCEPT !.pc = "idle", !.tx = EndFrame(@)]
  /\ accepted' = Append(accepted, out.frame)
  /\ UNCHANGED <<wire, in, delivered>>

-----------------------------------------------------------------------------
(* recv() *)

RecvCall ==
  /\ in.pc = "idle"
  /\ in' = [pc |-> "wait", rx |-> "invalid", buf |-> <<>>]
  /\ UNCHANGED <<uartVars, out, accepted, delivered>>

\* One turn of the loop.  A byte for which the buffer has no room drops the
\* frame; the receiver goes on in state after.
RecvByteThen(after) ==
  LET step == TransformIn(in.rx, wire[Sender])
      next == [in EXCEPT !.rx = step.rx]
  IN  /\ in.pc = "wait"
      /\ RxReady(Receiver)
      /\ Get(Receiver)
      /\ \/ /\ step.data /\ Len(in.buf) = RecvSize
            /\ in' = [next EXCEPT !.rx = after, !.buf = <<>>]
         \/ /\ step.data /\ Len(in.buf) # RecvSize
            /\ in' = [next EXCEPT !.buf = Append(@, step.c)]
         \/ /\ ~step.data
            /\ in' = [next EXCEPT !.buf = IF Restarted(step.rx) THEN <<>> ELSE @,
                                  !.pc  = IF Finished(step.rx) THEN "idle" ELSE @]
      /\ delivered' = IF ~step.data /\ Finished(step.rx)
                      THEN Append(delivered, in.buf) ELSE delivered
      /\ UNCHANGED <<udr, out, accepted>>

\* Mutant of RecvByte: the buffer is emptied but the frame not abandoned.
RecvByteGoesOn == RecvByteThen("regular")

\* resetRx(): the receiver hunts for the next start.
RecvByte == RecvByteThen("invalid")

-----------------------------------------------------------------------------
LineShift == Shift(Sender) /\ UNCHANGED <<out, in, accepted, delivered>>

Next ==
  \/ \E f \in Frames : SendStart(f)
  \/ SendByte \/ SendEnd
  \/ RecvCall \/ RecvByte
  \/ LineShift

Spec == Init /\ [][Next]_vars

\* Each loop body is repeated as long as its call is in progress, and the
\* UART shifts.
FairSpec ==
  /\ Spec
  /\ WF_vars(SendByte) /\ WF_vars(SendEnd)
  /\ WF_vars(RecvCall) /\ WF_vars(RecvByte) /\ WF_vars(LineShift)

-----------------------------------------------------------------------------

Fits(f) == Len(f) <= RecvSize

\* The frames of s that fit the buffer, in order.
Fitting(s) ==
  LET kept[n \in 0 .. Len(s)] ==
        IF n = 0 THEN <<>>
        ELSE IF Fits(s[n]) THEN Append(kept[n - 1], s[n]) ELSE kept[n - 1]
  IN  kept[Len(s)]

\* Once the line is drained and no send() is in progress, the peer's recv()
\* has returned exactly the frames send() reported as sent, in order, except
\* those that do not fit the caller's buffer: a frame that is too long
\* disturbs neither the one before nor the one after it.
SentIsReceived ==
  Drained /\ out.pc = "idle" => delivered = Fitting(accepted)

\* A send() in progress returns, and a frame that fits is received.
EventuallyReceived ==
  /\ out.pc = "bytes" ~> out.pc = "idle"
  /\ \A n \in 1 .. MaxSends :
       Len(Fitting(accepted)) >= n ~> Len(delivered) >= n
=============================================================================
