---------------------------- MODULE FrameChannel ----------------------------
(***************************************************************************)
(* What a pair of frame devices promises to its applications: a channel of *)
(* whole frames.  A frame may be lost when the receiver is not listening,  *)
(* but what is read is a frame that was sent, each at most once and in the *)
(* order of sending.  Peer[s] reads what s sends.  The receiver keeps one  *)
(* frame, from its arrival until it is read.                               *)
(***************************************************************************)
EXTENDS Sequences

CONSTANTS Station, Peer, Frame,
          NoFrame   \* an empty inbox

VARIABLES line,   \* line[s]: frames of s that are complete but not yet at Peer[s]
          inbox,  \* the frame the station holds for its application
          got     \* history: the frames the application read

channelVars == <<line, inbox, got>>

Init ==
  /\ line  = [s \in Station |-> <<>>]
  /\ inbox = [s \in Station |-> NoFrame]
  /\ got   = [s \in Station |-> <<>>]

Transmit(s, f) ==
  /\ line' = [line EXCEPT ![s] = Append(@, f)]
  /\ UNCHANGED <<inbox, got>>

\* The inbox takes the frame; or it is full, or its station joined in the
\* middle of the frame, and the frame is dropped.
Arrive(s) ==
  /\ line[s] # <<>>
  /\ line' = [line EXCEPT ![s] = Tail(@)]
  /\ \/ inbox[Peer[s]] = NoFrame /\ inbox' = [inbox EXCEPT ![Peer[s]] = Head(line[s])]
     \/ UNCHANGED inbox
  /\ UNCHANGED got

Read(p) ==
  /\ inbox[p] # NoFrame
  /\ got'   = [got EXCEPT ![p] = Append(@, inbox[p])]
  /\ inbox' = [inbox EXCEPT ![p] = NoFrame]
  /\ UNCHANGED line

\* The callback reads the frame as it arrives.
ArriveAndRead(s) ==
  /\ line[s] # <<>>
  /\ inbox[Peer[s]] = NoFrame
  /\ line' = [line EXCEPT ![s] = Tail(@)]
  /\ got'  = [got EXCEPT ![Peer[s]] = Append(@, Head(line[s]))]
  /\ UNCHANGED inbox

Next == \E s \in Station :
  \/ \E f \in Frame : Transmit(s, f)
  \/ Arrive(s) \/ Read(s) \/ ArriveAndRead(s)

Spec == Init /\ [][Next]_channelVars
=============================================================================
