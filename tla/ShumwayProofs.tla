---------------------------- MODULE ShumwayProofs ----------------------------
(***************************************************************************)
(* Proofs about the Shumway node, for every number of segments and places  *)
(* and every set of requests.                                              *)
(*                                                                         *)
(* The segments form a discipline of ownership: a message in the queue, the*)
(* message in hand and the programmer's buffer own one each.  Popping takes*)
(* a segment from the queue into the hand, sending puts it back, freeing   *)
(* and S_acknowledge() let go of one and take a new one.  This holds for   *)
(* any host.                                                               *)
(*                                                                         *)
(* A host with one request under way at a time is also promised something: *)
(* the application is entered when all is written, and the answers are     *)
(* those to its requests.  The invariants of these proofs follow the one   *)
(* message that stands for the request through the servers.                *)
(***************************************************************************)
EXTENDS ShumwayProps, FiniteSetTheorems, TLAPS

Signals == {"PHY_IN", "ID_IN", "ID_OUT", "ISP_OUT", "ENABLE_ID_FILTER", "ID_FILTER_ENABLED",
            "APPL_START", "DISABLE_APPL_START", "COMM_CLOSE", "COMM_CLOSED"}
Msg == [sig : Signals, key : Keys, from : Servers, dir : Dirs, visits : Nat]

\* The locked segments lck are those of the queue q and those in H, each of them once.
Owns(q, H, lck) ==
  /\ q \in Seq(Msg)
  /\ H \subseteq Keys /\ lck = KeysIn(q) \union H
  /\ H \cap KeysIn(q) = {}
  /\ \A i, j \in DOMAIN q : q[i].key = q[j].key => i = j

InHand == IF cur = NoMsg THEN {} ELSE {cur.key}
Held == IF ispBuffer = None THEN {} ELSE {ispBuffer}

OwnInv ==
  /\ cur \in Msg \union {NoMsg}
  /\ ispBuffer \in Keys \union {None}
  /\ Owns(mq, InHand \union Held, locked)
  /\ InHand \cap Held = {}

\* Messages own distinct segments, so there are at most as many as segments; one less when
\* another segment is owned by somebody else.
LEMMA Room ==
  ASSUME NEW q, NEW H, NEW lck, Owns(q, H, lck)
  PROVE  /\ Len(q) \in Nat
         /\ Len(q) <= Segments
         /\ H # {} => Len(q) + 1 <= Segments
<1>1. q \in Seq(Msg) /\ Len(q) \in Nat /\ DOMAIN q = 1..Len(q) /\ KeysIn(q) \subseteq Keys
  <2>1. q \in Seq(Msg)
    BY DEF Owns
  <2>2. Len(q) \in Nat /\ DOMAIN q = 1..Len(q) /\ \A i \in DOMAIN q : q[i] \in Msg
    BY <2>1
  <2> QED BY <2>1, <2>2 DEF KeysIn, Msg
<1>2. Segments \in Nat /\ IsFiniteSet(Keys) /\ Cardinality(Keys) = Segments
  BY SizeAssumption, FS_Interval DEF Keys
<1>3. IsFiniteSet(1..Len(q)) /\ Cardinality(1..Len(q)) = Len(q)
  BY <1>1, FS_Interval
<1> DEFINE f == [i \in 1..Len(q) |-> q[i].key]
<1>4. \A S : KeysIn(q) \subseteq S => f \in Injection(1..Len(q), S)
  <2> SUFFICES ASSUME NEW S, KeysIn(q) \subseteq S PROVE f \in Injection(1..Len(q), S)
    OBVIOUS
  <2>1. f \in [1..Len(q) -> S]
    BY <1>1 DEF KeysIn
  <2>2. \A i, j \in 1..Len(q) : f[i] = f[j] => i = j
    BY <1>1 DEF Owns
  <2> QED BY <2>1, <2>2 DEF Injection, IsInjective
<1>5. Len(q) <= Segments
  <2>1. f \in Injection(1..Len(q), Keys)
    BY <1>1, <1>4
  <2> HIDE DEF f
  <2> QED BY <1>2, <1>3, <2>1, FS_Injection
<1>6. ASSUME H # {} PROVE Len(q) + 1 <= Segments
  <2>1. PICK k \in H : TRUE
    BY <1>6
  <2>2. k \in Keys /\ k \notin KeysIn(q)
    BY <2>1 DEF Owns
  <2>3. IsFiniteSet(Keys \ {k}) /\ Cardinality(Keys \ {k}) = Segments - 1
    BY <1>2, <2>2, FS_RemoveElement
  <2>4. f \in Injection(1..Len(q), Keys \ {k})
    BY <1>1, <1>4, <2>2
  <2>5. Cardinality(1..Len(q)) <= Cardinality(Keys \ {k})
    <3> HIDE DEF f
    <3> QED BY <2>3, <2>4, FS_Injection
  <2> QED BY <1>1, <1>2, <1>3, <2>3, <2>5
<1> QED BY <1>1, <1>5, <1>6

\* Sending a message whose segment was owned outside the queue: there is a place for it, and
\* the queue owns the segment now.
LEMMA PushOwns ==
  ASSUME NEW q, NEW H, NEW lck, Owns(q, H, lck), NEW m \in Msg, m.key \in H
  PROVE  Owns(Push(q, m), H \ {m.key}, lck)
<1>1. Len(q) < MaxSignals /\ q \in Seq(Msg) /\ Len(q) \in Nat
  <2>1. H # {}
    OBVIOUS
  <2>2. Len(q) \in Nat /\ Len(q) + 1 <= Segments
    BY <2>1, Room
  <2>3. q \in Seq(Msg)
    BY DEF Owns
  <2> QED BY <2>2, <2>3, SizeAssumption
<1>2. Push(q, m) = Append(q, m)
  BY <1>1 DEF Push
<1>3. /\ Append(q, m) \in Seq(Msg)
      /\ DOMAIN Append(q, m) = 1..(Len(q) + 1) /\ DOMAIN q = 1..Len(q)
      /\ \A i \in 1..Len(q) : Append(q, m)[i] = q[i]
      /\ Append(q, m)[Len(q) + 1] = m
  BY <1>1
<1>4. KeysIn(Append(q, m)) = KeysIn(q) \union {m.key}
  <2>1. \A i \in DOMAIN Append(q, m) : Append(q, m)[i].key \in KeysIn(q) \union {m.key}
    BY <1>1, <1>3 DEF KeysIn
  <2>2. \A i \in DOMAIN q : q[i].key \in KeysIn(Append(q, m))
    <3> TAKE i \in DOMAIN q
    <3>1. i \in DOMAIN Append(q, m) /\ Append(q, m)[i] = q[i]
      BY <1>1, <1>3
    <3> QED BY <3>1 DEF KeysIn
  <2>3. m.key \in KeysIn(Append(q, m))
    <3>1. Len(q) + 1 \in DOMAIN Append(q, m)
      BY <1>1, <1>3
    <3> QED BY <3>1, <1>3 DEF KeysIn
  <2> QED BY <2>1, <2>2, <2>3 DEF KeysIn
<1>5. \A i, j \in DOMAIN Append(q, m) : Append(q, m)[i].key = Append(q, m)[j].key => i = j
  <2> TAKE i, j \in DOMAIN Append(q, m)
  <2> HAVE Append(q, m)[i].key = Append(q, m)[j].key
  <2>1. \A n \in DOMAIN q : q[n].key # m.key
    BY DEF Owns, KeysIn
  <2>2. i \in 1..Len(q) \/ i = Len(q) + 1
    BY <1>1, <1>3
  <2>3. j \in 1..Len(q) \/ j = Len(q) + 1
    BY <1>1, <1>3
  <2> QED BY <1>3, <2>1, <2>2, <2>3 DEF Owns
<1> QED BY <1>2, <1>3, <1>4, <1>5 DEF Owns

\* Popping moves the segment of the first message out of the queue.
LEMMA PopOwns ==
  ASSUME NEW q, NEW H, NEW lck, Owns(q, H, lck), q # <<>>
  PROVE  /\ Head(q) \in Msg /\ Head(q).key \notin H
         /\ Owns(Tail(q), H \union {Head(q).key}, lck)
<1>1. /\ q \in Seq(Msg) /\ Len(q) \in Nat /\ Len(q) > 0 /\ DOMAIN q = 1..Len(q)
      /\ Head(q) = q[1] /\ Tail(q) \in Seq(Msg) /\ DOMAIN Tail(q) = 1..(Len(q) - 1)
      /\ \A i \in 1..(Len(q) - 1) : Tail(q)[i] = q[i + 1]
  BY DEF Owns
<1>2. Head(q) \in Msg /\ Head(q).key \in KeysIn(q) /\ Head(q).key \notin H /\ Head(q).key \in Keys
  <2>1. 1 \in DOMAIN q /\ q[1] \in Msg
    BY <1>1
  <2>2. q[1].key \in KeysIn(q)
    BY <2>1 DEF KeysIn
  <2>3. q[1].key \in Keys
    BY <2>1 DEF Msg
  <2> QED BY <1>1, <2>1, <2>2, <2>3 DEF Owns
<1>3. KeysIn(Tail(q)) = KeysIn(q) \ {Head(q).key}
  <2>1. \A i \in DOMAIN Tail(q) : Tail(q)[i].key \in KeysIn(q) /\ Tail(q)[i].key # Head(q).key
    <3> TAKE i \in DOMAIN Tail(q)
    <3>1. i + 1 \in DOMAIN q /\ i + 1 # 1 /\ 1 \in DOMAIN q /\ Tail(q)[i] = q[i + 1]
      BY <1>1
    <3> QED BY <3>1, <1>1 DEF Owns, KeysIn
  <2>2. \A i \in DOMAIN q : q[i].key # Head(q).key => q[i].key \in KeysIn(Tail(q))
    <3> TAKE i \in DOMAIN q
    <3> HAVE q[i].key # Head(q).key
    <3>1. i # 1
      BY <1>1
    <3>2. i - 1 \in DOMAIN Tail(q) /\ Tail(q)[i - 1] = q[i]
      BY <1>1, <3>1
    <3> QED BY <3>2 DEF KeysIn
  <2> QED BY <2>1, <2>2 DEF KeysIn
<1>4. \A i, j \in DOMAIN Tail(q) : Tail(q)[i].key = Tail(q)[j].key => i = j
  <2> TAKE i, j \in DOMAIN Tail(q)
  <2> HAVE Tail(q)[i].key = Tail(q)[j].key
  <2>1. i + 1 \in DOMAIN q /\ j + 1 \in DOMAIN q /\ i \in Int /\ j \in Int
    BY <1>1
  <2>2. i + 1 = j + 1
    BY <1>1, <2>1 DEF Owns
  <2> QED BY <2>1, <2>2
<1> QED BY <1>1, <1>2, <1>3, <1>4 DEF Owns

\* Taking a free segment, letting one go.
LEMMA TakeOwns ==
  ASSUME NEW q, NEW H, NEW lck, Owns(q, H, lck), NEW k \in Keys \ lck
  PROVE  Owns(q, H \union {k}, lck \union {k})
BY DEF Owns

LEMMA FreeOwns ==
  ASSUME NEW q, NEW H, NEW lck, Owns(q, H, lck), NEW k \in H
  PROVE  Owns(q, H \ {k}, lck \ {k})
BY DEF Owns

\* Message() and Visited() make messages; Toggled() makes a direction.
LEMMA MessageType ==
  /\ \A sig \in Signals, dir \in Dirs, key \in Keys, from \in Servers :
       Message(sig, key, from, dir) \in Msg /\ Message(sig, key, from, dir).key = key
  /\ \A m \in Msg : Visited(m) \in Msg /\ Visited(m).key = m.key
  /\ NoMsg \notin Msg
  /\ \A m \in Msg : m.dir \in Dirs /\ Toggled(m.dir) \in Dirs
<1>1. \A d \in Dirs : Toggled(d) \in Dirs
  <2> TAKE d \in Dirs
  <2>1. d = "UP" \/ d = "DOWN" \/ d = "UNKNOWN"
    BY DEF Dirs
  <2>2. CASE d = "UP"
    BY <2>2 DEF Toggled, Dirs
  <2>3. CASE d = "DOWN"
    BY <2>3 DEF Toggled, Dirs
  <2>4. CASE d = "UNKNOWN"
    BY <2>4 DEF Toggled, Dirs
  <2> QED BY <2>1, <2>2, <2>3, <2>4
<1>2. \A sig \in Signals, dir \in Dirs, key \in Keys, from \in Servers :
        Message(sig, key, from, dir) \in Msg /\ Message(sig, key, from, dir).key = key
  BY DEF Msg, Message
<1>3. \A m \in Msg : Visited(m) \in Msg /\ Visited(m).key = m.key
  BY DEF Msg, Visited
<1>4. NoMsg \notin Msg
  <2>1. None \notin Keys
    BY SizeAssumption DEF None, Keys
  <2>2. NoMsg.key = None
    BY DEF NoMsg, Message
  <2>3. \A m \in Msg : m.key \in Keys
    BY DEF Msg
  <2> QED BY <2>1, <2>2, <2>3
<1>5. \A m \in Msg : m.dir \in Dirs
  BY DEF Msg
<1> QED BY <1>1, <1>2, <1>3, <1>4, <1>5

\* A message in hand: its segment is owned by the hand alone.
LEMMA Hand ==
  ASSUME OwnInv, cur # NoMsg
  PROVE  /\ cur \in Msg /\ cur.key \in Keys /\ cur.key \notin Held /\ cur.key \in locked
         /\ Owns(mq, {cur.key} \union Held, locked)
<1>1. cur \in Msg /\ InHand = {cur.key}
  BY DEF OwnInv, InHand
<1>2. cur.key \in Keys
  BY <1>1 DEF Msg
<1> QED BY <1>1, <1>2 DEF OwnInv, Owns

\* What is left when the hand is empty again.
LEMMA HandEmpty ==
  ASSUME cur' = NoMsg, ispBuffer' \in Keys \union {None}, Owns(mq', Held', locked')
  PROVE  OwnInv'
BY DEF OwnInv, InHand, Owns

\* The handler that sends the message it was given, changed or not.
LEMMA SendsKeeps ==
  ASSUME OwnInv, cur # NoMsg, NEW m \in Msg, m.key = cur.key, Sends(m), ispBuffer' = ispBuffer
  PROVE  OwnInv'
<1>1. cur.key \notin Held /\ Owns(mq, {cur.key} \union Held, locked)
  BY Hand
<1>2. Owns(Push(mq, m), Held, locked)
  <2>1. Owns(Push(mq, m), ({cur.key} \union Held) \ {m.key}, locked)
    BY <1>1, PushOwns
  <2>2. ({cur.key} \union Held) \ {m.key} = Held
    BY <1>1
  <2> QED BY <2>1, <2>2
<1>3. mq' = Push(mq, m) /\ cur' = NoMsg /\ locked' = locked /\ Held' = Held
  BY DEF Sends, Held
<1> QED BY <1>2, <1>3, HandEmpty DEF OwnInv

\* The handler that ends the message.
LEMMA FreesKeeps ==
  ASSUME OwnInv, cur # NoMsg, Frees, ispBuffer' = ispBuffer
  PROVE  OwnInv'
<1>1. cur.key \notin Held /\ Owns(mq, {cur.key} \union Held, locked)
  BY Hand
<1>2. Owns(mq, Held, locked \ {cur.key})
  <2>1. Owns(mq, ({cur.key} \union Held) \ {cur.key}, locked \ {cur.key})
    BY <1>1, FreeOwns
  <2>2. ({cur.key} \union Held) \ {cur.key} = Held
    BY <1>1
  <2> QED BY <2>1, <2>2
<1>3. mq' = mq /\ cur' = NoMsg /\ locked' = locked \ {cur.key} /\ Held' = Held
  BY DEF Frees, Held
<1> QED BY <1>2, <1>3, HandEmpty DEF OwnInv

\* S_acknowledge(): with the segments lck locked and H owned besides the queue; it frees one
\* of H, or passes one of H on with the message that follows, or neither.
LEMMA AcknowledgesKeeps ==
  ASSUME NEW lck, NEW H, Owns(mq, H, lck), NEW ack, NEW after, NEW freed, NEW B,
         Acknowledges(lck, ack, after, freed),
         ack.sig \in Signals, ack.from \in Servers,
         \/ after = <<>> /\ freed = {} /\ B = H
         \/ after = <<>> /\ \E k \in H : freed = {k} /\ B = H \ {k}
         \/ freed = {} /\ \E m \in Msg : after = <<m>> /\ m.key \in H /\ B = H \ {m.key}
  PROVE  cur' = NoMsg /\ Owns(mq', B, locked')
<1>1. cur' = NoMsg
  BY DEF Acknowledges
<1> DEFINE Then(q) == IF after = <<>> THEN q ELSE Push(q, Head(after))
<1>2. ASSUME NEW q, NEW G, Owns(q, H \union G, lck \union G), G \cap H = {}
      PROVE  Owns(Then(q), B \union G, (lck \union G) \ freed)
  <2>1. CASE after = <<>> /\ freed = {} /\ B = H
    BY <1>2, <2>1
  <2>2. ASSUME after = <<>>, NEW k \in H, freed = {k}, B = H \ {k}
        PROVE  Owns(Then(q), B \union G, (lck \union G) \ freed)
    <3>1. Owns(q, (H \union G) \ {k}, (lck \union G) \ {k})
      BY <1>2, FreeOwns
    <3>2. (H \union G) \ {k} = B \union G
      BY <1>2, <2>2
    <3> QED BY <2>2, <3>1, <3>2
  <2>3. ASSUME freed = {}, NEW m \in Msg, after = <<m>>, m.key \in H, B = H \ {m.key}
        PROVE  Owns(Then(q), B \union G, (lck \union G) \ freed)
    <3>1. Owns(Push(q, m), (H \union G) \ {m.key}, lck \union G)
      BY <1>2, <2>3, PushOwns
    <3>2. (H \union G) \ {m.key} = B \union G
      BY <1>2, <2>3
    <3>3. Then(q) = Push(q, m)
      BY <2>3
    <3> QED BY <2>3, <3>1, <3>2, <3>3
  <2> QED BY <2>1, <2>2, <2>3
<1>3. CASE Keys \ lck = {} /\ locked' = lck \ freed /\ mq' = Then(mq)
  <2>1. Owns(Then(mq), B \union {}, (lck \union {}) \ freed)
    BY <1>2
  <2> HIDE DEF Then
  <2> QED BY <1>1, <1>3, <2>1
<1>4. ASSUME NEW k \in Keys \ lck, locked' = (lck \union {k}) \ freed,
             mq' = Then(Push(mq, Message(ack.sig, k, ack.from, "UNKNOWN")))
      PROVE  cur' = NoMsg /\ Owns(mq', B, locked')
  <2> DEFINE a == Message(ack.sig, k, ack.from, "UNKNOWN")
  <2>1. a \in Msg /\ a.key = k
    <3>1. k \in Keys /\ "UNKNOWN" \in Dirs
      BY DEF Dirs
    <3>2. a = Message(ack.sig, k, ack.from, "UNKNOWN")
      OBVIOUS
    <3> HIDE DEF a
    <3>3. ack.sig \in Signals /\ ack.from \in Servers
      OBVIOUS
    <3> QED BY ONLY <3>1, <3>2, <3>3, MessageType
  <2>2. k \notin H /\ Owns(mq, H \union {k}, lck \union {k})
    BY TakeOwns DEF Owns
  <2>3. Owns(Push(mq, a), H, lck \union {k})
    <3> HIDE DEF a
    <3>1. Owns(Push(mq, a), (H \union {k}) \ {a.key}, lck \union {k})
      BY <2>1, <2>2, PushOwns
    <3>2. (H \union {k}) \ {a.key} = H
      BY <2>1, <2>2
    <3> QED BY <3>1, <3>2
  <2>4. Owns(Then(Push(mq, a)), B, (lck \union {k}) \ freed)
    <3> HIDE DEF a
    <3>1. CASE after = <<>> /\ freed = {} /\ B = H
      BY <2>3, <3>1
    <3>2. ASSUME after = <<>>, NEW j \in H, freed = {j}, B = H \ {j}
          PROVE  Owns(Then(Push(mq, a)), B, (lck \union {k}) \ freed)
      BY <2>3, <3>2, FreeOwns
    <3>3. ASSUME freed = {}, NEW m \in Msg, after = <<m>>, m.key \in H, B = H \ {m.key}
          PROVE  Owns(Then(Push(mq, a)), B, (lck \union {k}) \ freed)
      <4>1. Owns(Push(Push(mq, a), m), B, lck \union {k})
        BY <2>3, <3>3, PushOwns
      <4>2. Then(Push(mq, a)) = Push(Push(mq, a), m)
        BY <3>3
      <4> QED BY <3>3, <4>1, <4>2
    <3> QED BY <3>1, <3>2, <3>3
  <2> HIDE DEF Then, a
  <2> QED BY <1>1, <1>4, <2>4 DEF a
<1>5. \/ Keys \ lck = {} /\ locked' = lck \ freed /\ mq' = Then(mq)
      \/ \E k \in Keys \ lck : /\ locked' = (lck \union {k}) \ freed
                               /\ mq' = Then(Push(mq, Message(ack.sig, k, ack.from, "UNKNOWN")))
  BY DEF Acknowledges
<1> HIDE DEF Then
<1> QED BY <1>3, <1>4, <1>5

-----------------------------------------------------------------------------
\* The programmer's buffer, the one it has or the one it takes now, is nobody else's.
LEMMA BufferOwned ==
  ASSUME OwnInv, cur # NoMsg, NEW b, NEW lck, WithBuffer(b, lck)
  PROVE  b \in Keys /\ cur.key # b /\ Owns(mq, {cur.key, b}, lck)
<1>1. cur.key \in Keys /\ cur.key \notin Held /\ cur.key \in locked /\ Owns(mq, {cur.key} \union Held, locked)
  BY Hand
<1>2. CASE ispBuffer # None /\ b = ispBuffer /\ lck = locked
  <2>1. Held = {b} /\ b \in Keys
    BY <1>2 DEF Held, OwnInv
  <2>2. {cur.key} \union Held = {cur.key, b}
    BY <2>1
  <2> QED BY <1>1, <1>2, <2>1, <2>2
<1>3. CASE ispBuffer = None /\ IsNextFree(b, locked) /\ lck = locked \union {b}
  <2>1. Held = {} /\ b \in Keys \ locked
    BY <1>3 DEF Held, IsNextFree
  <2>2. Owns(mq, ({cur.key} \union Held) \union {b}, locked \union {b})
    BY <1>1, <2>1, TakeOwns
  <2>3. ({cur.key} \union Held) \union {b} = {cur.key, b}
    BY <2>1
  <2> QED BY <1>1, <1>3, <2>1, <2>2, <2>3
<1> QED BY <1>2, <1>3 DEF WithBuffer

\* A handler of the programmer that ends the message, or has sent it on, and keeps its buffer.
LEMMA BufferKept ==
  ASSUME NEW b \in Keys, cur' = NoMsg, ispBuffer' = b, Owns(mq', {b}, locked')
  PROVE  OwnInv'
<1>1. Held' = {b}
  BY SizeAssumption DEF Held, None, Keys
<1> QED BY <1>1, HandEmpty

\* What the acknowledgements of the two servers are sent as.
LEMMA AckType ==
  /\ \A reply : IdAck(reply).sig \in Signals /\ IdAck(reply).from \in Servers
  /\ \A reply : IspAck(reply).sig \in Signals /\ IspAck(reply).from \in Servers
<1>1. "ID_OUT" \in Signals /\ "ISP_OUT" \in Signals /\ Id \in Servers /\ Isp \in Servers
  BY DEF Servers, Signals
<1>2. \A reply : IdAck(reply).sig = "ID_OUT" /\ IdAck(reply).from = Id
  BY DEF IdAck
<1>3. \A reply : IspAck(reply).sig = "ISP_OUT" /\ IspAck(reply).from = Isp
  BY DEF IspAck
<1> QED BY <1>1, <1>2, <1>3

\* Resent() makes a message that owns the same segment.
LEMMA ResentType ==
  ASSUME NEW m \in Msg, NEW sig \in Signals, NEW from \in Servers, NEW dir \in Dirs
  PROVE  Resent(m, sig, from, dir) \in Msg /\ Resent(m, sig, from, dir).key = m.key
<1>1. m.key \in Keys
  BY DEF Msg
<1> QED BY <1>1 DEF Resent, Message, Msg

\* Steps that leave the queue, the hand, the locks and the buffer alone.
LEMMA QuietKeeps ==
  ASSUME OwnInv, UNCHANGED <<mq, cur, locked, ispBuffer>>
  PROVE  OwnInv'
BY DEF OwnInv, InHand, Held, Owns

-----------------------------------------------------------------------------
\* The kernel takes a message.
LEMMA PopKeeps ==
  ASSUME OwnInv, Pop
  PROVE  OwnInv'
<1>1. Owns(mq, Held, locked)
  BY DEF OwnInv, Pop, InHand
<1>2. /\ Head(mq) \in Msg /\ Head(mq).key \notin Held
      /\ Owns(Tail(mq), Held \union {Head(mq).key}, locked)
  BY <1>1, PopOwns DEF Pop
<1>3. cur' = Head(mq) /\ mq' = Tail(mq) /\ locked' = locked /\ ispBuffer' = ispBuffer
  BY DEF Pop, ispVars
<1>4. InHand' = {Head(mq).key} /\ Held' = Held
  BY <1>2, <1>3, MessageType DEF InHand, Held
<1>5. {Head(mq).key} \union Held = Held \union {Head(mq).key}
  OBVIOUS
<1> QED BY <1>2, <1>3, <1>4, <1>5 DEF OwnInv

\* A frame of the host: dropped, or a free segment and a place in the queue for it.
LEMMA CanIrqKeeps ==
  ASSUME OwnInv, NEW r, CanIrqReceive(r)
  PROVE  OwnInv'
<1>1. cur' = cur /\ ispBuffer' = ispBuffer /\ InHand' = InHand /\ Held' = Held
  BY DEF CanIrqReceive, ispVars, InHand, Held
<1>2. CASE UNCHANGED <<mq, locked, seg>>
  BY <1>1, <1>2, QuietKeeps
<1>3. ASSUME NEW k \in Keys \ locked, locked' = locked \union {k},
             mq' = Push(mq, Message("PHY_IN", k, CanPhy, "UP"))
      PROVE  OwnInv'
  <2> DEFINE a == Message("PHY_IN", k, CanPhy, "UP")
             H == InHand \union Held
  <2>1. a \in Msg /\ a.key = k
    <3>1. "PHY_IN" \in Signals /\ "UP" \in Dirs /\ CanPhy \in Servers /\ k \in Keys
      BY DEF Dirs, Servers, Signals
    <3> QED BY <3>1, MessageType
  <2>2. Owns(mq, H \union {k}, locked \union {k}) /\ k \notin H
    BY TakeOwns DEF OwnInv, Owns
  <2> HIDE DEF a, H
  <2>3. Owns(Push(mq, a), (H \union {k}) \ {a.key}, locked \union {k})
    BY <2>1, <2>2, PushOwns
  <2>4. (H \union {k}) \ {a.key} = H
    BY <2>1, <2>2
  <2>5. mq' = Push(mq, a)
    BY <1>3 DEF a
  <2> QED BY <1>1, <1>3, <2>3, <2>4, <2>5 DEF OwnInv, H
<1> QED BY <1>2, <1>3 DEF CanIrqReceive

\* A message with a free segment: it is taken, and the queue owns it.
LEMMA TakeSends ==
  ASSUME NEW q, NEW H, NEW lck, Owns(q, H, lck), NEW k \in Keys \ lck,
         NEW sig \in Signals, NEW from \in Servers, NEW dir \in Dirs
  PROVE  Owns(Push(q, Message(sig, k, from, dir)), H, lck \union {k})
<1> DEFINE a == Message(sig, k, from, dir)
<1>1. a \in Msg /\ a.key = k
  BY MessageType
<1>2. k \notin H /\ Owns(q, H \union {k}, lck \union {k})
  BY TakeOwns DEF Owns
<1> HIDE DEF a
<1>3. Owns(Push(q, a), (H \union {k}) \ {a.key}, lck \union {k})
  BY <1>1, <1>2, PushOwns
<1>4. (H \union {k}) \ {a.key} = H
  BY <1>1, <1>2
<1> QED BY <1>3, <1>4 DEF a

\* A frame behind a free, and the acknowledgement that finds a segment after it, or none.
LEMMA FrameAfterFreeKeeps ==
  ASSUME NEW lck, NEW H, Owns(mq, H, lck), NEW r, NEW ack, FrameAfterFree(r, lck, ack),
         ack.sig \in Signals, ack.from \in Servers
  PROVE  cur' = NoMsg /\ Owns(mq', H, locked')
<1>1. "PHY_IN" \in Signals /\ CanPhy \in Servers /\ "UP" \in Dirs /\ "UNKNOWN" \in Dirs
  BY DEF Signals, Servers, Dirs
<1>2. PICK k \in Keys \ lck :
        LET lckNow == lck \union {k}
            q == Push(mq, Message("PHY_IN", k, CanPhy, "UP"))
        IN  \/ locked' = lckNow /\ mq' = q
            \/ \E n \in Keys \ lckNow : /\ locked' = lckNow \union {n}
                                        /\ mq' = Push(q, Message(ack.sig, n, ack.from, "UNKNOWN"))
  BY DEF FrameAfterFree
<1>3. cur' = NoMsg
  BY DEF FrameAfterFree
<1> DEFINE lckNow == lck \union {k}
           q == Push(mq, Message("PHY_IN", k, CanPhy, "UP"))
<1>4. Owns(q, H, lckNow)
  BY <1>1, TakeSends
<1>5. CASE locked' = lckNow /\ mq' = q
  BY <1>3, <1>4, <1>5
<1>6. ASSUME NEW n \in Keys \ lckNow, locked' = lckNow \union {n},
             mq' = Push(q, Message(ack.sig, n, ack.from, "UNKNOWN"))
      PROVE  Owns(mq', H, locked')
  <2> HIDE DEF lckNow, q
  <2>1. Owns(Push(q, Message(ack.sig, n, ack.from, "UNKNOWN")), H, lckNow \union {n})
    BY <1>1, <1>4, TakeSends
  <2> QED BY <1>6, <2>1
<1> QED BY <1>2, <1>3, <1>5, <1>6

\* A frame that comes into receive(), behind the free of the request.
LEMMA FrameKeeps ==
  ASSUME OwnInv, NEW r, FrameDuringReceive(r)
  PROVE  OwnInv'
<1>1. CASE FrameInNoBuffer(r)
  <2>1. cur # NoMsg /\ Held = {}
    BY <1>1 DEF FrameInNoBuffer, At, Held
  <2>2. Owns(mq, {cur.key}, locked)
    BY <2>1, Hand
  <2>3. Owns(mq, {}, locked \ {cur.key})
    <3>1. Owns(mq, {cur.key} \ {cur.key}, locked \ {cur.key})
      BY <2>2, FreeOwns
    <3>2. {cur.key} \ {cur.key} = {}
      OBVIOUS
    <3> QED BY <3>1, <3>2
  <2>4. FrameAfterFree(r, locked \ {cur.key}, IspAck("ERROR")) /\ ispBuffer' = None
    BY <1>1 DEF FrameInNoBuffer
  <2>5. cur' = NoMsg /\ Owns(mq', {}, locked')
    BY <2>3, <2>4, AckType, FrameAfterFreeKeeps
  <2>6. Held' = {}
    BY <2>4 DEF Held
  <2> QED BY <2>4, <2>5, <2>6, HandEmpty
<1>2. CASE FrameInReadDone(r)
  <2> DEFINE Lck(b) == IF ispBuffer = None THEN locked \union {b} ELSE locked
  <2>1. PICK b \in Keys : /\ cur # NoMsg /\ WithBuffer(b, Lck(b)) /\ ispBuffer' = b
                          /\ FrameAfterFree(r, Lck(b) \ {cur.key}, IspAck("OK"))
    BY <1>2 DEF FrameInReadDone, IspRequest, At
  <2> HIDE DEF Lck
  <2>2. cur.key # b /\ Owns(mq, {cur.key, b}, Lck(b))
    BY <2>1, BufferOwned
  <2>3. {cur.key, b} \ {cur.key} = {b}
    BY <2>2
  <2>4. Owns(mq, {b}, Lck(b) \ {cur.key})
    BY <2>2, <2>3, FreeOwns
  <2>5. cur' = NoMsg /\ Owns(mq', {b}, locked')
    BY <2>1, <2>4, AckType, FrameAfterFreeKeeps
  <2> QED BY <2>1, <2>5, BufferKept
<1> QED BY <1>1, <1>2 DEF FrameDuringReceive

\* S_Can_Phy ends its own messages and the answers, and sends every other one on.
LEMMA CanPhyKeeps ==
  ASSUME OwnInv, ReceiveCanPhy
  PROVE  OwnInv'
<1>1. cur # NoMsg /\ ispBuffer' = ispBuffer
  BY DEF ReceiveCanPhy, CanPhyOut, CanPhyEnableFilter, CanPhyApplStart, CanPhyOther, At, AtAny, ispVars
<1>2. cur \in Msg /\ Visited(cur) \in Msg /\ Visited(cur).key = cur.key
  BY <1>1, Hand, MessageType
<1>3. CASE Frees
  BY <1>1, <1>3, FreesKeeps
<1>4. CASE Sends(Visited(cur))
  BY <1>1, <1>2, <1>4, SendsKeeps
<1>5. CASE Sends(Resent(cur, "ID_FILTER_ENABLED", CanPhy, Toggled(cur.dir)))
  <2>1. Toggled(cur.dir) \in Dirs /\ CanPhy \in Servers /\ "ID_FILTER_ENABLED" \in Signals
    BY <1>2, MessageType DEF Servers, Signals
  <2> DEFINE n == Resent(cur, "ID_FILTER_ENABLED", CanPhy, Toggled(cur.dir))
  <2>2. n \in Msg /\ n.key = cur.key
    BY <1>2, <2>1, ResentType
  <2> HIDE DEF n
  <2> QED BY <1>1, <1>5, <2>2, SendsKeeps DEF n
<1> QED BY <1>3, <1>4, <1>5 DEF ReceiveCanPhy, CanPhyOut, CanPhyEnableFilter, CanPhyApplStart, CanPhyOther

\* S_Id: messages for the programmer, acknowledgements, and the two messages that follow an
\* enabled filter.
LEMMA IdKeeps ==
  ASSUME OwnInv, ReceiveId
  PROVE  OwnInv'
<1>1. cur # NoMsg /\ ispBuffer' = ispBuffer /\ Held' = Held
  BY DEF ReceiveId, IdClosed, IdApplStart, IdOwn, IdEmpty, IdDelay, IdRequest, IdSelectOpen, IdSelectClose,
         IdForward, IdTrash, IdFilterEnabled, IdOther, At, ispVars, Held
<1>2. /\ cur \in Msg /\ cur.dir \in Dirs /\ Toggled(cur.dir) \in Dirs
      /\ cur.key \notin Held /\ cur.key \in Keys
      /\ Owns(mq, {cur.key} \union Held, locked)
  BY <1>1, Hand, MessageType
<1>3. ({cur.key} \union Held) \ {cur.key} = Held
  BY <1>2
<1>4. ispBuffer' \in Keys \union {None}
  BY <1>1 DEF OwnInv
<1>5. ASSUME NEW sig \in Signals, NEW dir \in Dirs, Sends(Resent(cur, sig, Id, dir)) PROVE OwnInv'
  <2>1. Id \in Servers
    BY DEF Servers
  <2>2. Resent(cur, sig, Id, dir) \in Msg /\ Resent(cur, sig, Id, dir).key = cur.key
    BY <1>2, <2>1, ResentType
  <2> QED BY <1>1, <1>5, <2>2, SendsKeeps
<1>6. CASE IdClosed
  <2>1. Acknowledges(locked, IdAck("OK"), <<ToAppl(cur)>>, {})
    BY <1>6 DEF IdClosed
  <2>2. ToAppl(cur) \in Msg /\ ToAppl(cur).key = cur.key
    <3>1. "APPL_START" \in Signals /\ Id \in Servers /\ "UNKNOWN" \in Dirs
      BY DEF Signals, Servers, Dirs
    <3> QED BY <1>2, <3>1, ResentType DEF ToAppl
  <2> DEFINE H == {cur.key} \union Held
  <2>3. \E m \in Msg : <<ToAppl(cur)>> = <<m>> /\ m.key \in H /\ Held = H \ {m.key}
    BY <1>3, <2>2
  <2> HIDE DEF H
  <2>4. cur' = NoMsg /\ Owns(mq', Held, locked')
    BY <1>2, <2>1, <2>3, AckType, AcknowledgesKeeps DEF H
  <2> QED BY <1>1, <1>4, <2>4, HandEmpty
<1>7. CASE IdOwn
  <2>1. CASE Frees
    BY <1>1, <2>1, FreesKeeps
  <2>2. CASE Acknowledges(locked, IdAck("ERROR"), <<>>, {cur.key})
    <3> DEFINE H == {cur.key} \union Held
    <3>1. \E k \in H : {cur.key} = {k} /\ Held = H \ {k}
      BY <1>3
    <3> HIDE DEF H
    <3>2. cur' = NoMsg /\ Owns(mq', Held, locked')
      BY <1>2, <2>2, <3>1, AckType, AcknowledgesKeeps DEF H
    <3> QED BY <1>1, <1>4, <3>2, HandEmpty
  <2> QED BY <1>7, <2>1, <2>2 DEF IdOwn
<1>8. CASE IdFilterEnabled
  <2> DEFINE d == Message("DISABLE_APPL_START", cur.key, Id, "UNKNOWN")
  <2>1. d \in Msg /\ d.key = cur.key
    <3>1. "DISABLE_APPL_START" \in Signals /\ "UNKNOWN" \in Dirs /\ Id \in Servers
      BY DEF Signals, Dirs, Servers
    <3> QED BY <1>2, <3>1, MessageType
  <2> HIDE DEF d
  <2>2. Owns(Push(mq, d), Held, locked)
    BY <1>2, <1>3, <2>1, PushOwns
  <2>3. CASE Keys \ locked = {} /\ mq' = Push(mq, d) /\ UNCHANGED <<locked, seg>>
    BY <1>1, <1>4, <1>8, <2>2, <2>3, HandEmpty DEF IdFilterEnabled
  <2>4. ASSUME NEW k \in Keys \ locked, locked' = locked \union {k},
               mq' = Push(Push(mq, d), Message("ID_OUT", k, Id, "UNKNOWN"))
        PROVE  OwnInv'
    <3> DEFINE a == Message("ID_OUT", k, Id, "UNKNOWN")
    <3>1. a \in Msg /\ a.key = k
      <4>1. "ID_OUT" \in Signals /\ "UNKNOWN" \in Dirs /\ Id \in Servers /\ k \in Keys
        BY DEF Signals, Dirs, Servers
      <4> QED BY <4>1, MessageType
    <3>2. Owns(Push(mq, d), Held \union {k}, locked \union {k}) /\ k \notin Held
      BY <2>2, TakeOwns DEF Owns
    <3> HIDE DEF a
    <3>3. Owns(Push(Push(mq, d), a), (Held \union {k}) \ {a.key}, locked \union {k})
      BY <3>1, <3>2, PushOwns
    <3>4. (Held \union {k}) \ {a.key} = Held
      BY <3>1, <3>2
    <3>5. mq' = Push(Push(mq, d), a)
      BY <2>4 DEF a
    <3> QED BY <1>1, <1>4, <1>8, <2>4, <3>3, <3>4, <3>5, HandEmpty DEF IdFilterEnabled
  <2> QED BY <1>8, <2>3, <2>4 DEF IdFilterEnabled, d
<1>9. CASE IdApplStart
  BY <1>9, QuietKeeps DEF IdApplStart, ipcVars, ispVars
<1>10. CASE IdEmpty \/ IdTrash
  BY <1>1, <1>10, FreesKeeps DEF IdEmpty, IdTrash
<1>11. CASE IdDelay
  BY <1>1, <1>2, <1>11, SendsKeeps DEF IdDelay
<1>12. CASE IdOther
  <2>1. Visited(cur) \in Msg /\ Visited(cur).key = cur.key
    BY <1>2, MessageType
  <2> QED BY <1>1, <1>12, <2>1, SendsKeeps DEF IdOther
<1>13. CASE IdSelectOpen \/ IdSelectClose \/ IdForward
  <2>1. "ENABLE_ID_FILTER" \in Signals /\ "COMM_CLOSE" \in Signals /\ "ID_IN" \in Signals /\ "UP" \in Dirs
    BY DEF Signals, Dirs
  <2> QED BY <1>2, <1>5, <1>13, <2>1 DEF IdSelectOpen, IdSelectClose, IdForward
<1> QED BY <1>6, <1>7, <1>8, <1>9, <1>10, <1>11, <1>12, <1>13 DEF ReceiveId

\* A request the programmer carries out with its buffer b.
LEMMA IspWithKeeps ==
  ASSUME OwnInv, NEW b, NEW lck, IspWith(b, lck)
  PROVE  OwnInv'
<1>1. cur # NoMsg /\ WithBuffer(b, lck)
  BY DEF IspWith, IspFlush, IspShort, IspMemSelect, IspAddr, IspFullErase, IspWrite, IspReadPart, IspReadDone,
         IspInvalid, IspRequest, At
<1>2. b \in Keys /\ cur.key # b /\ Owns(mq, {cur.key, b}, lck) /\ cur \in Msg /\ cur.key \in Keys
  BY <1>1, BufferOwned, Hand
<1>3. {cur.key, b} \ {cur.key} = {b}
  BY <1>2
<1>4. Owns(mq, {b}, lck \ {cur.key})
  BY <1>2, <1>3, FreeOwns
<1>5. ASSUME NEW reply, Acknowledges(lck, IspAck(reply), <<>>, {cur.key}), ispBuffer' = b PROVE OwnInv'
  <2> DEFINE H == {cur.key, b}
             B == {b}
  <2>1. \E k \in H : {cur.key} = {k} /\ B = H \ {k}
    BY <1>3
  <2> HIDE DEF H, B
  <2>2. cur' = NoMsg /\ Owns(mq', B, locked')
    BY <1>2, <1>5, <2>1, AckType, AcknowledgesKeeps DEF H
  <2> QED BY <1>2, <1>5, <2>2, BufferKept DEF B
<1>6. ASSUME NEW reply, Acknowledges(lck \ {cur.key}, IspAck(reply), <<>>, {}), ispBuffer' = b PROVE OwnInv'
  <2> DEFINE B == {b}
  <2>1. Owns(mq, B, lck \ {cur.key})
    BY <1>4
  <2> HIDE DEF B
  <2>2. cur' = NoMsg /\ Owns(mq', B, locked')
    BY <1>6, <2>1, AckType, AcknowledgesKeeps
  <2> QED BY <1>2, <1>6, <2>2, BufferKept DEF B
<1>7. CASE IspFlush(b, lck)
  <2>1. CASE locked' = lck /\ mq' = Push(mq, cur) /\ cur' = NoMsg
    <3>1. Owns(Push(mq, cur), {b}, lck)
      BY <1>2, <1>3, PushOwns
    <3> QED BY <1>2, <1>7, <2>1, <3>1, BufferKept DEF IspFlush
  <2>2. CASE \/ Acknowledges(lck, IspAck("ERROR"), <<>>, {cur.key})
             \/ Acknowledges(lck \ {cur.key}, IspAck("ERROR"), <<>>, {})
    BY <1>5, <1>6, <1>7, <2>2 DEF IspFlush
  <2> QED BY <1>7, <2>1, <2>2 DEF IspFlush
<1>8. CASE IspShort(b, lck) \/ IspInvalid(b, lck)
  BY <1>2, <1>4, <1>8, BufferKept DEF IspShort, IspInvalid
<1>9. CASE IspMemSelect(b, lck) \/ IspAddr(b, lck) \/ IspFullErase(b, lck) \/ IspWrite(b, lck)
  BY <1>5, <1>9 DEF IspMemSelect, IspAddr, IspFullErase, IspWrite
<1>10. CASE IspReadDone(b, lck)
  BY <1>6, <1>10 DEF IspReadDone
<1>11. CASE IspReadPart(b, lck)
  <2> DEFINE a == Message("ISP_OUT", b, Isp, "DOWN")
  <2>1. a \in Msg /\ a.key = b
    <3>1. "ISP_OUT" \in Signals /\ "DOWN" \in Dirs /\ Isp \in Servers
      BY DEF Signals, Dirs, Servers
    <3> QED BY <1>2, <3>1, MessageType
  <2>2. mq' = Push(Push(mq, a), cur) /\ cur' = NoMsg /\ locked' = lck /\ ispBuffer' = None
    BY <1>11 DEF IspReadPart
  <2> HIDE DEF a
  <2>3. Owns(Push(mq, a), {cur.key}, lck)
    <3>1. {cur.key, b} \ {a.key} = {cur.key}
      BY <1>2, <2>1
    <3> QED BY <1>2, <2>1, <3>1, PushOwns
  <2>4. Owns(Push(Push(mq, a), cur), {}, lck)
    <3>1. {cur.key} \ {cur.key} = {}
      OBVIOUS
    <3> QED BY <1>2, <2>3, <3>1, PushOwns
  <2>5. Held' = {}
    BY <2>2 DEF Held
  <2> QED BY <2>2, <2>4, <2>5, HandEmpty
<1> QED BY <1>7, <1>8, <1>9, <1>10, <1>11 DEF IspWith

\* S_Isp: besides the requests with a buffer, those put back, the one that finds no segment,
\* and the end of the session.
LEMMA IspKeeps ==
  ASSUME OwnInv, ReceiveIsp
  PROVE  OwnInv'
<1>1. ASSUME NEW b \in Keys, NEW lck, IspWith(b, lck) PROVE OwnInv'
  BY <1>1, IspWithKeeps
<1>2. ASSUME cur # NoMsg PROVE cur \in Msg /\ cur.dir \in Dirs /\ Toggled(cur.dir) \in Dirs
  BY <1>2, Hand, MessageType
<1>3. CASE IspDelay \/ IspCloseWait
  <2>1. cur # NoMsg /\ Sends(cur) /\ ispBuffer' = ispBuffer
    BY <1>3 DEF IspDelay, IspCloseWait, At, ispVars
  <2> QED BY <1>2, <2>1, SendsKeeps
<1>4. CASE IspCloseFlush
  <2>1. cur # NoMsg /\ Sends(cur) /\ ispBuffer' = ispBuffer
    BY <1>4 DEF IspCloseFlush, At
  <2> QED BY <1>2, <2>1, SendsKeeps
<1>5. CASE IspClosed
  <2>1. cur # NoMsg /\ Sends(Resent(cur, "COMM_CLOSED", Isp, Toggled(cur.dir))) /\ ispBuffer' = ispBuffer
    BY <1>5 DEF IspClosed, At, ispVars
  <2>2. "COMM_CLOSED" \in Signals /\ Isp \in Servers
    BY DEF Signals, Servers
  <2> DEFINE m == Resent(cur, "COMM_CLOSED", Isp, Toggled(cur.dir))
  <2>3. m \in Msg /\ m.key = cur.key
    BY <1>2, <2>1, <2>2, ResentType
  <2> HIDE DEF m
  <2> QED BY <2>1, <2>3, SendsKeeps DEF m
<1>6. CASE IspOther
  <2>1. cur # NoMsg /\ ispBuffer' = ispBuffer
    BY <1>6 DEF IspOther, ispVars
  <2>2. cur \in Msg /\ Visited(cur) \in Msg /\ Visited(cur).key = cur.key
    BY <1>2, <2>1, MessageType
  <2>3. CASE Frees
    BY <2>1, <2>3, FreesKeeps
  <2>4. CASE Sends(Visited(cur))
    BY <2>1, <2>2, <2>4, SendsKeeps
  <2> QED BY <1>6, <2>3, <2>4 DEF IspOther
<1>7. CASE IspNoBuffer
  <2>1. cur # NoMsg /\ ispBuffer' = ispBuffer /\ Held = {} /\ Held' = {}
        /\ Acknowledges(locked \ {cur.key}, IspAck("ERROR"), <<>>, {})
    BY <1>7 DEF IspNoBuffer, At, ispVars, Held
  <2>2. Owns(mq, {}, locked \ {cur.key})
    <3>1. Owns(mq, {cur.key} \union Held, locked)
      BY <2>1, Hand
    <3>2. Owns(mq, ({cur.key} \union Held) \ {cur.key}, locked \ {cur.key})
      BY <3>1, FreeOwns
    <3>3. ({cur.key} \union Held) \ {cur.key} = {}
      BY <2>1
    <3> QED BY <3>2, <3>3
  <2> DEFINE B == {}
  <2>3. Owns(mq, B, locked \ {cur.key})
    BY <2>2
  <2> HIDE DEF B
  <2>4. cur' = NoMsg /\ Owns(mq', B, locked')
    BY <2>1, <2>3, AckType, AcknowledgesKeeps
  <2>5. cur' = NoMsg /\ Owns(mq', Held', locked') /\ ispBuffer' \in Keys \union {None}
    BY <2>1, <2>4 DEF B, OwnInv
  <2> QED BY <2>5, HandEmpty
<1> QED BY <1>1, <1>3, <1>4, <1>5, <1>6, <1>7 DEF ReceiveIsp

\* The interrupts of the memories: the end of a write lets the buffer go, whatever the main
\* loop has in hand meanwhile.
LEMMA InterruptKeeps ==
  ASSUME OwnInv, Interrupt
  PROVE  OwnInv'
<1>1. CASE SpmInterrupt \/ EeInterrupt \/ EraseComplete
  BY <1>1, QuietKeeps DEF SpmInterrupt, EeInterrupt, EraseComplete, ipcVars, ispVars
<1>2. CASE WriteComplete
  <2> DEFINE H == InHand \union Held
  <2>1. mq' = mq /\ cur' = cur /\ InHand' = InHand /\ Held' = {} /\ ispBuffer' = None
        /\ locked' = locked \ {ispBuffer}
    BY <1>2 DEF WriteComplete, InHand, Held
  <2>2. Owns(mq, H, locked) /\ InHand \cap Held = {} /\ cur \in Msg \union {NoMsg}
    BY DEF OwnInv
  <2>3. Owns(mq, InHand, locked \ {ispBuffer})
    <3>1. CASE ispBuffer = None
      <4>1. Held = {} /\ ispBuffer \notin Keys /\ locked \subseteq Keys
        <5>1. ispBuffer \notin Keys /\ Held = {}
          BY <3>1, SizeAssumption DEF Held, None, Keys
        <5>2. mq \in Seq(Msg) /\ H \subseteq Keys /\ locked = KeysIn(mq) \union H
          BY <2>2 DEF Owns
        <5>3. \A i \in DOMAIN mq : mq[i] \in Msg
          BY <5>2
        <5>4. \A i \in DOMAIN mq : mq[i].key \in Keys
          BY <5>3 DEF Msg
        <5> QED BY <5>1, <5>2, <5>4 DEF KeysIn
      <4>2. locked \ {ispBuffer} = locked /\ H = InHand
        BY <4>1
      <4> QED BY <2>2, <4>2
    <3>2. CASE ispBuffer # None
      <4>1. Held = {ispBuffer}
        BY <3>2 DEF Held
      <4>2. ispBuffer \in H /\ H \ {ispBuffer} = InHand
        BY <2>2, <4>1
      <4> HIDE DEF H
      <4> QED BY <2>2, <4>2, FreeOwns
    <3> QED BY <3>1, <3>2
  <2> QED BY <2>1, <2>2, <2>3 DEF OwnInv
<1> QED BY <1>1, <1>2 DEF Interrupt, SpmInterruptExit, EeInterruptExit

-----------------------------------------------------------------------------
\* Nothing is locked and nothing is owned at the start.
LEMMA InitOwns == Init => OwnInv
<1> SUFFICES ASSUME Init PROVE OwnInv
  OBVIOUS
<1>1. mq = <<>> /\ InHand = {} /\ Held = {} /\ locked = {} /\ cur = NoMsg /\ ispBuffer = None
  BY DEF Init, InHand, Held
<1>2. Owns(<<>>, {}, {})
  BY DEF Owns, KeysIn
<1> QED BY <1>1, <1>2 DEF OwnInv

\* Every step of the node, its interrupts and its host keeps the ownership.
LEMMA NextOwns == OwnInv /\ [Next]_vars => OwnInv'
<1> SUFFICES ASSUME OwnInv, [Next]_vars PROVE OwnInv'
  OBVIOUS
<1>1. CASE Pop
  BY <1>1, PopKeeps
<1>2. CASE Receive
  BY <1>2, CanPhyKeeps, IdKeeps, IspKeeps DEF Receive
<1>3. CASE Interrupt
  BY <1>3, InterruptKeeps
<1>4. ASSUME NEW r \in Requests, HostRequests(r) PROVE OwnInv'
  BY <1>4, CanIrqKeeps, FrameKeeps DEF HostRequests
<1>5. CASE HostGivesUp
  BY <1>5, QuietKeeps DEF HostGivesUp, ipcVars, ispVars
<1>6. CASE UNCHANGED vars
  BY <1>6, QuietKeeps DEF vars, ipcVars, ispVars
<1> QED BY <1>1, <1>2, <1>3, <1>4, <1>5, <1>6 DEF Next

\* Shared memory is neither leaked nor shared by two messages, for any number of segments and
\* places and every host that waits for its answers (S_Id.cpp, S_Isp.cpp, S_Can_Phy.cpp: every
\* path of their receive() frees or passes on what it was given, exactly once).
THEOREM SegmentsKeptApart == ASSUME Window = 1 PROVE Spec => []SegmentsOwned
<1>1. Spec => []OwnInv
  BY InitOwns, NextOwns, PTL DEF Spec
<1>2. OwnInv => SegmentsOwned
  <2> SUFFICES ASSUME OwnInv PROVE SegmentsOwned
    OBVIOUS
  <2>1. Owns(mq, InHand \union Held, locked) /\ InHand \cap Held = {}
    BY DEF OwnInv
  <2> QED BY <2>1 DEF SegmentsOwned, Owns, InHand, Held
<1> QED BY <1>1, <1>2, PTL

-----------------------------------------------------------------------------
(***************************************************************************)
(* The programmer's buffer and the jobs of the memories.                   *)
(***************************************************************************)
(* the bytes of a request that writes fit into a segment *)
Fits(s) == s \in Seq(Data) /\ Len(s) <= BufferSize
Args == Nat \union {NoArg}
SegInv(s) ==
  /\ DOMAIN s = Keys
  /\ \A k \in Keys : s[k].arg \in Args /\ (s[k].act = "WRITE" => Fits(s[k].data))

\* The buffer holds bytes of the host, never more than a segment, and none without a segment.
BufferInv ==
  /\ Fits(ispData)
  /\ ispBuffer = None => ispData = <<>>
  /\ addr \in Nat
  /\ SegInv(seg)

\* No bytes fit, whatever a segment's size is.
LEMMA NothingFits == Fits(<<>>)
<1>1. Len(<<>>) = 0 /\ <<>> \in Seq(Data)
  OBVIOUS
<1> QED BY <1>1, SizeAssumption DEF Fits

LEMMA NoArgType == NoArg \in Args /\ Nat \subseteq Args /\ Args \subseteq Int
BY DEF NoArg, Args

\* A segment that gets an acknowledgement, or a part of a read, holds no bytes to be written.
LEMMA SegKept ==
  ASSUME NEW s, SegInv(s), NEW k, NEW act, NEW arg \in Args, NEW reply, NEW data, act # "WRITE" \/ data = <<>>
  PROVE  SegInv([s EXCEPT ![k] = Content(act, arg, reply, data)])
<1> DEFINE c == Content(act, arg, reply, data)
<1>1. c.arg \in Args /\ (c.act = "WRITE" => Fits(c.data))
  BY NothingFits DEF Content
<1> HIDE DEF c
<1>2. SegInv([s EXCEPT ![k] = c])
  BY <1>1 DEF SegInv
<1> QED BY <1>2 DEF c

LEMMA AckSeg ==
  ASSUME SegInv(seg), NEW lck, NEW ack, NEW after, NEW freed, Acknowledges(lck, ack, after, freed)
  PROVE  SegInv(seg')
<1>1. CASE seg' = seg
  BY <1>1
<1>2. ASSUME NEW k, seg' = [seg EXCEPT ![k] = Content(ack.act, NoArg, ack.reply, <<>>)] PROVE SegInv(seg')
  <2>1. SegInv([seg EXCEPT ![k] = Content(ack.act, NoArg, ack.reply, <<>>)])
    BY SegKept, NoArgType
  <2> QED BY <1>2, <2>1
<1> QED BY <1>1, <1>2 DEF Acknowledges

\* S_Can_Phy and S_Id leave the programmer alone.
LEMMA OtherServersBuffer ==
  ASSUME BufferInv, ReceiveCanPhy \/ ReceiveId
  PROVE  BufferInv'
<1>1. ispBuffer' = ispBuffer /\ ispData' = ispData /\ addr' = addr
  BY DEF ReceiveCanPhy, CanPhyOut, CanPhyEnableFilter, CanPhyApplStart, CanPhyOther, ReceiveId, IdClosed,
         IdApplStart, IdOwn, IdEmpty, IdDelay, IdSelectOpen, IdSelectClose, IdForward, IdTrash,
         IdFilterEnabled, IdOther, ispVars
<1>2. SegInv(seg) => SegInv(seg')
  <2> HAVE SegInv(seg)
  <2>1. CASE ReceiveCanPhy
    BY <2>1 DEF ReceiveCanPhy, CanPhyOut, CanPhyEnableFilter, CanPhyApplStart, CanPhyOther, Sends, Frees
  <2>2. CASE IdClosed \/ IdOwn
    BY <2>2, AckSeg DEF IdClosed, IdOwn, Frees
  <2>3. CASE IdFilterEnabled
    <3>1. ASSUME NEW k, seg' = [seg EXCEPT ![k] = Content(ackAction, NoArg, "OK", <<>>)] PROVE SegInv(seg')
      <4>1. SegInv([seg EXCEPT ![k] = Content(ackAction, NoArg, "OK", <<>>)])
        BY SegKept, NoArgType
      <4> QED BY <3>1, <4>1
    <3> QED BY <2>3, <3>1 DEF IdFilterEnabled
  <2>4. CASE IdApplStart \/ IdEmpty \/ IdDelay \/ IdSelectOpen \/ IdSelectClose \/ IdForward
             \/ IdTrash \/ IdOther
    BY <2>4 DEF IdApplStart, IdEmpty, IdDelay, IdSelectOpen, IdSelectClose, IdForward, IdTrash, IdOther,
                Sends, Frees, ipcVars
  <2> QED BY <2>1, <2>2, <2>3, <2>4 DEF ReceiveId
<1> QED BY <1>1, <1>2 DEF BufferInv

\* A part of a read is never empty, and fits into a segment behind its header.
LEMMA ChunkType ==
  ASSUME NEW diff \in Int
  PROVE  ChunkSize(diff) \in Nat /\ ChunkSize(diff) >= 1 /\ ChunkSize(diff) <= BufferSize - HeaderSize
<1>1. diff % 256 \in Nat
  OBVIOUS
<1>2. BufferSize - HeaderSize \in Nat /\ BufferSize - HeaderSize >= 1
  BY SizeAssumption
<1> QED BY <1>1, <1>2 DEF ChunkSize

\* The programmer's handlers: bytes are added only where they fit, and the buffer goes out with
\* a read only when it is empty.
LEMMA IspWithBuffer ==
  ASSUME OwnInv, BufferInv, NEW b, NEW lck, IspWith(b, lck)
  PROVE  BufferInv'
<1>1. cur # NoMsg /\ WithBuffer(b, lck)
  BY DEF IspWith, IspFlush, IspShort, IspMemSelect, IspAddr, IspFullErase, IspWrite, IspReadPart, IspReadDone,
         IspInvalid, IspRequest, At
<1>2. b \in Keys /\ b # None /\ cur.key \in Keys
  <2>1. b \in Keys /\ cur.key \in Keys
    BY <1>1, BufferOwned, Hand
  <2> QED BY <2>1, SizeAssumption DEF None, Keys
<1>3. ASSUME ispBuffer' = b, ispData' = ispData, addr' \in Nat, SegInv(seg') PROVE BufferInv'
  BY <1>2, <1>3 DEF BufferInv
<1>4. CASE IspFlush(b, lck)
  <2>1. SegInv(seg')
    BY <1>4, AckSeg DEF IspFlush, BufferInv
  <2> QED BY <1>3, <1>4, <2>1 DEF IspFlush, BufferInv
<1>5. CASE IspShort(b, lck) \/ IspInvalid(b, lck)
  BY <1>3, <1>5 DEF IspShort, IspInvalid, BufferInv
<1>6. CASE IspMemSelect(b, lck) \/ IspAddr(b, lck) \/ IspFullErase(b, lck) \/ IspReadDone(b, lck)
  <2>1. SegInv(seg')
    BY <1>6, AckSeg DEF IspMemSelect, IspAddr, IspFullErase, IspReadDone, BufferInv
  <2>2. addr' \in Nat
    BY <1>2, <1>6 DEF IspMemSelect, IspAddr, IspFullErase, IspReadDone, BufferInv, SegInv, Request, Args
  <2> QED BY <1>3, <1>6, <2>1, <2>2 DEF IspMemSelect, IspAddr, IspFullErase, IspReadDone
<1>7. CASE IspWrite(b, lck)
  <2> DEFINE d == Request.data
  <2>1. /\ ispBuffer' = b /\ ispData' = ispData \o d /\ Request.act = "WRITE"
        /\ ~(Len(ispData) + Len(d) > BufferSize)
    BY <1>7 DEF IspWrite, IspRequest, MustFlush, Overflows
  <2>2. SegInv(seg')
    BY <1>7, AckSeg DEF IspWrite, BufferInv
  <2>3. d \in Seq(Data) /\ ispData \in Seq(Data)
    BY <1>2, <2>1 DEF BufferInv, SegInv, Request, Fits
  <2> HIDE DEF d
  <2>4. ispData \o d \in Seq(Data) /\ Len(ispData \o d) = Len(ispData) + Len(d)
        /\ Len(ispData) \in Nat /\ Len(d) \in Nat
    BY <2>3
  <2>5. Fits(ispData \o d)
    BY <2>1, <2>4, SizeAssumption DEF Fits
  <2>6. addr' \in Nat
    BY <1>7 DEF IspWrite, BufferInv
  <2> QED BY <1>2, <2>1, <2>2, <2>5, <2>6 DEF BufferInv
<1>8. CASE IspReadPart(b, lck)
  <2>1. ispData = <<>> /\ ispData' = <<>>
    BY <1>8 DEF IspReadPart, IspRequest, MustFlush
  <2> DEFINE size == ChunkSize(Request.arg - addr)
  <2>2. PICK d : seg' = [seg EXCEPT ![b] = Content("READ", addr, "NONE", d)] /\ addr' = addr + size
    BY <1>8 DEF IspReadPart
  <2>4. addr \in Nat /\ size \in Nat
    <3>1. addr \in Nat /\ Request.arg \in Int
      BY <1>2, NoArgType DEF BufferInv, SegInv, Request
    <3>2. Request.arg - addr \in Int
      BY <3>1
    <3> QED BY <3>1, <3>2, ChunkType
  <2> HIDE DEF size
  <2>3. SegInv([seg EXCEPT ![b] = Content("READ", addr, "NONE", d)])
    BY <2>4, SegKept, NoArgType DEF BufferInv
  <2> QED BY <2>1, <2>2, <2>3, <2>4, NothingFits DEF BufferInv
<1> QED BY <1>4, <1>5, <1>6, <1>7, <1>8 DEF IspWith

LEMMA IspBuffer ==
  ASSUME OwnInv, BufferInv, ReceiveIsp
  PROVE  BufferInv'
<1>1. CASE \E b \in Keys : IspWith(b, IF ispBuffer = None THEN locked \union {b} ELSE locked)
  BY <1>1, IspWithBuffer
<1>2. CASE IspNoBuffer
  <2>1. SegInv(seg')
    BY <1>2, AckSeg DEF IspNoBuffer, BufferInv
  <2> QED BY <1>2, <2>1 DEF IspNoBuffer, BufferInv, ispVars
<1>3. CASE IspDelay \/ IspCloseFlush \/ IspCloseWait \/ IspClosed \/ IspOther
  BY <1>3 DEF IspDelay, IspCloseFlush, IspCloseWait, IspClosed, IspOther, BufferInv, ispVars, Sends, Frees
<1> QED BY <1>1, <1>2, <1>3 DEF ReceiveIsp

LEMMA InterruptBuffer ==
  ASSUME BufferInv, Interrupt
  PROVE  BufferInv'
<1>1. CASE WriteComplete
  <2>1. addr + Len(ispData) \in Nat
    BY DEF BufferInv, Fits
  <2> QED BY <1>1, <2>1, NothingFits DEF WriteComplete, BufferInv
<1>2. CASE SpmInterrupt \/ EeInterrupt \/ EraseComplete
  BY <1>2 DEF SpmInterrupt, EeInterrupt, EraseComplete, ipcVars, ispVars, BufferInv
<1> QED BY <1>1, <1>2 DEF Interrupt, SpmInterruptExit, EeInterruptExit

\* The bytes of a frame fit into the segment they are copied to.
LEMMA FrameSeg ==
  ASSUME SegInv(seg), NEW r \in Requests, NEW k
  PROVE  SegInv([seg EXCEPT ![k] = Content(r.act, r.arg, "NONE", r.data)])
<1> DEFINE c == Content(r.act, r.arg, "NONE", r.data)
<1>1. c.arg \in Args /\ (c.act = "WRITE" => Fits(c.data))
  BY RequestAssumption, NoArgType DEF Content, Fits, Args
<1> HIDE DEF c
<1>2. SegInv([seg EXCEPT ![k] = c])
  BY <1>1 DEF SegInv
<1> QED BY <1>2 DEF c

\* A frame of the host is copied into a segment, between two steps of main or behind a free.
LEMMA CanIrqBuffer ==
  ASSUME BufferInv, NEW r \in Requests, CanIrqReceive(r)
  PROVE  BufferInv'
<1>1. CASE seg' = seg
  BY <1>1 DEF CanIrqReceive, BufferInv, ispVars
<1>2. ASSUME NEW k \in Keys, seg' = [seg EXCEPT ![k] = Content(r.act, r.arg, "NONE", r.data)]
      PROVE  BufferInv'
  <2>3. SegInv(seg')
    BY <1>2, FrameSeg DEF BufferInv
  <2> QED BY <2>3 DEF CanIrqReceive, BufferInv, ispVars
<1> QED BY <1>1, <1>2 DEF CanIrqReceive

LEMMA FrameBuffer ==
  ASSUME BufferInv, NEW r \in Requests, FrameDuringReceive(r)
  PROVE  BufferInv'
<1>1. ispData' = ispData /\ addr' = addr /\ (ispBuffer' = ispBuffer \/ ispBuffer' \in Keys)
  BY DEF FrameDuringReceive, FrameInNoBuffer, FrameInReadDone
<1>2. \A k \in Keys : k # None
  BY SizeAssumption DEF None, Keys
<1>3. ASSUME NEW lck, NEW ack, FrameAfterFree(r, lck, ack) PROVE SegInv(seg')
  <2>1. PICK k \in Keys \ lck :
          LET segNow == [seg EXCEPT ![k] = Content(r.act, r.arg, "NONE", r.data)]
          IN  \/ seg' = segNow
              \/ \E n \in Keys, act \in {ack.act, segNow[cur.key].act} :
                   seg' = [segNow EXCEPT ![n] = Content(act, NoArg, ack.reply, <<>>)]
    BY <1>3 DEF FrameAfterFree
  <2> DEFINE segNow == [seg EXCEPT ![k] = Content(r.act, r.arg, "NONE", r.data)]
  <2>2. SegInv(segNow)
    BY FrameSeg DEF BufferInv
  <2> HIDE DEF segNow
  <2>3. ASSUME NEW n, NEW act, seg' = [segNow EXCEPT ![n] = Content(act, NoArg, ack.reply, <<>>)]
        PROVE  SegInv(seg')
    <3>1. SegInv([segNow EXCEPT ![n] = Content(act, NoArg, ack.reply, <<>>)])
      BY <2>2, SegKept, NoArgType
    <3> QED BY <2>3, <3>1
  <2> QED BY <2>1, <2>2, <2>3 DEF segNow
<1>4. SegInv(seg')
  BY <1>3 DEF FrameDuringReceive, FrameInNoBuffer, FrameInReadDone
<1> QED BY <1>1, <1>2, <1>4 DEF BufferInv

LEMMA InitBuffer == Init => BufferInv
<1> SUFFICES ASSUME Init PROVE BufferInv
  OBVIOUS
<1>1. ispData = <<>> /\ addr = 0 /\ seg = [k \in Keys |-> Empty] /\ Empty.act # "WRITE" /\ Empty.arg \in Args
  BY NoArgType DEF Init, Empty, Content
<1>2. SegInv(seg)
  BY <1>1 DEF SegInv
<1> QED BY <1>1, <1>2, NothingFits DEF BufferInv

LEMMA NextBuffer == OwnInv /\ BufferInv /\ [Next]_vars => BufferInv'
<1> SUFFICES ASSUME OwnInv, BufferInv, [Next]_vars PROVE BufferInv'
  OBVIOUS
<1>1. CASE Receive
  BY <1>1, OtherServersBuffer, IspBuffer DEF Receive
<1>2. CASE Interrupt
  BY <1>2, InterruptBuffer
<1>3. ASSUME NEW r \in Requests, HostRequests(r) PROVE BufferInv'
  BY <1>3, CanIrqBuffer, FrameBuffer DEF HostRequests
<1>4. CASE Pop \/ HostGivesUp \/ UNCHANGED vars
  BY <1>4 DEF Pop, HostGivesUp, vars, ipcVars, ispVars, BufferInv
<1> QED BY <1>1, <1>2, <1>3, <1>4 DEF Next

\* Every message carries a segment, a sender and a direction, and the programmer's buffer holds
\* bytes only while it has a segment, and never more than fit: a write that does not fit any
\* more is put back and the buffer written out first (S_Isp.cpp, _init_isp()).
THEOREM ShumwayTypes == Spec => []ShumwayTypeOK
<1>1. Init => OwnInv /\ BufferInv
  BY InitOwns, InitBuffer
<1>2. OwnInv /\ BufferInv /\ [Next]_vars => OwnInv' /\ BufferInv'
  BY NextOwns, NextBuffer
<1>3. OwnInv /\ BufferInv => ShumwayTypeOK
  <2> SUFFICES ASSUME OwnInv, BufferInv PROVE ShumwayTypeOK
    OBVIOUS
  <2>1. mq \in Seq(Msg) /\ locked \subseteq Keys
    <3>1. Owns(mq, InHand \union Held, locked)
      BY DEF OwnInv
    <3>2. mq \in Seq(Msg) /\ KeysIn(mq) \subseteq Keys
      <4>1. \A i \in DOMAIN mq : mq[i] \in Msg
        BY <3>1 DEF Owns
      <4> QED BY <3>1, <4>1 DEF Owns, KeysIn, Msg
    <3> QED BY <3>1, <3>2 DEF Owns
  <2>2. \A i \in DOMAIN mq : mq[i] \in Msg
    BY <2>1
  <2>3. cur = NoMsg \/ cur.key \in Keys
    BY DEF OwnInv, Msg
  <2> QED BY <2>1, <2>2, <2>3 DEF ShumwayTypeOK, OwnInv, BufferInv, Fits, Msg
<1> QED BY <1>1, <1>2, <1>3, PTL DEF Spec

-----------------------------------------------------------------------------
SpmFields == {"cb", "handler", "dest", "tmp", "fill", "buffer"}
EeFields == {"cb", "addr", "dest", "buffer"}
Jobs == {"none", "write", "erase"}

\* At most one of the memories works, and the programmer knows; a write has something to
\* write; the application section is open for reading when no flash job runs.
JobInv ==
  /\ DOMAIN spm = SpmFields /\ DOMAIN ee = EeFields
  /\ spm.cb \in Jobs /\ ee.cb \in Jobs
  /\ inProgress \in BOOLEAN /\ (inProgress <=> FlashBusy \/ EepromBusy)
  /\ ~FlashBusy \/ ~EepromBusy
  /\ spm.cb = "write" \/ ee.cb = "write" => ispData # <<>>
  /\ ~FlashBusy => spm.handler = "exit"
  /\ spm.handler = "exit" => readable

\* Steps that touch neither the memories nor what the programmer knows of them.
Still == UNCHANGED <<memVars, inProgress, ispData>>

LEMMA StillJobs ==
  ASSUME JobInv, Still
  PROVE  JobInv'
BY DEF JobInv, Still, memVars, FlashBusy, EepromBusy

\* The programmer's handlers start a job only while none runs.
LEMMA JobStarts ==
  ASSUME JobInv, ~inProgress, inProgress' = TRUE, ispData' = ispData,
         \/ EraseAsync
         \/ WriteAsync /\ ispData # <<>>
  PROVE  JobInv'
<1>1. ~FlashBusy /\ ~EepromBusy /\ readable
  BY DEF JobInv
<1>2. spm.cb = "none" /\ ee.cb = "none"
  BY <1>1 DEF FlashBusy, EepromBusy
<1>3. CASE WriteAsync /\ ispData # <<>> /\ area = "FLASH"
  <2>1. spm' = [cb |-> "write", handler |-> "load", dest |-> addr, tmp |-> PageOf(addr) * PageSize,
                fill |-> 0, buffer |-> ispData] /\ ee' = ee /\ readable' = readable
    BY <1>3 DEF WriteAsync, FlashWriteAsync
  <2>2. spm'.cb = "write" /\ spm'.handler = "load" /\ DOMAIN spm' = SpmFields
    BY <2>1 DEF SpmFields
  <2> QED BY <1>2, <1>3, <2>1, <2>2 DEF JobInv, FlashBusy, EepromBusy, Jobs
<1>4. CASE WriteAsync /\ ispData # <<>> /\ area # "FLASH"
  <2>1. /\ ee' = [cb |-> "write", addr |-> addr, dest |-> addr + Len(ispData) - 1, buffer |-> ispData]
        /\ spm' = spm /\ readable' = readable
    BY <1>4 DEF WriteAsync, EepromWriteAsync
  <2>2. ee'.cb = "write" /\ DOMAIN ee' = EeFields
    BY <2>1 DEF EeFields
  <2> QED BY <1>2, <1>4, <2>1, <2>2 DEF JobInv, FlashBusy, EepromBusy, Jobs
<1>5. CASE EraseAsync /\ area = "FLASH"
  <2>1. /\ spm' = [NoFlashJob EXCEPT !.cb = "erase", !.handler = "erase"]
        /\ ee' = ee /\ readable' = readable
    BY <1>5 DEF EraseAsync, FlashEraseAsync
  <2>2. spm'.cb = "erase" /\ spm'.handler = "erase" /\ DOMAIN spm' = SpmFields
    BY <2>1 DEF SpmFields, NoFlashJob
  <2> QED BY <1>2, <2>1, <2>2 DEF JobInv, FlashBusy, EepromBusy, Jobs
<1>6. CASE EraseAsync /\ area # "FLASH"
  <2>1. /\ ee' = [cb |-> "erase", addr |-> 0, dest |-> EepromSize - 1,
                  buffer |-> [i \in 1..EepromSize |-> Blank]]
        /\ spm' = spm /\ readable' = readable
    BY <1>6 DEF EraseAsync, EepromEraseAsync
  <2>2. ee'.cb = "erase" /\ DOMAIN ee' = EeFields
    BY <2>1 DEF EeFields
  <2> QED BY <1>2, <2>1, <2>2 DEF JobInv, FlashBusy, EepromBusy, Jobs
<1> QED BY <1>3, <1>4, <1>5, <1>6

\* A driver is never busy when the programmer has no job under way.
LEMMA DriverReady ==
  ASSUME JobInv, ~inProgress
  PROVE  ~DriverBusy
BY DEF JobInv, DriverBusy

\* The flash interrupt before its last call.
LEMMA SpmStepJobs ==
  ASSUME JobInv, SpmStep
  PROVE  /\ spm'.cb = spm.cb /\ ee' = ee /\ DOMAIN spm' = DOMAIN spm
         /\ FlashBusy /\ (spm'.handler = "exit" => readable')
<1>1. DOMAIN spm = SpmFields /\ FlashBusy
  BY DEF JobInv, SpmStep, SpmErase, SpmLoadWord, SpmPageLoaded, SpmWrite, SpmAllWritten
<1>2. CASE SpmErase
  BY <1>1, <1>2 DEF SpmErase, SpmFields
<1>3. CASE SpmLoadWord
  <2>1. PICK buffer, tmp, fill : spm' = [spm EXCEPT !.buffer = buffer, !.tmp = tmp, !.fill = fill]
    BY <1>3 DEF SpmLoadWord
  <2>2. spm'.handler = spm.handler /\ spm.handler = "load" /\ spm'.cb = spm.cb /\ DOMAIN spm' = DOMAIN spm
    BY <1>1, <1>3, <2>1 DEF SpmFields, SpmLoadWord
  <2> QED BY <1>1, <1>3, <2>2 DEF SpmLoadWord
<1>4. CASE SpmPageLoaded \/ SpmWrite
  <2>1. \/ spm' = [spm EXCEPT !.handler = "write"]
        \/ spm' = [spm EXCEPT !.handler = "load", !.fill = 0, !.dest = spm.tmp]
    BY <1>4 DEF SpmPageLoaded, SpmWrite, WritePage
  <2>2. spm'.handler \in {"write", "load"} /\ spm'.cb = spm.cb /\ DOMAIN spm' = DOMAIN spm
    BY <1>1, <2>1 DEF SpmFields
  <2>3. ee' = ee
    BY <1>4 DEF SpmPageLoaded, SpmWrite
  <2> QED BY <1>1, <2>2, <2>3
<1>5. CASE SpmAllWritten
  BY <1>1, <1>5 DEF SpmAllWritten, SpmFields
<1> QED BY <1>2, <1>3, <1>4, <1>5 DEF SpmStep

LEMMA InterruptJobs ==
  ASSUME JobInv, Interrupt
  PROVE  JobInv'
<1>1. CASE SpmInterrupt
  <2>1. /\ spm'.cb = spm.cb /\ ee' = ee /\ DOMAIN spm' = DOMAIN spm
        /\ FlashBusy /\ (spm'.handler = "exit" => readable')
    BY <1>1, SpmStepJobs DEF SpmInterrupt
  <2>2. inProgress' = inProgress /\ ispData' = ispData
    BY <1>1 DEF SpmInterrupt, ispVars
  <2> QED BY <2>1, <2>2 DEF JobInv, FlashBusy, EepromBusy
<1>2. CASE EeInterrupt
  <2>1. /\ inProgress' = inProgress /\ ispData' = ispData /\ spm' = spm /\ readable' = readable
        /\ EepromBusy
        /\ \E a, b : ee' = [ee EXCEPT !.addr = a, !.buffer = b]
    BY <1>2 DEF EeInterrupt, EeStep, ispVars
  <2>2. ee'.cb = ee.cb /\ DOMAIN ee' = DOMAIN ee
    BY <2>1 DEF JobInv, EeFields
  <2> QED BY <2>1, <2>2 DEF JobInv, FlashBusy, EepromBusy
<1>3. CASE SpmInterruptExit
  <2>1. /\ spm' = [spm EXCEPT !.cb = "none"] /\ ee' = ee /\ readable' = readable
        /\ FlashBusy /\ spm.handler = "exit" /\ inProgress' = FALSE
    BY <1>3 DEF SpmInterruptExit, SpmExit, WriteComplete, EraseComplete
  <2>2. spm'.cb = "none" /\ spm'.handler = "exit" /\ DOMAIN spm' = DOMAIN spm
    BY <2>1 DEF JobInv, SpmFields
  <2> QED BY <2>1, <2>2 DEF JobInv, FlashBusy, EepromBusy, Jobs
<1>4. CASE EeInterruptExit
  <2>1. /\ ee' = [ee EXCEPT !.cb = "none"] /\ spm' = spm /\ readable' = readable
        /\ EepromBusy /\ inProgress' = FALSE
    BY <1>4 DEF EeInterruptExit, EeExit, WriteComplete, EraseComplete
  <2>2. ee'.cb = "none" /\ DOMAIN ee' = DOMAIN ee
    BY <2>1 DEF JobInv, EeFields
  <2> QED BY <2>1, <2>2 DEF JobInv, FlashBusy, EepromBusy, Jobs
<1> QED BY <1>1, <1>2, <1>3, <1>4 DEF Interrupt

\* What the receive() of the servers does to the jobs: nothing, the start of one, or bytes
\* for the buffer while none runs.
LEMMA ServersStill ==
  ASSUME ReceiveCanPhy \/ ReceiveId
  PROVE  Still
BY DEF ReceiveCanPhy, CanPhyOut, CanPhyEnableFilter, CanPhyApplStart, CanPhyOther, ReceiveId, IdClosed,
       IdApplStart, IdOwn, IdEmpty, IdDelay, IdSelectOpen, IdSelectClose, IdForward, IdTrash,
       IdFilterEnabled, IdOther, ispVars, Still

LEMMA IspWithJobs ==
  ASSUME OwnInv, BufferInv, JobInv, NEW b, NEW lck, IspWith(b, lck)
  PROVE  JobInv'
<1>1. cur.key \in Keys /\ ~inProgress /\ ~DriverBusy
  <2>1. cur # NoMsg /\ WithBuffer(b, lck)
    BY DEF IspWith, IspFlush, IspShort, IspMemSelect, IspAddr, IspFullErase, IspWrite, IspReadPart,
           IspReadDone, IspInvalid, IspRequest, At
  <2> QED BY <2>1, Hand, DriverReady DEF WithBuffer
<1>2. CASE IspFlush(b, lck)
  <2>1. WriteAsync /\ inProgress' = TRUE /\ ispData' = ispData /\ MustFlush
    BY <1>1, <1>2 DEF IspFlush
  <2>2. ASSUME Overflows PROVE ispData # <<>>
    <3>1. Request.data \in Seq(Data) /\ Len(Request.data) <= BufferSize
      BY <1>1, <2>2 DEF BufferInv, SegInv, Fits, Overflows, Request
    <3>2. Len(Request.data) \in Nat /\ Len(<<>>) = 0
      BY <3>1
    <3>3. Len(ispData) + Len(Request.data) > BufferSize
      BY <2>2 DEF Overflows
    <3> QED BY <3>1, <3>2, <3>3, SizeAssumption
  <2> QED BY <1>1, <2>1, <2>2, JobStarts DEF MustFlush
<1>3. CASE IspFullErase(b, lck)
  <2>1. EraseAsync /\ inProgress' = TRUE /\ ispData' = ispData
    BY <1>1, <1>3 DEF IspFullErase
  <2> QED BY <1>1, <2>1, JobStarts
<1>4. CASE IspWrite(b, lck)
  <2>1. UNCHANGED <<spm, ee, readable, inProgress>>
    BY <1>4 DEF IspWrite, memVars
  <2> QED BY <1>1, <2>1 DEF JobInv, FlashBusy, EepromBusy, Jobs
<1>5. CASE IspShort(b, lck) \/ IspMemSelect(b, lck) \/ IspAddr(b, lck) \/ IspReadPart(b, lck)
           \/ IspReadDone(b, lck) \/ IspInvalid(b, lck)
  <2>1. Still
    BY <1>5 DEF IspShort, IspMemSelect, IspAddr, IspReadPart, IspReadDone, IspInvalid, Still
  <2> QED BY <2>1, StillJobs
<1> QED BY <1>2, <1>3, <1>4, <1>5 DEF IspWith

LEMMA InitJobs == Init => JobInv
<1> SUFFICES ASSUME Init PROVE JobInv
  OBVIOUS
<1>1. spm = NoFlashJob /\ ee = NoEepromJob /\ readable = TRUE /\ inProgress = FALSE
  BY DEF Init, MemInit
<1>2. /\ spm.cb = "none" /\ spm.handler = "exit" /\ ee.cb = "none"
      /\ DOMAIN spm = SpmFields /\ DOMAIN ee = EeFields
  BY <1>1 DEF NoFlashJob, NoEepromJob, SpmFields, EeFields
<1> QED BY <1>1, <1>2 DEF JobInv, FlashBusy, EepromBusy, Jobs

LEMMA NextJobs == OwnInv /\ BufferInv /\ JobInv /\ [Next]_vars => JobInv'
<1> SUFFICES ASSUME OwnInv, BufferInv, JobInv, [Next]_vars PROVE JobInv'
  OBVIOUS
<1>1. CASE ReceiveIsp
  <2>1. CASE \E b \in Keys : IspWith(b, IF ispBuffer = None THEN locked \union {b} ELSE locked)
    BY <2>1, IspWithJobs
  <2>2. CASE IspCloseFlush
    BY <2>2, JobStarts DEF IspCloseFlush
  <2>3. CASE IspDelay \/ IspNoBuffer \/ IspCloseWait \/ IspClosed \/ IspOther
    <3>1. Still
      BY <2>3 DEF IspDelay, IspNoBuffer, IspCloseWait, IspClosed, IspOther, ispVars, Still
    <3> QED BY <3>1, StillJobs
  <2> QED BY <1>1, <2>1, <2>2, <2>3 DEF ReceiveIsp
<1>2. CASE ReceiveCanPhy \/ ReceiveId
  BY <1>2, ServersStill, StillJobs
<1>3. CASE Interrupt
  BY <1>3, InterruptJobs
<1>4. CASE Pop \/ (\E r \in Requests : HostRequests(r)) \/ HostGivesUp \/ UNCHANGED vars
  <2>1. Still
    BY <1>4 DEF Pop, HostRequests, CanIrqReceive, FrameDuringReceive, HostGivesUp, vars, ispVars, Still
  <2> QED BY <2>1, StillJobs
<1> QED BY <1>1, <1>2, <1>3, <1>4 DEF Next, Receive

-----------------------------------------------------------------------------
(***************************************************************************)
(* The requests under way, when the host has one at a time.  A message is  *)
(* asking while it carries a request through the servers, and a token if   *)
(* it is asking or the answer that ends the host's wait.                   *)
(***************************************************************************)
In(q) == {q[i] : i \in DOMAIN q}
Flight == In(mq) \union ({cur} \ {NoMsg})

Token(m, s) == m.sig \in Asking \union {"ID_OUT"} \/ (m.sig = "ISP_OUT" /\ s[m.key].data = <<>>)
(* on the way to the end of the session *)
Closing(m, s) == m.sig = "COMM_CLOSE" \/ (m.sig = "PHY_IN" /\ s[m.key].act = "SELECT_CLOSE")

NoErase == spm.cb # "erase" /\ ee.cb # "erase"
Quiet == ispData = <<>> /\ ~inProgress

\* What a message may say of the memories: no erase runs while the session is being closed, and
\* all is written when it is closed and the application is on its way to be started.
Telling(m, s) ==
  /\ m.sig = "COMM_CLOSE" => m.from = Id /\ m.dir = "UP" /\ m.visits = 0
  /\ m.sig = "ISP_OUT" => m.from = Isp
  /\ Closing(m, s) => NoErase
  /\ m.sig \in {"COMM_CLOSED", "APPL_START"} => Quiet

Waited == [req : Requests, wasOpen : BOOLEAN]
HostInv == open \in BOOLEAN /\ waiting \in Seq(Waited)

\* One request at a time; nothing asks any more once the application is to be started; the
\* last message about the opening is not overtaken by the end of the session.
FlowInv ==
  /\ \A m, n \in Flight : Token(m, seg) /\ Token(n, seg) => m = n
  /\ \A m \in Flight : Token(m, seg) => waiting # <<>>
  /\ \A m \in Flight : Telling(m, seg)
  /\ \A m, n \in Flight :
       /\ m.sig = "APPL_START" => n.sig \notin Asking
       /\ m.sig = "DISABLE_APPL_START" => open /\ ackAction = "INVALID" /\ ~Closing(n, seg)
  /\ started => Quiet

\* The message in hand is not one of the queue.
LEMMA HandApart ==
  ASSUME OwnInv, cur # NoMsg
  PROVE  /\ cur \in Flight /\ cur \notin In(mq) /\ Flight = In(mq) \union {cur}
         /\ mq \in Seq(Msg) /\ In(mq) \subseteq Msg /\ cur \in Msg
         /\ KeysIn(mq) \subseteq locked /\ \A m \in In(mq) : m.key \in KeysIn(mq)
<1>1. cur.key \notin KeysIn(mq) /\ mq \in Seq(Msg) /\ cur \in Msg /\ KeysIn(mq) \subseteq locked
  <2>1. Owns(mq, {cur.key} \union Held, locked) /\ cur \in Msg
    BY Hand
  <2> QED BY <2>1 DEF Owns
<1>2. \A m \in In(mq) : m.key \in KeysIn(mq)
  BY DEF In, KeysIn
<1>3. In(mq) \subseteq Msg
  <2>1. \A i \in DOMAIN mq : mq[i] \in Msg
    BY <1>1
  <2> QED BY <2>1 DEF In
<1> QED BY <1>1, <1>2, <1>3 DEF Flight

LEMMA PushIn ==
  ASSUME NEW S, NEW q \in Seq(S), NEW m
  PROVE  In(Push(q, m)) \subseteq In(q) \union {m} /\ (m \in S => Push(q, m) \in Seq(S))
<1>1. CASE Push(q, m) = q
  BY <1>1
<1>2. CASE Push(q, m) = Append(q, m)
  <2>1. /\ DOMAIN q = 1..Len(q) /\ Len(q) \in Nat
        /\ DOMAIN Append(q, m) = 1..(Len(q) + 1)
        /\ \A i \in 1..Len(q) : Append(q, m)[i] = q[i]
        /\ Append(q, m)[Len(q) + 1] = m
    OBVIOUS
  <2>2. In(Append(q, m)) \subseteq In(q) \union {m}
    <3> SUFFICES ASSUME NEW i \in 1..(Len(q) + 1) PROVE Append(q, m)[i] \in In(q) \union {m}
      BY <2>1 DEF In
    <3>1. i \in 1..Len(q) \/ i = Len(q) + 1
      BY <2>1
    <3> QED BY <2>1, <3>1 DEF In
  <2> QED BY <1>2, <2>2
<1> QED BY <1>1, <1>2 DEF Push

\* A step that ends the message in hand and puts the messages N into the queue.
LEMMA FlowStep ==
  ASSUME OwnInv, FlowInv, cur # NoMsg, NEW N,
         Flight' \subseteq In(mq) \union N,
         \A m \in In(mq) : seg'[m.key] = seg[m.key],
         waiting' = waiting \/ (Token(cur, seg) /\ N = {}),
         ~started',
         ((NoErase => NoErase') /\ (Quiet => Quiet')) \/ cur.sig \in Asking,
         (open => open') /\ (\/ ackAction' = ackAction \/ ackAction' = "INVALID"
                             \/ \A m \in Flight : m.sig # "DISABLE_APPL_START"),
         \A m, n \in N : Token(m, seg') /\ Token(n, seg') => m = n,
         \A m \in N :
           /\ Token(m, seg') => Token(cur, seg)
           /\ m.sig \in Asking => cur.sig \in Asking
           /\ Closing(m, seg') => Closing(cur, seg)
           /\ Telling(m, seg)'
           /\ m.sig = "APPL_START" =>
                cur.sig = "APPL_START" \/ (cur.sig \in Asking /\ \A n \in N : n.sig \notin Asking)
           /\ m.sig = "DISABLE_APPL_START" =>
                \/ cur.sig = "DISABLE_APPL_START"
                \/ /\ cur.sig \in Asking /\ open' /\ ackAction' = "INVALID"
                   /\ \A n \in N : ~Closing(n, seg')
  PROVE  FlowInv'
<1>1. cur \in Flight /\ cur \notin In(mq) /\ In(mq) \subseteq Flight
  BY HandApart
<1>2. \A m \in In(mq) : (Token(m, seg') <=> Token(m, seg)) /\ (Closing(m, seg') <=> Closing(m, seg))
  BY DEF Token, Closing
<1>3. \A m \in In(mq) : Token(m, seg) => ~Token(cur, seg)
  BY <1>1 DEF FlowInv
<1>4. \A m : m.sig \in Asking => Token(m, seg)
  BY DEF Token
<1>5. \A m, n \in Flight' : Token(m, seg') /\ Token(n, seg') => m = n
  BY <1>1, <1>2, <1>3 DEF FlowInv
<1>6. \A m \in Flight' : Token(m, seg') => waiting' # <<>>
  BY <1>1, <1>2, <1>3 DEF FlowInv
<1>7. ASSUME NEW m \in In(mq) PROVE Telling(m, seg)'
  <2>1. Telling(m, seg) /\ m \in Flight
    BY <1>1, <1>7 DEF FlowInv
  <2>2. CASE (NoErase => NoErase') /\ (Quiet => Quiet')
    BY <1>2, <2>1, <2>2 DEF Telling
  <2>3. CASE cur.sig \in Asking
    <3>1. m.sig # "APPL_START" /\ ~Token(m, seg)
      BY <1>1, <1>3, <1>4, <1>7, <2>3 DEF FlowInv
    <3>2. m.sig \notin Asking
      BY <1>4, <3>1
    <3> QED BY <1>2, <2>1, <3>1, <3>2 DEF Telling, Closing, Asking
  <2> QED BY <2>2, <2>3
<1>8. \A m \in Flight' : Telling(m, seg)'
  BY <1>7
<1>9. ASSUME NEW m \in Flight', NEW n \in Flight', m.sig = "APPL_START" PROVE n.sig \notin Asking
  <2>1. CASE m \in In(mq) /\ n \in In(mq)
    BY <1>1, <1>9, <2>1 DEF FlowInv
  <2>2. CASE m \in In(mq) /\ n \in N
    BY <1>1, <1>9, <2>2 DEF FlowInv
  <2>3. CASE m \in N
    BY <1>1, <1>3, <1>4, <1>9, <2>3 DEF FlowInv
  <2> QED BY <2>1, <2>2, <2>3
<1>10. ASSUME NEW m \in Flight', NEW n \in Flight', m.sig = "DISABLE_APPL_START"
       PROVE  open' /\ ackAction' = "INVALID" /\ ~Closing(n, seg')
  <2>1. ASSUME NEW k \in Flight, k.sig = "DISABLE_APPL_START"
        PROVE  open' /\ ackAction' = "INVALID"
    BY <2>1 DEF FlowInv
  <2>2. \A k \in In(mq) : Closing(k, seg) => Token(k, seg)
    BY DEF Closing, Token, Asking
  <2>3. CASE m \in In(mq) /\ n \in In(mq)
    BY <1>1, <1>2, <1>10, <2>1, <2>3 DEF FlowInv
  <2>4. CASE m \in In(mq) /\ n \in N
    BY <1>1, <1>10, <2>1, <2>4 DEF FlowInv
  <2>5. CASE m \in N /\ cur.sig = "DISABLE_APPL_START"
    BY <1>1, <1>2, <1>10, <2>1, <2>5 DEF FlowInv
  <2>6. CASE m \in N /\ cur.sig # "DISABLE_APPL_START"
    BY <1>1, <1>2, <1>3, <1>4, <1>10, <2>2, <2>6
  <2> QED BY <2>3, <2>4, <2>5, <2>6
<1> QED BY <1>5, <1>6, <1>8, <1>9, <1>10 DEF FlowInv

\* A handler that sends the message on, under another signal perhaps.
LEMMA SendsFlow ==
  ASSUME OwnInv, FlowInv, cur # NoMsg, NEW m \in Msg, m.key = cur.key, Sends(m),
         waiting' = waiting, ~started',
         ((NoErase => NoErase') /\ (Quiet => Quiet')) \/ cur.sig \in Asking,
         (open => open') /\ (\/ ackAction' = ackAction \/ ackAction' = "INVALID"
                             \/ \A n \in Flight : n.sig # "DISABLE_APPL_START"),
         m.sig = cur.sig \/ (m.sig \in Asking /\ cur.sig \in Asking),
         Closing(m, seg) => Closing(cur, seg),
         Telling(m, seg)'
  PROVE  FlowInv'
<1>1. mq' = Push(mq, m) /\ cur' = NoMsg /\ seg' = seg
  BY DEF Sends
<1>2. Flight' \subseteq In(mq) \union {m}
  <2>1. mq \in Seq(Msg)
    BY HandApart
  <2>2. In(mq') \subseteq In(mq) \union {m}
    BY <1>1, <2>1, PushIn
  <2> QED BY <1>1, <2>2 DEF Flight
<1>3. Token(m, seg) => Token(cur, seg)
  BY DEF Token
<1>4. m.sig = "APPL_START" => cur.sig = "APPL_START"
  BY DEF Asking
<1>5. m.sig = "DISABLE_APPL_START" => cur.sig = "DISABLE_APPL_START"
  BY DEF Asking
<1> DEFINE N == {m}
<1>6. Flight' \subseteq In(mq) \union N
  BY <1>2
<1>7. \A k, n \in N : k = n
  OBVIOUS
<1>8. \A k \in N : /\ Token(k, seg') => Token(cur, seg)
                   /\ k.sig \in Asking => cur.sig \in Asking
                   /\ Closing(k, seg') => Closing(cur, seg)
                   /\ Telling(k, seg)'
                   /\ k.sig = "APPL_START" => cur.sig = "APPL_START"
                   /\ k.sig = "DISABLE_APPL_START" => cur.sig = "DISABLE_APPL_START"
  BY <1>1, <1>3, <1>4, <1>5
<1> HIDE DEF N
<1> QED BY <1>1, <1>6, <1>7, <1>8, FlowStep

\* The same message again, with its visit counted perhaps.
LEMMA PassesFlow ==
  ASSUME OwnInv, FlowInv, cur # NoMsg, NEW m, Sends(m),
         m = cur \/ (m = Visited(cur) /\ cur.sig # "COMM_CLOSE"),
         Still, UNCHANGED idVars, waiting' = waiting, ~started'
  PROVE  FlowInv'
<1>1. cur \in Msg /\ cur \in Flight
  BY HandApart
<1>2. m \in Msg /\ m.key = cur.key /\ m.sig = cur.sig /\ m.from = cur.from
  <2>1. Visited(cur) \in Msg /\ Visited(cur).key = cur.key
    BY <1>1, MessageType
  <2>2. Visited(cur).sig = cur.sig /\ Visited(cur).from = cur.from
    BY <1>1 DEF Visited, Msg
  <2> QED BY <1>1, <2>1, <2>2
<1>3. /\ (NoErase => NoErase') /\ (Quiet => Quiet')
      /\ open' = open /\ ackAction' = ackAction /\ seg' = seg
  BY DEF Still, memVars, NoErase, Quiet, idVars, Sends
<1>4. Closing(m, seg) => Closing(cur, seg)
  BY <1>2 DEF Closing
<1>5. Telling(m, seg)'
  <2>1. Telling(cur, seg)
    BY <1>1 DEF FlowInv
  <2> QED BY <1>2, <1>3, <1>4, <2>1 DEF Telling, Closing
<1> QED BY <1>2, <1>3, <1>4, <1>5, SendsFlow

\* A handler that ends the message.
LEMMA EndsFlow ==
  ASSUME OwnInv, FlowInv, cur # NoMsg, cur' = NoMsg, mq' = mq, seg' = seg,
         waiting' = waiting \/ Token(cur, seg), ~started',
         ((NoErase => NoErase') /\ (Quiet => Quiet')) \/ cur.sig \in Asking,
         UNCHANGED idVars
  PROVE  FlowInv'
<1> DEFINE N == {}
<1>1. Flight' \subseteq In(mq) \union N
  BY DEF Flight
<1>2. waiting' = waiting \/ (Token(cur, seg) /\ N = {})
  OBVIOUS
<1>3. \A m \in N : FALSE
  OBVIOUS
<1>4. open' = open /\ ackAction' = ackAction
  BY DEF idVars
<1> HIDE DEF N
<1> QED BY <1>1, <1>2, <1>3, <1>4, FlowStep

\* What S_acknowledge() leaves in the queue: one message more, the acknowledgement, or two.
LEMMA AckFlight ==
  ASSUME OwnInv, cur # NoMsg, NEW lck, KeysIn(mq) \subseteq lck,
         NEW ack, NEW after, NEW freed, Acknowledges(lck, ack, after, freed),
         NEW A, after = <<>> \/ \E m \in A : after = <<m>>
  PROVE  \E a : /\ a.sig = ack.sig /\ a.from = ack.from
                /\ Flight' \subseteq In(mq) \union ({a} \union A)
                /\ \A m \in In(mq) : seg'[m.key] = seg[m.key]
<1>1. mq \in Seq(Msg) /\ cur' = NoMsg /\ \A m \in In(mq) : m.key \in KeysIn(mq)
  BY HandApart DEF Acknowledges
<1> DEFINE Then(q) == IF after = <<>> THEN q ELSE Push(q, Head(after))
<1>2. ASSUME NEW T, NEW q \in Seq(T) PROVE In(Then(q)) \subseteq In(q) \union A
  <2>1. CASE after = <<>>
    BY <2>1
  <2>2. ASSUME NEW m \in A, after = <<m>> PROVE In(Then(q)) \subseteq In(q) \union A
    <3>1. Then(q) = Push(q, m)
      BY <2>2
    <3> QED BY <1>2, <3>1, PushIn
  <2> QED BY <2>1, <2>2
<1>3. CASE mq' = Then(mq) /\ seg' = seg
  <2> DEFINE a == Message(ack.sig, 0, ack.from, "UNKNOWN")
  <2>1. a.sig = ack.sig /\ a.from = ack.from
    BY DEF Message
  <2>2. Flight' \subseteq In(mq) \union A
    <3>1. In(Then(mq)) \subseteq In(mq) \union A
      BY <1>1, <1>2
    <3> HIDE DEF Then
    <3> QED BY <1>1, <1>3, <3>1 DEF Flight
  <2> HIDE DEF a
  <2>3. /\ Flight' \subseteq In(mq) \union ({a} \union A)
        /\ \A m \in In(mq) : seg'[m.key] = seg[m.key]
    BY <1>3, <2>2
  <2> QED BY <2>1, <2>3
<1>4. ASSUME NEW k \in Keys \ lck, NEW c, seg' = [seg EXCEPT ![k] = c],
             mq' = Then(Push(mq, Message(ack.sig, k, ack.from, "UNKNOWN")))
      PROVE  \E a : /\ a.sig = ack.sig /\ a.from = ack.from
                    /\ Flight' \subseteq In(mq) \union ({a} \union A)
                    /\ \A m \in In(mq) : seg'[m.key] = seg[m.key]
  <2> DEFINE a == Message(ack.sig, k, ack.from, "UNKNOWN")
  <2>1. a.sig = ack.sig /\ a.from = ack.from
    BY DEF Message
  <2>2. \A m \in In(mq) : seg'[m.key] = seg[m.key]
    <3>1. \A m \in In(mq) : m.key # k
      BY <1>1
    <3> QED BY <1>4, <3>1
  <2>3. mq \in Seq(Msg \union {a}) /\ a \in Msg \union {a}
    <3> HIDE DEF a
    <3> QED BY <1>1
  <2>4. mq' = Then(Push(mq, a))
    BY <1>4
  <2> HIDE DEF a
  <2>5. Push(mq, a) \in Seq(Msg \union {a}) /\ In(Push(mq, a)) \subseteq In(mq) \union {a}
    BY <2>3, PushIn
  <2>6. In(Then(Push(mq, a))) \subseteq In(mq) \union ({a} \union A)
    BY <1>2, <2>5
  <2> HIDE DEF Then
  <2>7. Flight' \subseteq In(mq) \union ({a} \union A)
    BY <1>1, <2>4, <2>6 DEF Flight
  <2> QED BY <2>1, <2>2, <2>7
<1>5. \/ mq' = Then(mq) /\ seg' = seg
      \/ \E k \in Keys \ lck :
           /\ seg' = [seg EXCEPT ![k] = Content(ack.act, NoArg, ack.reply, <<>>)]
           /\ mq' = Then(Push(mq, Message(ack.sig, k, ack.from, "UNKNOWN")))
  BY DEF Acknowledges
<1> HIDE DEF Then
<1> QED BY <1>3, <1>4, <1>5

\* A handler that acknowledges the request in hand.
LEMMA AckFlow ==
  ASSUME OwnInv, FlowInv, cur # NoMsg, NEW lck, KeysIn(mq) \subseteq lck,
         NEW ack, NEW freed, Acknowledges(lck, ack, <<>>, freed),
         ack.sig = "ID_OUT" \/ (ack.sig = "ISP_OUT" /\ ack.from = Isp),
         Token(cur, seg), waiting' = waiting, ~started', open' = open,
         ackAction' = ackAction \/ ackAction' = "INVALID",
         ((NoErase => NoErase') /\ (Quiet => Quiet')) \/ cur.sig \in Asking
  PROVE  FlowInv'
<1> DEFINE A == {}
<1>1. PICK a : /\ a.sig = ack.sig /\ a.from = ack.from
               /\ Flight' \subseteq In(mq) \union ({a} \union A)
               /\ \A m \in In(mq) : seg'[m.key] = seg[m.key]
  <2>1. <<>> = <<>> \/ \E m \in A : <<>> = <<m>>
    OBVIOUS
  <2> HIDE DEF A
  <2> QED BY <2>1, AckFlight
<1> DEFINE N == {a}
<1>2. Flight' \subseteq In(mq) \union N
  BY <1>1
<1>3. \A m, n \in N : m = n
  OBVIOUS
<1>4. \A m \in N : /\ m.sig \notin Asking /\ m.sig # "APPL_START" /\ m.sig # "DISABLE_APPL_START"
                   /\ ~Closing(m, seg')
                   /\ Telling(m, seg)'
  <2>1. a.sig \in {"ID_OUT", "ISP_OUT"} /\ (a.sig = "ISP_OUT" => a.from = Isp)
    BY <1>1
  <2>2. /\ a.sig \notin Asking /\ a.sig # "APPL_START" /\ a.sig # "DISABLE_APPL_START"
        /\ ~Closing(a, seg')
    BY <2>1 DEF Asking, Closing
  <2>3. Telling(a, seg)'
    BY <2>1 DEF Telling, Closing
  <2> QED BY <2>2, <2>3
<1> HIDE DEF N
<1> QED BY <1>1, <1>2, <1>3, <1>4, FlowStep

-----------------------------------------------------------------------------
\* The end of the session goes straight to the programmer, so nobody else ever sees it.
LEMMA CloseTarget ==
  ASSUME OwnInv, FlowInv, cur # NoMsg, cur.sig = "COMM_CLOSE"
  PROVE  Target(cur) = Isp
<1>1. cur.from = 1 /\ cur.dir = "UP" /\ cur.visits = 0
  BY HandApart DEF FlowInv, Telling, Id
<1>2. (1 + (0 + 1)) % 256 = 2
  OBVIOUS
<1>3. cur.visits + 1 = 0 + 1
  BY <1>1
<1> QED BY <1>1, <1>2, <1>3 DEF Target, Servers, Isp

LEMMA StillQuiet ==
  ASSUME Still
  PROVE  (NoErase => NoErase') /\ (Quiet => Quiet')
BY DEF Still, memVars, NoErase, Quiet

LEMMA CanPhyFlow ==
  ASSUME OwnInv, FlowInv, ReceiveCanPhy
  PROVE  FlowInv'
<1>1. cur # NoMsg /\ ~started /\ started' = started /\ UNCHANGED idVars /\ Still
  BY DEF ReceiveCanPhy, CanPhyOut, CanPhyEnableFilter, CanPhyApplStart, CanPhyOther, At, AtAny, ispVars, Still
<1>2. cur \in Msg /\ cur.dir \in Dirs /\ Toggled(cur.dir) \in Dirs
  BY <1>1, HandApart, MessageType
<1>3. CASE CanPhyOut
  <2>1. cur.sig \in {"ID_OUT", "ISP_OUT"} /\ cur' = NoMsg /\ mq' = mq /\ seg' = seg
    BY <1>3 DEF CanPhyOut, AtAny, Frees
  <2>2. waiting' = waiting \/ Token(cur, seg)
    BY <1>3, <2>1 DEF CanPhyOut, Token
  <2> QED BY <1>1, <2>1, <2>2, StillQuiet, EndsFlow
<1>4. CASE CanPhyEnableFilter /\ Frees
  BY <1>1, <1>4, StillQuiet, EndsFlow DEF CanPhyEnableFilter, Frees, hostVars
<1>5. CASE CanPhyEnableFilter /\ Sends(Resent(cur, "ID_FILTER_ENABLED", CanPhy, Toggled(cur.dir)))
  <2>1. PICK m : m = Resent(cur, "ID_FILTER_ENABLED", CanPhy, Toggled(cur.dir))
    OBVIOUS
  <2>2. m \in Msg /\ m.key = cur.key /\ m.sig = "ID_FILTER_ENABLED"
    <3>1. CanPhy \in Servers /\ "ID_FILTER_ENABLED" \in Signals
      BY DEF Servers, Signals
    <3>2. m \in Msg /\ m.key = cur.key
      BY <1>2, <2>1, <3>1, ResentType
    <3> QED BY <2>1, <3>2 DEF Resent, Message
  <2>3. Telling(m, seg)' /\ ~Closing(m, seg) /\ m.sig \in Asking /\ cur.sig \in Asking
    BY <1>5, <2>2 DEF Telling, Closing, Asking, CanPhyEnableFilter, At
  <2>4. Sends(m) /\ waiting' = waiting
    BY <1>5, <2>1 DEF CanPhyEnableFilter, hostVars
  <2> QED BY <1>1, <2>2, <2>3, <2>4, StillQuiet, SendsFlow DEF idVars
<1>6. CASE CanPhyApplStart
  <2>1. PICK m : m = Visited(cur)
    OBVIOUS
  <2> QED BY <1>1, <1>6, <2>1, PassesFlow DEF CanPhyApplStart, At, hostVars
<1>7. CASE CanPhyOther /\ Frees
  BY <1>1, <1>7, StillQuiet, EndsFlow DEF CanPhyOther, Frees, hostVars
<1>8. CASE CanPhyOther /\ Sends(Visited(cur))
  <2>1. PICK m : m = Visited(cur)
    OBVIOUS
  <2>2. cur.sig # "COMM_CLOSE"
    BY <1>1, <1>8, CloseTarget DEF CanPhyOther, CanPhy, Isp
  <2> QED BY <1>1, <1>8, <2>1, <2>2, PassesFlow DEF CanPhyOther, hostVars
<1> QED BY <1>3, <1>4, <1>5, <1>6, <1>7, <1>8 DEF ReceiveCanPhy, CanPhyEnableFilter, CanPhyOther

LEMMA IdFlow ==
  ASSUME OwnInv, FlowInv, ReceiveId
  PROVE  FlowInv'
<1>1. cur # NoMsg /\ ~started /\ Still /\ waiting' = waiting
  BY DEF ReceiveId, IdClosed, IdApplStart, IdOwn, IdEmpty, IdDelay, IdSelectOpen, IdSelectClose, IdForward,
         IdRequest, IdTrash, IdFilterEnabled, IdOther, At, ispVars, Still, hostVars
<1>2. /\ cur \in Msg /\ cur.dir \in Dirs /\ Toggled(cur.dir) \in Dirs /\ cur \in Flight
      /\ mq \in Seq(Msg) /\ KeysIn(mq) \subseteq locked /\ \A m \in In(mq) : m.key \in KeysIn(mq)
      /\ cur.key \notin KeysIn(mq)
  <2>1. cur.key \notin KeysIn(mq)
    <3>1. Owns(mq, {cur.key} \union Held, locked)
      BY <1>1, Hand
    <3> QED BY <3>1 DEF Owns
  <2> QED BY <1>1, <2>1, HandApart, MessageType
<1>3. cur.sig = "COMM_CLOSE" => Target(cur) # Id
  BY <1>1, CloseTarget DEF Id, Isp
<1>4. (NoErase => NoErase') /\ (Quiet => Quiet')
  BY <1>1, StillQuiet
<1>5. CASE IdClosed
  <2>1. cur.sig = "COMM_CLOSED" /\ cur.sig \in Asking /\ started' = started /\ open' = open
    BY <1>3, <1>5 DEF IdClosed, At, Asking
  <2>2. PICK m : m = ToAppl(cur)
    OBVIOUS
  <2>3. m.sig = "APPL_START"
    BY <2>2 DEF ToAppl, Resent, Message
  <2> DEFINE A == {m}
  <2>4. PICK a : /\ a.sig = "ID_OUT"
                 /\ Flight' \subseteq In(mq) \union ({a} \union A)
                 /\ \A k \in In(mq) : seg'[k.key] = seg[k.key]
    <3>1. Acknowledges(locked, IdAck("OK"), <<m>>, {}) /\ IdAck("OK").sig = "ID_OUT"
      BY <1>5, <2>2 DEF IdClosed, IdAck
    <3>2. \E k \in A : <<m>> = <<k>>
      OBVIOUS
    <3> HIDE DEF A
    <3> QED BY <1>1, <1>2, <3>1, <3>2, AckFlight
  <2>5. Quiet'
    <3>1. Quiet
      BY <1>2, <2>1 DEF FlowInv, Telling
    <3> QED BY <1>4, <3>1
  <2> DEFINE N == {a} \union A
  <2>6. /\ Telling(a, seg)' /\ Telling(m, seg)'
        /\ ~Closing(a, seg') /\ ~Closing(m, seg') /\ ~Token(m, seg')
        /\ a.sig \notin Asking /\ m.sig \notin Asking
    BY <2>3, <2>4, <2>5 DEF Telling, Closing, Token, Asking
  <2>7. Token(cur, seg)
    BY <2>1 DEF Token
  <2>8. ackAction' = "INVALID"
    BY <1>5 DEF IdClosed, AckDone
  <2>9. /\ Flight' \subseteq In(mq) \union N
        /\ \A k, n \in N : Token(k, seg') /\ Token(n, seg') => k = n
        /\ \A k \in N : /\ k.sig \notin Asking /\ ~Closing(k, seg') /\ Telling(k, seg)'
                        /\ k.sig # "DISABLE_APPL_START"
    BY <2>3, <2>4, <2>6
  <2> HIDE DEF N
  <2> QED BY <1>1, <1>4, <2>1, <2>4, <2>7, <2>8, <2>9, FlowStep
<1>6. CASE IdApplStart
  <2>1. Quiet
    BY <1>2, <1>6 DEF IdApplStart, At, FlowInv, Telling
  <2>2. UNCHANGED <<mq, cur, seg, waiting, open, ackAction>> /\ Quiet'
    BY <1>1, <1>4, <1>6, <2>1 DEF IdApplStart, ipcVars, idVars
  <2>3. Flight' = Flight
    BY <2>2 DEF Flight
  <2>4. \A m \in Flight : Telling(m, seg)'
    BY <1>4, <2>2 DEF FlowInv, Telling, Closing
  <2> QED BY <2>2, <2>3, <2>4 DEF FlowInv, Token, Closing
<1>7. CASE IdOwn /\ ackAction # "INVALID"
  <2>1. /\ Acknowledges(locked, IdAck("ERROR"), <<>>, {cur.key}) /\ ackAction' = "INVALID"
        /\ cur.from = Id /\ cur.sig # "APPL_START" /\ open' = open /\ started' = started
    BY <1>7 DEF IdOwn, AckDone, FromOther
  <2>2. cur.sig # "DISABLE_APPL_START" /\ cur.sig # "ISP_OUT"
    BY <1>2, <1>7, <2>1 DEF FlowInv, Telling, Id, Isp
  <2>3. Token(cur, seg)
    BY <1>2, <2>1, <2>2 DEF Token, Asking, Msg, Signals
  <2>4. IdAck("ERROR").sig = "ID_OUT"
    BY DEF IdAck
  <2>5. PICK ack : ack = IdAck("ERROR")
    OBVIOUS
  <2>6. Acknowledges(locked, ack, <<>>, {cur.key}) /\ ack.sig = "ID_OUT"
    BY <2>1, <2>4, <2>5
  <2>7. PICK freed : freed = {cur.key}
    OBVIOUS
  <2> QED BY <1>1, <1>2, <1>4, <2>1, <2>3, <2>6, <2>7, AckFlow
<1>8. CASE (IdOwn /\ Frees /\ UNCHANGED ackAction) \/ IdEmpty \/ IdTrash
  <2>1. cur' = NoMsg /\ mq' = mq /\ seg' = seg /\ started' = started /\ UNCHANGED idVars
    BY <1>8 DEF IdOwn, IdEmpty, IdTrash, Frees, idVars
  <2> QED BY <1>1, <1>4, <2>1, EndsFlow
<1>9. CASE IdDelay
  BY <1>1, <1>9, PassesFlow DEF IdDelay
<1>10. CASE IdOther
  <2>1. PICK m : m = Visited(cur)
    OBVIOUS
  <2>2. cur.sig # "COMM_CLOSE"
    BY <1>3, <1>10 DEF IdOther
  <2> QED BY <1>1, <1>10, <2>1, <2>2, PassesFlow DEF IdOther
<1>11. CASE IdSelectOpen \/ IdSelectClose \/ IdForward
  <2>1. /\ cur.sig = "PHY_IN" /\ cur.sig \in Asking /\ started' = started /\ open' = open
        /\ IdSelectClose => Closing(cur, seg)
    BY <1>11 DEF IdSelectOpen, IdSelectClose, IdForward, IdRequest, At, Asking, Closing, idVars
  <2>2. ackAction' = ackAction \/ \A n \in Flight : n.sig # "DISABLE_APPL_START"
    <3>1. CASE IdSelectOpen
      BY <3>1 DEF IdSelectOpen, FlowInv
    <3>2. CASE IdSelectClose
      BY <1>2, <2>1, <3>2 DEF FlowInv
    <3>3. CASE IdForward
      BY <3>3 DEF IdForward, idVars
    <3> QED BY <1>11, <3>1, <3>2, <3>3
  <2>3. ASSUME NEW m, Sends(m), m \in Msg, m.key = cur.key,
               \/ m.sig \in {"ENABLE_ID_FILTER", "ID_IN"}
               \/ IdSelectClose /\ m.sig = "COMM_CLOSE" /\ m.from = Id /\ m.dir = "UP" /\ m.visits = 0
        PROVE  FlowInv'
    <3>1. m.sig \in Asking /\ (Closing(m, seg) => IdSelectClose)
      BY <2>3 DEF Asking, Closing
    <3>2. Closing(m, seg) => NoErase'
      BY <1>2, <1>4, <2>1, <3>1 DEF FlowInv, Telling
    <3>3. Telling(m, seg)'
      BY <2>3, <3>2 DEF Telling, Closing
    <3> QED BY <1>1, <1>4, <2>1, <2>2, <2>3, <3>1, <3>3, SendsFlow
  <2>4. "ENABLE_ID_FILTER" \in Signals /\ "COMM_CLOSE" \in Signals /\ "ID_IN" \in Signals
        /\ "UP" \in Dirs /\ Id \in Servers
    BY DEF Signals, Dirs, Servers
  <2>5. \A sig \in Signals, dir \in Dirs :
          LET m == Resent(cur, sig, Id, dir)
          IN  /\ m \in Msg /\ m.key = cur.key
              /\ m.sig = sig /\ m.from = Id /\ m.dir = dir /\ m.visits = 0
    <3> TAKE sig \in Signals, dir \in Dirs
    <3>1. Resent(cur, sig, Id, dir) \in Msg /\ Resent(cur, sig, Id, dir).key = cur.key
      BY <1>2, <2>4, ResentType
    <3> QED BY <3>1 DEF Resent, Message
  <2>6. CASE IdSelectOpen
    <3>1. PICK m : m = Resent(cur, "ENABLE_ID_FILTER", Id, Toggled(cur.dir))
      OBVIOUS
    <3> QED BY <1>2, <2>3, <2>4, <2>5, <2>6, <3>1 DEF IdSelectOpen
  <2>7. CASE IdSelectClose
    <3>1. PICK m : m = Resent(cur, "COMM_CLOSE", Id, "UP")
      OBVIOUS
    <3> QED BY <2>3, <2>4, <2>5, <2>7, <3>1 DEF IdSelectClose
  <2>8. CASE IdForward
    <3>1. PICK m : m = Resent(cur, "ID_IN", Id, cur.dir)
      OBVIOUS
    <3> QED BY <1>2, <2>3, <2>4, <2>5, <2>8, <3>1 DEF IdForward
  <2> QED BY <1>11, <2>6, <2>7, <2>8
<1>12. CASE IdFilterEnabled
  <2>1. /\ cur.sig = "ID_FILTER_ENABLED" /\ cur.sig \in Asking /\ started' = started
        /\ open' = TRUE /\ ackAction' = "INVALID" /\ cur' = NoMsg
    BY <1>12 DEF IdFilterEnabled, At, Asking, AckDone
  <2>2. PICK d : d = Message("DISABLE_APPL_START", cur.key, Id, "UNKNOWN")
    OBVIOUS
  <2>3. d \in Msg /\ d.sig = "DISABLE_APPL_START"
    <3>1. "DISABLE_APPL_START" \in Signals /\ Id \in Servers /\ "UNKNOWN" \in Dirs /\ cur.key \in Keys
      BY <1>2 DEF Signals, Servers, Dirs, Msg
    <3>2. d \in Msg
      BY <2>2, <3>1, MessageType
    <3> QED BY <2>2, <3>2 DEF Message
  <2>4. PICK a : /\ a.sig = "ID_OUT"
                 /\ Flight' \subseteq In(mq) \union {a, d}
                 /\ \A k \in In(mq) : seg'[k.key] = seg[k.key]
    <3> DEFINE q == Push(mq, d)
    <3>1. q \in Seq(Msg) /\ In(q) \subseteq In(mq) \union {d}
      BY <1>2, <2>3, PushIn
    <3>2. CASE mq' = q /\ UNCHANGED <<locked, seg>>
      <4>1. PICK a : a = Message("ID_OUT", cur.key, Id, "UNKNOWN")
        OBVIOUS
      <4>2. a.sig = "ID_OUT"
        BY <4>1 DEF Message
      <4>3. Flight' \subseteq In(mq) \union {a, d}
        BY <2>1, <3>1, <3>2 DEF Flight
      <4> QED BY <3>2, <4>2, <4>3
    <3>3. ASSUME NEW k \in Keys \ locked, seg' = [seg EXCEPT ![k] = Content(ackAction, NoArg, "OK", <<>>)],
                 mq' = Push(q, Message("ID_OUT", k, Id, "UNKNOWN"))
          PROVE  \E e : /\ e.sig = "ID_OUT"
                        /\ Flight' \subseteq In(mq) \union {e, d}
                        /\ \A j \in In(mq) : seg'[j.key] = seg[j.key]
      <4>1. PICK e : e = Message("ID_OUT", k, Id, "UNKNOWN")
        OBVIOUS
      <4>2. e.sig = "ID_OUT"
        BY <4>1 DEF Message
      <4> HIDE DEF q
      <4>3. In(Push(q, e)) \subseteq In(q) \union {e}
        BY <3>1, PushIn
      <4>4. Flight' \subseteq In(mq) \union {e, d}
        BY <2>1, <3>1, <3>3, <4>1, <4>3 DEF Flight
      <4>5. \A j \in In(mq) : j.key # k
        BY <1>2
      <4> QED BY <3>3, <4>2, <4>4, <4>5
    <3>4. \/ mq' = q /\ UNCHANGED <<locked, seg>>
          \/ \E k \in Keys \ locked :
               /\ seg' = [seg EXCEPT ![k] = Content(ackAction, NoArg, "OK", <<>>)]
               /\ mq' = Push(q, Message("ID_OUT", k, Id, "UNKNOWN"))
      BY <1>12, <2>2 DEF IdFilterEnabled
    <3> HIDE DEF q
    <3> QED BY <3>2, <3>3, <3>4
  <2> DEFINE N == {a, d}
  <2>5. /\ Telling(a, seg)' /\ Telling(d, seg)'
        /\ ~Closing(a, seg') /\ ~Closing(d, seg') /\ ~Token(d, seg')
        /\ a.sig \notin Asking /\ d.sig \notin Asking
    BY <2>3, <2>4 DEF Telling, Closing, Token, Asking
  <2>6. Token(cur, seg)
    BY <2>1 DEF Token
  <2>7. /\ Flight' \subseteq In(mq) \union N
        /\ \A k, n \in N : Token(k, seg') /\ Token(n, seg') => k = n
        /\ \A k \in N : /\ k.sig \notin Asking /\ ~Closing(k, seg') /\ Telling(k, seg)'
                        /\ k.sig # "APPL_START"
    BY <2>3, <2>4, <2>5
  <2> HIDE DEF N
  <2> QED BY <1>1, <1>4, <2>1, <2>4, <2>6, <2>7, FlowStep
<1> QED BY <1>5, <1>6, <1>7, <1>8, <1>9, <1>10, <1>11, <1>12 DEF ReceiveId, IdOwn

\* A request the programmer carries out: it is put back behind a job or a part of a read, it
\* ends, or it is acknowledged.
LEMMA IspWithFlow ==
  ASSUME OwnInv, BufferInv, JobInv, FlowInv, NEW b, NEW lck, IspWith(b, lck)
  PROVE  FlowInv'
<1>1. cur # NoMsg /\ cur.sig = "ID_IN" /\ WithBuffer(b, lck) /\ ~started
  BY DEF IspWith, IspFlush, IspShort, IspMemSelect, IspAddr, IspFullErase, IspWrite, IspReadPart, IspReadDone,
         IspInvalid, IspRequest, At
<1>2. started' = started /\ waiting' = waiting /\ open' = open /\ ackAction' = ackAction /\ UNCHANGED idVars
  BY DEF IspWith, IspFlush, IspShort, IspMemSelect, IspAddr, IspFullErase, IspWrite, IspReadPart, IspReadDone,
         IspInvalid, idVars, hostVars
<1>3. cur.sig \in Asking /\ Token(cur, seg) /\ ~Closing(cur, seg)
  BY <1>1 DEF Asking, Token, Closing
<1>4. /\ mq \in Seq(Msg) /\ KeysIn(mq) \subseteq lck /\ KeysIn(mq) \subseteq lck \ {cur.key}
      /\ b \notin KeysIn(mq) /\ cur.key # b /\ cur.key \in Keys
      /\ \A m \in In(mq) : m.key \in KeysIn(mq)
  <2>1. Owns(mq, {cur.key, b}, lck) /\ cur.key # b /\ cur.key \in Keys
    BY <1>1, BufferOwned, Hand
  <2> QED BY <1>1, <2>1, HandApart DEF Owns
<1>5. Telling(cur, seg)
  BY <1>1, HandApart DEF FlowInv
<1>6. ASSUME NEW m, m = cur PROVE Telling(m, seg)' /\ ~Closing(m, seg')
  BY <1>1, <1>6 DEF Telling, Closing
<1>7. ASSUME NEW L, KeysIn(mq) \subseteq L, NEW reply, NEW freed,
             Acknowledges(L, IspAck(reply), <<>>, freed)
      PROVE  FlowInv'
  <2>1. PICK ack : ack = IspAck(reply)
    OBVIOUS
  <2>2. ack.sig = "ISP_OUT" /\ ack.from = Isp /\ Acknowledges(L, ack, <<>>, freed)
    BY <1>7, <2>1 DEF IspAck
  <2> QED BY <1>1, <1>2, <1>3, <1>7, <2>2, AckFlow
<1>8. CASE IspFlush(b, lck)
  <2>1. mq' = Push(mq, cur) /\ cur' = NoMsg /\ seg' = seg
    <3>1. ~DriverBusy
      BY <1>1, DriverReady DEF WithBuffer
    <3> QED BY <1>8, <3>1 DEF IspFlush
  <2>2. PICK m : m = cur
    OBVIOUS
  <2> DEFINE N == {m}
  <2>3. Flight' \subseteq In(mq) \union N
    <3>1. In(Push(mq, m)) \subseteq In(mq) \union {m}
      BY <1>4, PushIn
    <3> QED BY <2>1, <2>2, <3>1 DEF Flight
  <2>4. /\ \A k, n \in N : k = n
        /\ \A k \in N : /\ k.sig = "ID_IN" /\ Telling(k, seg)' /\ ~Closing(k, seg')
    BY <1>1, <1>6, <2>2
  <2> HIDE DEF N
  <2> QED BY <1>1, <1>2, <1>3, <2>1, <2>3, <2>4, FlowStep
<1>9. CASE IspShort(b, lck) \/ IspInvalid(b, lck)
  <2>1. cur' = NoMsg /\ mq' = mq /\ seg' = seg
    BY <1>9 DEF IspShort, IspInvalid
  <2> QED BY <1>1, <1>2, <1>3, <2>1, EndsFlow
<1>10. CASE IspMemSelect(b, lck) \/ IspAddr(b, lck) \/ IspFullErase(b, lck) \/ IspWrite(b, lck)
  BY <1>4, <1>7, <1>10 DEF IspMemSelect, IspAddr, IspFullErase, IspWrite
<1>11. CASE IspReadDone(b, lck)
  BY <1>4, <1>7, <1>11 DEF IspReadDone
<1>12. CASE IspReadPart(b, lck)
  <2> DEFINE size == ChunkSize(Request.arg - addr)
  <2>1. PICK d : /\ seg' = [seg EXCEPT ![b] = Content("READ", addr, "NONE", d)]
                 /\ DOMAIN d = 1..size
    <3>1. PICK d : d = [i \in 1..size |-> IF area = "FLASH" THEN flash[(addr + i - 1) % FlashSize]
                                                           ELSE eeprom[(addr + i - 1) % EepromSize]]
      OBVIOUS
    <3>2. DOMAIN d = 1..size
      BY <3>1
    <3>3. seg' = [seg EXCEPT ![b] = Content("READ", addr, "NONE", d)]
      BY <1>12, <3>1, Zenon DEF IspReadPart
    <3> QED BY <3>2, <3>3
  <2>2. d # <<>>
    <3>1. addr \in Nat /\ Request.arg \in Int
      BY <1>4, NoArgType DEF BufferInv, SegInv, Request
    <3>2. Request.arg - addr \in Int
      BY <3>1
    <3>3. size \in Nat /\ size >= 1
      BY <3>2, ChunkType
    <3>4. 1 \in DOMAIN d
      BY <2>1, <3>3
    <3>5. DOMAIN <<>> = {}
      OBVIOUS
    <3> QED BY <3>4, <3>5
  <2>3. PICK p, m : p = Message("ISP_OUT", b, Isp, "DOWN") /\ m = cur
    OBVIOUS
  <2>4. p.sig = "ISP_OUT" /\ p.key = b /\ p.from = Isp
    BY <2>3 DEF Message
  <2>5. mq' = Push(Push(mq, p), m) /\ cur' = NoMsg
    BY <1>12, <2>3 DEF IspReadPart
  <2> HIDE DEF size
  <2>6. b \in DOMAIN seg
    <3>1. b \in Keys
      BY <1>1, BufferOwned
    <3> QED BY <3>1 DEF BufferInv, SegInv
  <2>7. seg'[b].data = d /\ ~Token(p, seg')
    <3>1. seg'[b] = Content("READ", addr, "NONE", d)
      BY <2>1, <2>6
    <3>2. seg'[b].data = d
      BY <3>1 DEF Content
    <3> QED BY <2>2, <2>4, <3>2 DEF Token, Asking
  <2>8. \A k \in In(mq) : seg'[k.key] = seg[k.key]
    <3>1. \A k \in In(mq) : k.key # b
      BY <1>4
    <3> QED BY <2>1, <3>1
  <2> DEFINE N == {p, m}
  <2>9. Flight' \subseteq In(mq) \union N
    <3>1. mq \in Seq(Msg \union {p}) /\ p \in Msg \union {p}
      BY <1>4
    <3>2. Push(mq, p) \in Seq(Msg \union {p}) /\ In(Push(mq, p)) \subseteq In(mq) \union {p}
      BY <3>1, PushIn
    <3>3. In(Push(Push(mq, p), m)) \subseteq In(Push(mq, p)) \union {m}
      BY <3>2, PushIn
    <3> QED BY <2>5, <3>2, <3>3 DEF Flight
  <2>10. Telling(p, seg)' /\ ~Closing(p, seg') /\ p.sig \notin Asking
    BY <2>4 DEF Telling, Closing, Asking
  <2>11. Telling(m, seg)' /\ ~Closing(m, seg') /\ m.sig = "ID_IN"
    BY <1>1, <1>6, <2>3
  <2>12. /\ \A k, n \in N : Token(k, seg') /\ Token(n, seg') => k = n
         /\ \A k \in N : /\ Telling(k, seg)' /\ ~Closing(k, seg') /\ k.sig # "APPL_START"
                         /\ k.sig # "DISABLE_APPL_START"
    BY <2>4, <2>7, <2>10, <2>11
  <2> HIDE DEF N
  <2> QED BY <1>1, <1>2, <1>3, <2>8, <2>9, <2>12, FlowStep
<1> QED BY <1>8, <1>9, <1>10, <1>11, <1>12 DEF IspWith

\* The end of the session waits for the buffer, and finds no job when it is empty: an erase
\* cannot run, and a write has bytes in the buffer.
LEMMA IspFlow ==
  ASSUME OwnInv, BufferInv, JobInv, FlowInv, ReceiveIsp
  PROVE  FlowInv'
<1>1. CASE \E b \in Keys : IspWith(b, IF ispBuffer = None THEN locked \union {b} ELSE locked)
  BY <1>1, IspWithFlow
<1>2. CASE IspDelay \/ IspCloseWait
  <2>1. /\ cur # NoMsg /\ Sends(cur) /\ Still /\ UNCHANGED idVars /\ waiting' = waiting
        /\ ~started /\ started' = started
    BY <1>2 DEF IspDelay, IspCloseWait, At, ispVars, Still, hostVars
  <2> QED BY <2>1, PassesFlow
<1>3. CASE IspOther
  <2>1. /\ cur # NoMsg /\ Still /\ UNCHANGED idVars /\ waiting' = waiting
        /\ ~started /\ started' = started /\ cur.sig # "COMM_CLOSE"
    BY <1>3 DEF IspOther, ispVars, Still, hostVars
  <2>2. CASE Frees
    BY <2>1, <2>2, StillQuiet, EndsFlow DEF Frees
  <2>3. CASE Sends(Visited(cur))
    <3>1. PICK m : m = Visited(cur)
      OBVIOUS
    <3> QED BY <2>1, <2>3, <3>1, PassesFlow
  <2> QED BY <1>3, <2>2, <2>3 DEF IspOther
<1>4. CASE IspNoBuffer
  <2>1. /\ cur # NoMsg /\ cur.sig \in Asking /\ ~started /\ started' = started /\ waiting' = waiting
        /\ open' = open /\ ackAction' = ackAction
    BY <1>4 DEF IspNoBuffer, At, Asking, idVars, hostVars
  <2>2. PICK L : L = locked \ {cur.key}
    OBVIOUS
  <2>3. KeysIn(mq) \subseteq L
    <3>1. Owns(mq, {cur.key} \union Held, locked)
      BY <2>1, Hand
    <3> QED BY <2>2, <3>1 DEF Owns
  <2>4. PICK ack : ack = IspAck("ERROR")
    OBVIOUS
  <2>5. Acknowledges(L, ack, <<>>, {}) /\ ack.sig = "ISP_OUT" /\ ack.from = Isp
    BY <1>4, <2>2, <2>4 DEF IspNoBuffer, IspAck
  <2>6. Token(cur, seg)
    BY <2>1 DEF Token
  <2>7. PICK freed : freed = {}
    OBVIOUS
  <2> QED BY <2>1, <2>3, <2>5, <2>6, <2>7, AckFlow
<1>5. CASE IspCloseFlush \/ IspClosed
  <2>1. /\ cur # NoMsg /\ cur.sig = "COMM_CLOSE" /\ cur.sig \in Asking /\ ~started /\ started' = started
        /\ waiting' = waiting /\ UNCHANGED idVars /\ open' = open /\ ackAction' = ackAction
    BY <1>5 DEF IspCloseFlush, IspClosed, At, Asking, idVars, hostVars
  <2>2. cur \in Msg /\ Telling(cur, seg) /\ Closing(cur, seg) /\ Toggled(cur.dir) \in Dirs
    BY <2>1, HandApart, MessageType DEF FlowInv, Closing
  <2>3. NoErase
    BY <2>2 DEF Telling
  <2>4. CASE IspCloseFlush
    <3>1. NoErase'
      <4>1. WriteAsync
        BY <2>4 DEF IspCloseFlush
      <4>2. (spm'.cb = "write" /\ ee' = ee) \/ (ee'.cb = "write" /\ spm' = spm)
        <5>1. CASE area = "FLASH"
          <6>1. spm' = [cb |-> "write", handler |-> "load", dest |-> addr, tmp |-> PageOf(addr) * PageSize,
                        fill |-> 0, buffer |-> ispData] /\ ee' = ee
            BY <4>1, <5>1 DEF WriteAsync, FlashWriteAsync
          <6> QED BY <6>1
        <5>2. CASE area # "FLASH"
          <6>1. ee' = [cb |-> "write", addr |-> addr, dest |-> addr + Len(ispData) - 1,
                       buffer |-> ispData] /\ spm' = spm
            BY <4>1, <5>2 DEF WriteAsync, EepromWriteAsync
          <6> QED BY <6>1
        <5> QED BY <5>1, <5>2
      <4> QED BY <2>3, <4>2 DEF NoErase
    <3>2. PICK m : m = cur
      OBVIOUS
    <3>3. Sends(m)
      BY <2>4, <3>2 DEF IspCloseFlush
    <3>4. Telling(m, seg)'
      BY <2>1, <2>2, <3>1, <3>2 DEF Telling
    <3> QED BY <2>1, <2>2, <3>2, <3>3, <3>4, SendsFlow
  <2>5. CASE IspClosed
    <3>1. Quiet'
      <4>1. ispData = <<>> /\ ispData' = ispData /\ inProgress' = inProgress
        BY <2>5 DEF IspClosed, ispVars
      <4>2. ~inProgress
        BY <2>3, <4>1 DEF JobInv, NoErase, FlashBusy, EepromBusy, Jobs
      <4> QED BY <4>1, <4>2 DEF Quiet
    <3>2. PICK m : m = Resent(cur, "COMM_CLOSED", Isp, Toggled(cur.dir))
      OBVIOUS
    <3>3. m \in Msg /\ m.key = cur.key /\ m.sig = "COMM_CLOSED"
      <4>1. Isp \in Servers /\ "COMM_CLOSED" \in Signals
        BY DEF Servers, Signals
      <4>2. m \in Msg /\ m.key = cur.key
        BY <2>2, <3>2, <4>1, ResentType
      <4> QED BY <3>2, <4>2 DEF Resent, Message
    <3>4. Sends(m)
      BY <2>5, <3>2 DEF IspClosed
    <3>5. Telling(m, seg)' /\ ~Closing(m, seg) /\ m.sig \in Asking
      BY <3>1, <3>3 DEF Telling, Closing, Asking
    <3> QED BY <2>1, <2>2, <3>3, <3>4, <3>5, SendsFlow
  <2> QED BY <1>5, <2>4, <2>5
<1> QED BY <1>1, <1>2, <1>3, <1>4, <1>5 DEF ReceiveIsp

\* The interrupts end jobs and begin none.
LEMMA InterruptFlow ==
  ASSUME OwnInv, JobInv, FlowInv, Interrupt
  PROVE  FlowInv'
<1>1. UNCHANGED <<mq, cur, seg, waiting, open, ackAction, started>>
  BY DEF Interrupt, SpmInterrupt, SpmInterruptExit, EeInterrupt, EeInterruptExit, WriteComplete,
         EraseComplete, ipcVars, idVars, hostVars
<1>2. (NoErase => NoErase') /\ (Quiet => Quiet')
  <2>1. CASE SpmInterrupt
    <3>1. spm'.cb = spm.cb /\ ee' = ee
      BY <2>1, SpmStepJobs DEF SpmInterrupt
    <3> QED BY <2>1, <3>1 DEF SpmInterrupt, ispVars, NoErase, Quiet
  <2>2. CASE EeInterrupt
    <3>1. \E a, b : ee' = [ee EXCEPT !.addr = a, !.buffer = b] /\ spm' = spm
      BY <2>2 DEF EeInterrupt, EeStep
    <3>2. ee'.cb = ee.cb
      BY <3>1 DEF JobInv, EeFields
    <3> QED BY <2>2, <3>1, <3>2 DEF EeInterrupt, ispVars, NoErase, Quiet
  <2>3. CASE SpmInterruptExit \/ EeInterruptExit
    <3>1. \/ spm' = [spm EXCEPT !.cb = "none"] /\ ee' = ee
          \/ ee' = [ee EXCEPT !.cb = "none"] /\ spm' = spm
      BY <2>3 DEF SpmInterruptExit, SpmExit, EeInterruptExit, EeExit
    <3>2. NoErase => NoErase'
      BY <3>1 DEF JobInv, SpmFields, EeFields, NoErase
    <3>3. Quiet => Quiet'
      BY <2>3 DEF SpmInterruptExit, EeInterruptExit, WriteComplete, EraseComplete, Quiet
    <3> QED BY <3>2, <3>3
  <2> QED BY <2>1, <2>2, <2>3 DEF Interrupt
<1>3. Flight' = Flight
  BY <1>1 DEF Flight
<1>4. \A m \in Flight : Telling(m, seg)'
  BY <1>1, <1>2 DEF FlowInv, Telling, Closing
<1> QED BY <1>1, <1>2, <1>3, <1>4 DEF FlowInv, Token, Closing

\* The kernel takes a message: it is under way as before.
LEMMA PopFlow ==
  ASSUME OwnInv, FlowInv, Pop
  PROVE  FlowInv'
<1>1. /\ mq # <<>> /\ cur' = Head(mq) /\ mq' = Tail(mq) /\ cur = NoMsg
      /\ UNCHANGED <<seg, waiting, open, ackAction, started, spm, ee, ispData, inProgress>>
  BY DEF Pop, memVars, idVars, ispVars, hostVars
<1>2. Flight' \subseteq Flight
  <2>1. mq \in Seq(Msg)
    BY DEF OwnInv, Owns
  <2>2. /\ Head(mq) = mq[1] /\ 1 \in DOMAIN mq /\ Len(mq) \in Nat /\ DOMAIN mq = 1..Len(mq)
        /\ DOMAIN Tail(mq) = 1..(Len(mq) - 1)
        /\ \A i \in 1..(Len(mq) - 1) : Tail(mq)[i] = mq[i + 1]
    BY <1>1, <2>1
  <2>3. In(Tail(mq)) \subseteq In(mq)
    <3> SUFFICES ASSUME NEW i \in 1..(Len(mq) - 1) PROVE Tail(mq)[i] \in In(mq)
      BY <2>2 DEF In
    <3>1. i + 1 \in DOMAIN mq
      BY <2>2
    <3> QED BY <2>2, <3>1 DEF In
  <2>4. Head(mq) \in In(mq)
    BY <2>2 DEF In
  <2> QED BY <1>1, <2>3, <2>4 DEF Flight
<1>3. NoErase' = NoErase /\ Quiet' = Quiet
  BY <1>1 DEF NoErase, Quiet
<1>4. \A m \in Flight : Telling(m, seg)'
  BY <1>1, <1>3 DEF FlowInv, Telling, Closing
<1> QED BY <1>1, <1>2, <1>3, <1>4 DEF FlowInv, Token, Closing

\* A host with one request under way sends its next one when no server works on one: a frame
\* comes between two messages, never into receive().
LEMMA SilentHost ==
  ASSUME HostInv, FlowInv, Window = 1, NEW r, HostRequests(r)
  PROVE  waiting = <<>> /\ CanIrqReceive(r)
<1>1. waiting = <<>>
  <2>1. Len(waiting) < 1 /\ waiting \in Seq(Waited)
    BY DEF HostRequests, HostInv
  <2> QED BY <2>1
<1>2. ~FrameDuringReceive(r)
  <2> SUFFICES ASSUME FrameDuringReceive(r) PROVE FALSE
    OBVIOUS
  <2>1. cur # NoMsg /\ cur.sig = "ID_IN"
    BY DEF FrameDuringReceive, FrameInNoBuffer, FrameInReadDone, IspRequest, At
  <2>2. cur \in Flight /\ Token(cur, seg)
    BY <2>1 DEF Flight, Token, Asking
  <2> QED BY <1>1, <2>2 DEF FlowInv
<1> QED BY <1>1, <1>2 DEF HostRequests

-----------------------------------------------------------------------------
\* A host that waits for its answers and is careful with the end of the session.
LEMMA HostFlow ==
  ASSUME OwnInv, BufferInv, HostInv, FlowInv, Window = 1, NEW r \in Requests, HostRequests(r)
  PROVE  FlowInv'
<1>1. /\ Careful(r) /\ CanIrqReceive(r) /\ ~started /\ started' = started
      /\ UNCHANGED <<cur, open, ackAction, spm, ee, ispData, inProgress>>
  BY SilentHost DEF HostRequests, CanIrqReceive, memVars, idVars, ispVars
<1>2. waiting = <<>> /\ waiting' # <<>>
  <2>1. Len(waiting) < 1 /\ waiting' = Append(waiting, Asked(r)) /\ waiting \in Seq(Waited)
    BY DEF HostRequests, HostInv
  <2>2. Len(waiting) \in Nat /\ waiting = <<>>
    BY <2>1
  <2>3. Append(<<>>, Asked(r)) # <<>>
    OBVIOUS
  <2> QED BY <2>1, <2>2, <2>3
<1>3. \A m \in Flight : ~Token(m, seg) /\ m.sig \notin Asking /\ ~Closing(m, seg)
  BY <1>2 DEF FlowInv, Token, Closing, Asking
<1>4. \A m \in Flight : m.sig # "APPL_START"
  BY <1>1 DEF Careful, Travelling, Flight, In
<1>5. r.act = "SELECT_CLOSE" => NoErase /\ \A m \in Flight : m.sig # "DISABLE_APPL_START"
  BY <1>1 DEF Careful, Travelling, Flight, In, NoErase
<1>6. (NoErase => NoErase') /\ (Quiet => Quiet')
  BY <1>1 DEF NoErase, Quiet
<1>7. CASE UNCHANGED <<mq, locked, seg>>
  <2>1. Flight' = Flight
    BY <1>1, <1>7 DEF Flight
  <2>2. \A m \in Flight : Telling(m, seg)'
    BY <1>6, <1>7 DEF FlowInv, Telling, Closing
  <2> QED BY <1>1, <1>2, <1>7, <2>1, <2>2 DEF FlowInv, Token, Closing
<1>8. ASSUME NEW k \in Keys \ locked, seg' = [seg EXCEPT ![k] = Content(r.act, r.arg, "NONE", r.data)],
             mq' = Push(mq, Message("PHY_IN", k, CanPhy, "UP"))
      PROVE  FlowInv'
  <2>1. PICK p : p = Message("PHY_IN", k, CanPhy, "UP")
    OBVIOUS
  <2>2. p.sig = "PHY_IN" /\ p.key = k
    BY <2>1 DEF Message
  <2>3. Flight' \subseteq Flight \union {p}
    <3>1. mq \in Seq(Msg)
      BY DEF OwnInv, Owns
    <3>2. In(Push(mq, p)) \subseteq In(mq) \union {p}
      BY <3>1, PushIn
    <3> QED BY <1>1, <1>8, <2>1, <3>2 DEF Flight
  <2>4. \A m \in Flight : m.key # k
    <3>1. KeysIn(mq) \subseteq locked /\ InHand \subseteq locked
      BY DEF OwnInv, Owns
    <3> QED BY <3>1 DEF Flight, In, KeysIn, InHand
  <2>5. (\A m \in Flight : seg'[m.key] = seg[m.key]) /\ seg'[k].act = r.act
    <3>1. k \in DOMAIN seg
      BY DEF BufferInv, SegInv
    <3>2. seg'[k] = Content(r.act, r.arg, "NONE", r.data)
      BY <1>8, <3>1
    <3> QED BY <1>8, <2>4, <3>2 DEF Content
  <2>6. \A m \in Flight : ~Token(m, seg') /\ ~Closing(m, seg') /\ m.sig \notin Asking
    BY <1>3, <2>5 DEF Token, Closing
  <2>7. Closing(p, seg') => NoErase' /\ \A m \in Flight : m.sig # "DISABLE_APPL_START"
    BY <1>5, <1>6, <2>2, <2>5 DEF Closing
  <2>8. Telling(p, seg)'
    BY <2>2, <2>7 DEF Telling
  <2>9. \A m \in Flight : Telling(m, seg)'
    BY <1>6, <2>6 DEF FlowInv, Telling
  <2>10. \A m, n \in Flight' : Token(m, seg') /\ Token(n, seg') => m = n
    BY <2>3, <2>6
  <2>11. \A m \in Flight' : Telling(m, seg)'
    BY <2>3, <2>8, <2>9
  <2>12. \A m \in Flight' : m.sig # "APPL_START"
    BY <1>4, <2>2, <2>3
  <2>13. \A m, n \in Flight' : m.sig = "DISABLE_APPL_START" =>
           open' /\ ackAction' = "INVALID" /\ ~Closing(n, seg')
    <3>1. \A m \in Flight : m.sig = "DISABLE_APPL_START" => open /\ ackAction = "INVALID"
      BY DEF FlowInv
    <3> QED BY <1>1, <2>2, <2>3, <2>6, <2>7, <3>1
  <2> QED BY <1>1, <1>2, <2>10, <2>11, <2>12, <2>13 DEF FlowInv
<1> QED BY <1>1, <1>7, <1>8 DEF CanIrqReceive

LEMMA InitFlow == Init => HostInv /\ FlowInv
<1> SUFFICES ASSUME Init PROVE HostInv /\ FlowInv
  OBVIOUS
<1>1. mq = <<>> /\ cur = NoMsg /\ ~started /\ open = FALSE /\ waiting = <<>>
  BY DEF Init
<1>2. Flight = {}
  BY <1>1 DEF Flight, In
<1>3. <<>> \in Seq(Waited)
  OBVIOUS
<1> QED BY <1>1, <1>2, <1>3 DEF HostInv, FlowInv

LEMMA NextHost == HostInv /\ [Next]_vars => HostInv'
<1> SUFFICES ASSUME HostInv, [Next]_vars PROVE HostInv'
  OBVIOUS
<1>1. CASE \E r \in Requests : HostRequests(r)
  <2>1. PICK r \in Requests : HostRequests(r)
    BY <1>1
  <2>2. Asked(r) \in Waited /\ waiting \in Seq(Waited)
    BY DEF Asked, Waited, HostInv
  <2>3. Append(waiting, Asked(r)) \in Seq(Waited)
    BY <2>2
  <2> QED BY <2>1, <2>3 DEF HostRequests, CanIrqReceive, FrameDuringReceive, idVars, HostInv
<1>2. CASE CanPhyOut
  <2>1. waiting \in Seq(Waited) /\ (waiting # <<>> => Tail(waiting) \in Seq(Waited))
    BY DEF HostInv
  <2> QED BY <1>2, <2>1 DEF CanPhyOut, idVars, HostInv
<1>3. CASE HostGivesUp
  BY <1>3 DEF HostGivesUp, HostInv, idVars
<1>4. CASE ReceiveId \/ CanPhyEnableFilter \/ CanPhyApplStart \/ CanPhyOther
  <2>1. waiting' = waiting
    BY <1>4 DEF ReceiveId, IdClosed, IdApplStart, IdOwn, IdEmpty, IdDelay, IdSelectOpen, IdSelectClose,
                IdForward, IdTrash, IdFilterEnabled, IdOther, CanPhyEnableFilter, CanPhyApplStart,
                CanPhyOther, hostVars
  <2>2. open' = open \/ open' = TRUE
    BY <1>4 DEF ReceiveId, IdClosed, IdApplStart, IdOwn, IdEmpty, IdDelay, IdSelectOpen, IdSelectClose,
                IdForward, IdTrash, IdFilterEnabled, IdOther, CanPhyEnableFilter, CanPhyApplStart,
                CanPhyOther, idVars
  <2> QED BY <2>1, <2>2 DEF HostInv
<1>5. CASE ReceiveIsp
  BY <1>5 DEF ReceiveIsp, IspDelay, IspNoBuffer, IspWith, IspFlush, IspShort, IspMemSelect, IspAddr,
              IspFullErase, IspWrite, IspReadPart, IspReadDone, IspInvalid, IspCloseFlush, IspCloseWait,
              IspClosed, IspOther, idVars, hostVars, HostInv
<1>6. CASE Pop \/ Interrupt \/ UNCHANGED vars
  BY <1>6 DEF Pop, Interrupt, SpmInterrupt, SpmInterruptExit, EeInterrupt, EeInterruptExit, WriteComplete,
              EraseComplete, vars, idVars, hostVars, HostInv
<1> QED BY <1>1, <1>2, <1>3, <1>4, <1>5, <1>6 DEF Next, Receive, ReceiveCanPhy

LEMMA NextFlow ==
  ASSUME Window = 1, OwnInv, BufferInv, JobInv, HostInv, FlowInv, [Next]_vars
  PROVE  FlowInv'
<1>1. CASE Pop
  BY <1>1, PopFlow
<1>2. CASE Receive
  BY <1>2, CanPhyFlow, IdFlow, IspFlow DEF Receive
<1>3. CASE Interrupt
  BY <1>3, InterruptFlow
<1>4. ASSUME NEW r \in Requests, HostRequests(r) PROVE FlowInv'
  BY <1>4, HostFlow
<1>5. CASE HostGivesUp
  <2>1. mq' = <<>> /\ cur' = NoMsg /\ ~started'
    BY <1>5 DEF HostGivesUp, Idle, ipcVars
  <2>2. Flight' = {}
    BY <2>1 DEF Flight, In
  <2> QED BY <2>1, <2>2 DEF FlowInv
<1>6. CASE UNCHANGED vars
  <2>1. UNCHANGED <<mq, cur, seg, waiting, open, ackAction, started, spm, ee, ispData, inProgress>>
    BY <1>6 DEF vars, memVars, ipcVars, idVars, ispVars, hostVars
  <2>2. Flight' = Flight
    BY <2>1 DEF Flight
  <2>3. \A m \in Flight : Telling(m, seg)'
    BY <2>1 DEF FlowInv, Telling, Closing, NoErase, Quiet
  <2>4. started' => Quiet'
    BY <2>1 DEF FlowInv, Quiet
  <2> QED BY <2>1, <2>2, <2>3, <2>4 DEF FlowInv, Token, Closing
<1> QED BY <1>1, <1>2, <1>3, <1>4, <1>5, <1>6 DEF Next

\* A host that has one request under way at a time, and does not close the session over an
\* erase or over the messages of its opening, never has the application entered with
\* acknowledged bytes still in the buffer, with a job under way, or with a section that is
\* closed for reading (S_Id.cpp, S_Isp.cpp: COMM_CLOSE comes round until the buffer is
\* empty; flash.cpp opens the section again at the end of every job).
THEOREM AppWaitsForMemory == ASSUME Window = 1 PROVE Spec => []AppStartsIdle
<1> DEFINE IInv == OwnInv /\ BufferInv /\ JobInv /\ HostInv /\ FlowInv
<1>1. Init => IInv
  BY InitOwns, InitBuffer, InitJobs, InitFlow
<1>2. IInv /\ [Next]_vars => IInv'
  BY NextOwns, NextBuffer, NextJobs, NextHost, NextFlow
<1>3. IInv => AppStartsIdle
  BY DEF AppStartsIdle, FlowInv, JobInv, Quiet, FlashBusy, EepromBusy
<1> HIDE DEF IInv
<1> QED BY <1>1, <1>2, <1>3, PTL DEF Spec

\* While a server works on a request its host is silent, when it has one request under way at a
\* time: a token in hand is a request that is not answered yet.
THEOREM ServersUndisturbed == Spec => []ServedInSilence
<1>1. CASE Window = 1
  <2> DEFINE IInv == OwnInv /\ BufferInv /\ JobInv /\ HostInv /\ FlowInv
  <2>1. Init => IInv
    BY InitOwns, InitBuffer, InitJobs, InitFlow
  <2>2. IInv /\ [Next]_vars => IInv'
    BY <1>1, NextOwns, NextBuffer, NextJobs, NextHost, NextFlow
  <2>3. IInv => ServedInSilence
    <3> SUFFICES ASSUME IInv, cur.sig \in Asking PROVE Len(waiting) >= 1
      BY <1>1 DEF ServedInSilence
    <3>1. cur # NoMsg
      BY DEF NoMsg, Message, Asking
    <3>2. cur \in Flight /\ Token(cur, seg)
      BY <3>1 DEF Flight, Token
    <3>3. waiting # <<>> /\ waiting \in Seq(Waited)
      BY <3>2 DEF FlowInv, HostInv
    <3> QED BY <3>3
  <2> HIDE DEF IInv
  <2> QED BY <2>1, <2>2, <2>3, PTL DEF Spec
<1>2. CASE Window # 1
  <2>1. Init => ServedInSilence
    BY <1>2 DEF ServedInSilence
  <2>2. ServedInSilence /\ [Next]_vars => ServedInSilence'
    BY <1>2 DEF ServedInSilence
  <2> QED BY <2>1, <2>2, PTL DEF Spec
<1> QED BY <1>1, <1>2

-----------------------------------------------------------------------------
(***************************************************************************)
(* The answers.  Every message under way takes the way its signal says and *)
(* carries the action of the request that is served; the parts of a read   *)
(* leave before the request comes round again and before its answer.       *)
(***************************************************************************)
\* a is before b in the queue q; it is served before b.
Ord(q, a, b) == \E i, j \in DOMAIN q : i < j /\ q[i] = a /\ q[j] = b
Before(a, b) == (a = cur /\ b \in In(mq)) \/ Ord(mq, a, b)

(* bytes of a read *)
Part(m, s) == m.sig = "ISP_OUT" /\ s[m.key].data # <<>>
Via(m, from, dir) == m.from = from /\ m.dir = dir /\ m.visits = 0
Routed(m, s) ==
  /\ m.sig = "PHY_IN" => Via(m, CanPhy, "UP")
  /\ m.sig \in {"ID_IN", "COMM_CLOSE"} => Via(m, Id, "UP")
  /\ m.sig = "ENABLE_ID_FILTER" => Via(m, Id, "DOWN")
  /\ m.sig = "ID_FILTER_ENABLED" => Via(m, CanPhy, "UP")
  /\ m.sig = "COMM_CLOSED" => Via(m, Isp, "DOWN")
  /\ m.sig = "ID_OUT" => Via(m, Id, "UNKNOWN")
  /\ m.sig = "ISP_OUT" => m.from = Isp
  /\ m.sig = "ISP_OUT" /\ ~Part(m, s) => Via(m, Isp, "UNKNOWN")
  /\ Part(m, s) => m.dir = "DOWN" /\ m.visits \in {0, 1}

Served == Head(waiting).req
Carries(m, s) ==
  /\ m.sig \in {"PHY_IN", "ID_IN"} => s[m.key].act = Served.act /\ s[m.key].arg = Served.arg
  /\ m.sig \in Asking \ {"PHY_IN", "ID_IN"} => ackAction = Served.act
  /\ m.sig \in {"ENABLE_ID_FILTER", "ID_FILTER_ENABLED"} => ~open
  /\ m.sig \in {"ID_OUT", "ISP_OUT"} =>
       s[m.key].act = Served.act /\ (s[m.key].reply = "ERROR" => Refusable(Served))
  /\ Part(m, s) => waiting # <<>>

\* What the host is told is what it asked for; a part of a read never overtakes another, nor
\* is it overtaken by the answer; the opening is announced once.
AnswerInv ==
  /\ \A m \in Flight : Routed(m, seg) /\ Carries(m, seg)
  /\ \A p, t \in Flight : Part(p, seg) /\ Token(t, seg) =>
       /\ t.sig \in {"ID_OUT", "ISP_OUT"} => Before(p, t)
       /\ p.visits = 0 => t.sig = "ID_IN" /\ Before(p, t)
  /\ \A p, n \in Flight : Part(p, seg) /\ Part(n, seg) =>
       /\ p.visits = n.visits => p = n
       /\ p.visits = 1 /\ n.visits = 0 => Before(p, n)
  /\ \A d, e \in Flight : d.sig = "DISABLE_APPL_START" /\ e.sig = "DISABLE_APPL_START" => d = e

LEMMA PushedOrd ==
  ASSUME NEW S, NEW q \in Seq(S), NEW m, m \notin In(q)
  PROVE  /\ \A a, b : Ord(q, a, b) => Ord(Push(q, m), a, b)
         /\ \A a \in In(q) : m \in In(Push(q, m)) => Ord(Push(q, m), a, m)
         /\ In(q) \subseteq In(Push(q, m))
<1>1. CASE Push(q, m) = q
  BY <1>1
<1>2. CASE Push(q, m) = Append(q, m)
  <2>1. /\ DOMAIN q = 1..Len(q) /\ Len(q) \in Nat
        /\ DOMAIN Append(q, m) = 1..(Len(q) + 1)
        /\ \A i \in 1..Len(q) : Append(q, m)[i] = q[i]
        /\ Append(q, m)[Len(q) + 1] = m
    OBVIOUS
  <2> DEFINE p == Append(q, m)
             n == Len(q)
  <2>2. /\ DOMAIN q = 1..n /\ n \in Nat /\ DOMAIN p = 1..(n + 1)
        /\ \A i \in 1..n : p[i] = q[i]
        /\ p[n + 1] = m
    BY <2>1
  <2> HIDE DEF p, n
  <2>3. ASSUME NEW a, NEW b, Ord(q, a, b) PROVE Ord(p, a, b)
    <3>1. PICK i \in DOMAIN q, j \in DOMAIN q : i < j /\ q[i] = a /\ q[j] = b
      BY <2>3 DEF Ord
    <3>2. i \in DOMAIN p /\ j \in DOMAIN p /\ p[i] = a /\ p[j] = b
      BY <2>2, <3>1
    <3> QED BY <3>1, <3>2 DEF Ord
  <2>4. ASSUME NEW a \in In(q) PROVE Ord(p, a, m)
    <3>1. PICK i \in DOMAIN q : q[i] = a
      BY <2>4 DEF In
    <3>2. i \in DOMAIN p /\ p[i] = a /\ n + 1 \in DOMAIN p /\ i < n + 1
      BY <2>2, <3>1
    <3> QED BY <2>2, <3>2 DEF Ord
  <2>5. In(q) \subseteq In(p)
    <3> SUFFICES ASSUME NEW i \in DOMAIN q PROVE q[i] \in In(p)
      BY DEF In
    <3>1. i \in DOMAIN p /\ p[i] = q[i]
      BY <2>2
    <3> QED BY <3>1 DEF In
  <2> QED BY <1>2, <2>3, <2>4, <2>5 DEF p
<1> QED BY <1>1, <1>2 DEF Push

LEMMA OrdIn ==
  ASSUME NEW q, NEW a, NEW b, Ord(q, a, b)
  PROVE  a \in In(q) /\ b \in In(q)
BY DEF Ord, In

\* The message in hand is served first: nothing under way is before it.
LEMMA HandFirst ==
  ASSUME OwnInv, cur # NoMsg, NEW a
  PROVE  ~Before(a, cur)
BY HandApart, OrdIn DEF Before

\* A step that ends the message in hand and puts the messages N behind the queue.
LEMMA AnswerStep ==
  ASSUME OwnInv, FlowInv, AnswerInv, cur # NoMsg, cur' = NoMsg, NEW N,
         In(mq') \subseteq In(mq) \union N,
         \A m \in In(mq) : seg'[m.key] = seg[m.key],
         \A a, b \in In(mq) : Ord(mq, a, b) => Ord(mq', a, b),
         \A a \in In(mq), m \in N : m \in In(mq') => Ord(mq', a, m),
         waiting' = waiting \/ (Token(cur, seg) /\ cur.sig \in {"ID_OUT", "ISP_OUT"} /\ N = {}),
         ackAction' = ackAction \/ Token(cur, seg),
         open' = open \/ Token(cur, seg),
         \A m, n \in N : Part(m, seg') /\ Part(n, seg') => m = n,
         \A m, n \in N : m.sig = "DISABLE_APPL_START" /\ n.sig = "DISABLE_APPL_START" => m = n,
         \A m \in N :
           /\ Routed(m, seg') /\ Carries(m, seg)'
           /\ Token(m, seg') => Token(cur, seg)
           /\ m.sig = "DISABLE_APPL_START" =>
                cur.sig = "DISABLE_APPL_START" \/ \A n \in Flight : n.sig # "DISABLE_APPL_START"
           /\ Part(m, seg') =>
                \/ m.visits = 1 /\ Part(cur, seg) /\ cur.visits = 0 /\ \A n \in N : n = m
                \/ /\ m.visits = 0 /\ cur.sig = "ID_IN"
                   /\ \A t \in N \ {m} : t.sig = "ID_IN" /\ ({m, t} \subseteq In(mq') => Ord(mq', m, t))
  PROVE  AnswerInv'
<1>1. cur \in Flight /\ cur \notin In(mq) /\ In(mq) \subseteq Flight /\ Flight' = In(mq')
  BY HandApart DEF Flight
<1>2. \A m \in In(mq) : /\ Token(m, seg') <=> Token(m, seg)
                        /\ Part(m, seg') <=> Part(m, seg)
  BY DEF Token, Part
<1>3. \A m \in In(mq) : Token(m, seg) => ~Token(cur, seg)
  BY <1>1 DEF FlowInv
<1>4. \A m : m.sig \in Asking => Token(m, seg)
  BY DEF Token
<1>5. \A m, s : Part(m, s) => ~Token(m, s)
  BY DEF Part, Token, Asking
<1>6. \A a, b \in In(mq) : Before(a, b) => Ord(mq', a, b)
  BY <1>1 DEF Before
<1>7. \A a, b : Ord(mq', a, b) => Before(a, b)'
  BY DEF Before
<1>8. \A a : ~Before(a, cur)
  BY HandFirst
<1>9. \A m \in Flight' : Routed(m, seg')
  BY <1>1, <1>2 DEF AnswerInv, Routed
<1>10. ASSUME NEW m \in In(mq) PROVE Carries(m, seg)'
  <2>1. Carries(m, seg) /\ seg'[m.key] = seg[m.key]
    BY <1>1, <1>10 DEF AnswerInv
  <2>2. CASE Token(cur, seg)
    <3>1. m.sig \notin Asking /\ m.sig # "ID_OUT" /\ (m.sig = "ISP_OUT" => Part(m, seg))
      BY <1>3, <1>4, <1>10, <2>2 DEF Token, Part
    <3>2. CASE waiting' = waiting
      BY <1>2, <1>10, <2>1, <3>1, <3>2 DEF Carries, Served, Asking
    <3>3. CASE cur.sig \in {"ID_OUT", "ISP_OUT"}
      <4>1. ~Part(m, seg)
        BY <1>1, <1>8, <1>10, <2>2, <3>3 DEF AnswerInv
      <4> QED BY <1>2, <1>10, <3>1, <4>1 DEF Carries, Asking
    <3> QED BY <3>2, <3>3
  <2>3. CASE ~Token(cur, seg)
    BY <1>2, <1>10, <2>1, <2>3 DEF Carries, Served
  <2> QED BY <2>2, <2>3
<1>11. \A m \in Flight' : Carries(m, seg)'
  BY <1>1, <1>10
<1>12. ASSUME NEW p \in Flight', NEW t \in Flight', Part(p, seg'), Token(t, seg')
       PROVE  /\ t.sig \in {"ID_OUT", "ISP_OUT"} => Ord(mq', p, t)
              /\ p.visits = 0 => t.sig = "ID_IN" /\ Ord(mq', p, t)
  <2>1. CASE p \in In(mq) /\ t \in In(mq)
    BY <1>1, <1>2, <1>6, <1>12, <2>1 DEF AnswerInv
  <2>2. CASE p \in In(mq) /\ t \in N
    <3>1. Ord(mq', p, t) /\ Token(cur, seg)
      BY <1>1, <1>12, <2>2
    <3>2. p.visits # 0
      BY <1>1, <1>2, <1>8, <1>12, <2>2, <3>1 DEF AnswerInv
    <3> QED BY <3>1, <3>2
  <2>3. CASE p \in N /\ p.visits = 1 /\ Part(cur, seg) /\ cur.visits = 0 /\ \A n \in N : n = p
    <3>1. t \in In(mq)
      BY <1>1, <1>5, <1>12, <2>3
    <3>2. t.sig = "ID_IN"
      BY <1>1, <1>2, <1>12, <2>3, <3>1 DEF AnswerInv
    <3> QED BY <2>3, <3>2
  <2>4. CASE /\ p \in N /\ p.visits = 0 /\ cur.sig = "ID_IN"
             /\ \A n \in N \ {p} : n.sig = "ID_IN" /\ ({p, n} \subseteq In(mq') => Ord(mq', p, n))
    <3>1. Token(cur, seg)
      BY <2>4 DEF Token, Asking
    <3>2. t \in N \ {p}
      BY <1>1, <1>2, <1>3, <1>5, <1>12, <3>1
    <3> QED BY <1>1, <2>4, <3>2
  <2> QED BY <1>1, <1>12, <2>1, <2>2, <2>3, <2>4
<1>13. ASSUME NEW p \in Flight', NEW n \in Flight', Part(p, seg'), Part(n, seg')
       PROVE  /\ p.visits = n.visits => p = n
              /\ p.visits = 1 /\ n.visits = 0 => Ord(mq', p, n)
  <2>1. CASE p \in In(mq) /\ n \in In(mq)
    BY <1>1, <1>2, <1>6, <1>13, <2>1 DEF AnswerInv
  <2>2. ASSUME NEW a \in In(mq), NEW b \in N, b \in In(mq'), Part(a, seg'), Part(b, seg')
        PROVE  a.visits # b.visits /\ Ord(mq', a, b) /\ ~(b.visits = 1 /\ a.visits = 0)
    <3>1. Ord(mq', a, b) /\ Part(a, seg) /\ a \in Flight
      BY <1>1, <1>2, <2>2
    <3>2. CASE b.visits = 1 /\ Part(cur, seg) /\ cur.visits = 0
      <4>1. a.visits # 0
        BY <1>1, <2>2, <3>1, <3>2 DEF AnswerInv
      <4>2. a.visits # 1
        BY <1>1, <1>8, <3>1, <3>2 DEF AnswerInv
      <4> QED BY <3>1, <3>2, <4>1, <4>2
    <3>3. CASE b.visits = 0 /\ cur.sig = "ID_IN"
      <4>1. Token(cur, seg)
        BY <3>3 DEF Token, Asking
      <4>2. a.visits # 0
        BY <1>1, <1>8, <3>1, <4>1 DEF AnswerInv
      <4> QED BY <3>1, <3>3, <4>2
    <3> QED BY <2>2, <3>2, <3>3
  <2>3. CASE p \in N /\ n \in N
    BY <1>13, <2>3
  <2> QED BY <1>1, <1>13, <2>1, <2>2, <2>3
<1>14. \A d, e \in Flight' : d.sig = "DISABLE_APPL_START" /\ e.sig = "DISABLE_APPL_START" => d = e
  <2> SUFFICES ASSUME NEW d \in Flight', NEW e \in Flight', d.sig = "DISABLE_APPL_START",
                      e.sig = "DISABLE_APPL_START"
               PROVE  d = e
    OBVIOUS
  <2>1. CASE d \in In(mq) /\ e \in In(mq)
    BY <1>1, <2>1 DEF AnswerInv
  <2>2. ASSUME NEW a \in In(mq), NEW b \in N, a.sig = "DISABLE_APPL_START", b.sig = "DISABLE_APPL_START"
        PROVE  FALSE
    BY <1>1, <2>2 DEF AnswerInv
  <2> QED BY <1>1, <2>1, <2>2
<1> QED BY <1>7, <1>9, <1>11, <1>12, <1>13, <1>14 DEF AnswerInv

\* A handler that sends the message on.
LEMMA SendsAnswer ==
  ASSUME OwnInv, FlowInv, AnswerInv, cur # NoMsg, NEW m, m.key = cur.key,
         mq' = Push(mq, m), cur' = NoMsg, seg' = seg, waiting' = waiting,
         ackAction' = ackAction \/ Token(cur, seg),
         open' = open \/ Token(cur, seg),
         Token(m, seg) => Token(cur, seg),
         m.sig = "DISABLE_APPL_START" => cur.sig = "DISABLE_APPL_START",
         Part(m, seg) => Part(cur, seg) /\ cur.visits = 0 /\ m.visits = 1,
         Routed(m, seg), Carries(m, seg)'
  PROVE  AnswerInv'
<1>1. mq \in Seq(Msg) /\ m \notin In(mq)
  <2>1. cur.key \notin KeysIn(mq)
    <3>1. Owns(mq, {cur.key} \union Held, locked)
      BY Hand
    <3> QED BY <3>1 DEF Owns
  <2> QED BY <2>1, HandApart
<1> DEFINE N == {m}
<1>2. /\ In(mq') \subseteq In(mq) \union N
      /\ \A a, b \in In(mq) : Ord(mq, a, b) => Ord(mq', a, b)
      /\ \A a \in In(mq), n \in N : n \in In(mq') => Ord(mq', a, n)
  BY <1>1, PushIn, PushedOrd
<1>3. \A n \in N : /\ Routed(n, seg') /\ Carries(n, seg)'
                   /\ Token(n, seg') => Token(cur, seg)
                   /\ n.sig = "DISABLE_APPL_START" => cur.sig = "DISABLE_APPL_START"
                   /\ Part(n, seg') => n.visits = 1 /\ Part(cur, seg) /\ cur.visits = 0
  OBVIOUS
<1>4. \A k, n \in N : k = n
  OBVIOUS
<1> HIDE DEF N
<1> QED BY <1>2, <1>3, <1>4, AnswerStep

\* The same message again; a message whose visits are counted is neither asking nor an answer,
\* and a part of a read is counted once.
LEMMA PassesAnswer ==
  ASSUME OwnInv, FlowInv, AnswerInv, cur # NoMsg, NEW m, Sends(m),
         UNCHANGED <<waiting, open, ackAction>>,
         \/ m = cur /\ ~Part(cur, seg)
         \/ m = Visited(cur) /\ ~Token(cur, seg) /\ (Part(cur, seg) => cur.visits = 0)
  PROVE  AnswerInv'
<1>1. cur \in Flight /\ cur \in Msg /\ Routed(cur, seg) /\ Carries(cur, seg)
  BY HandApart DEF AnswerInv
<1>2. mq' = Push(mq, m) /\ cur' = NoMsg /\ seg' = seg
  BY DEF Sends
<1>3. /\ m.sig = cur.sig /\ m.from = cur.from /\ m.key = cur.key /\ m.dir = cur.dir
      /\ m = cur \/ m.visits = cur.visits + 1
  BY <1>1 DEF Visited, Msg
<1>4. /\ Token(m, seg) <=> Token(cur, seg)
      /\ Part(m, seg) <=> Part(cur, seg)
  BY <1>3 DEF Token, Part
<1>5. Carries(m, seg)'
  BY <1>1, <1>2, <1>3 DEF Carries, Served, Part
<1>6. CASE m = cur /\ ~Part(cur, seg)
  <2>1. Routed(m, seg)
    BY <1>1, <1>6
  <2> QED BY <1>2, <1>3, <1>4, <1>5, <1>6, <2>1, SendsAnswer
<1>7. CASE m = Visited(cur) /\ ~Token(cur, seg) /\ (Part(cur, seg) => cur.visits = 0)
  <2>1. Part(cur, seg) => m.visits = 1
    BY <1>1, <1>3, <1>7 DEF Visited, Msg
  <2>2. Routed(m, seg)
    <3>1. m.sig \notin Asking /\ m.sig # "ID_OUT" /\ (m.sig = "ISP_OUT" => Part(m, seg))
      BY <1>3, <1>4, <1>7 DEF Token, Part
    <3>2. Part(m, seg) => m.from = Isp /\ m.dir = "DOWN" /\ m.visits \in {0, 1}
      BY <1>1, <1>3, <1>4, <2>1 DEF Routed, Part
    <3> QED BY <3>1, <3>2 DEF Routed, Asking
  <2> QED BY <1>2, <1>3, <1>4, <1>5, <1>7, <2>1, <2>2, SendsAnswer
<1> QED BY <1>6, <1>7

\* A handler that ends the message.
LEMMA EndsAnswer ==
  ASSUME OwnInv, FlowInv, AnswerInv, cur # NoMsg, cur' = NoMsg, mq' = mq, seg' = seg,
         waiting' = waiting \/ (Token(cur, seg) /\ cur.sig \in {"ID_OUT", "ISP_OUT"}),
         UNCHANGED <<open, ackAction>>
  PROVE  AnswerInv'
<1> DEFINE N == {}
<1>1. In(mq') \subseteq In(mq) \union N
  OBVIOUS
<1>2. waiting' = waiting \/ (Token(cur, seg) /\ cur.sig \in {"ID_OUT", "ISP_OUT"} /\ N = {})
  OBVIOUS
<1>3. \A m \in N : FALSE
  OBVIOUS
<1> HIDE DEF N
<1> QED BY <1>1, <1>2, <1>3, AnswerStep

\* What S_acknowledge() puts into the queue: an acknowledgement when there is a segment, and
\* the message that follows it.  N is the acknowledgement, M all of what is new.
AckedBy(ack, N, M) ==
  /\ In(mq') \subseteq In(mq) \union M
  /\ \A m, n \in N : m = n
  /\ \A a \in N : /\ a.sig = ack.sig /\ Via(a, ack.from, "UNKNOWN")
                  /\ seg'[a.key] = Content(ack.act, NoArg, ack.reply, <<>>)
  /\ \A m \in In(mq) : seg'[m.key] = seg[m.key]
  /\ \A a, b \in In(mq) : Ord(mq, a, b) => Ord(mq', a, b)
  /\ \A a \in In(mq), m \in M : m \in In(mq') => Ord(mq', a, m)

\* What comes then is ordered behind all that was under way.
LEMMA AckQueue ==
  ASSUME OwnInv, cur # NoMsg, DOMAIN seg = Keys, NEW lck, KeysIn(mq) \subseteq lck,
         NEW ack, NEW after, NEW freed, Acknowledges(lck, ack, after, freed),
         NEW A, after = <<>> \/ \E m \in A : after = <<m>>,
         \A m, n \in A : m = n, \A m \in A : m.key \in lck \ KeysIn(mq)
  PROVE  \E N : AckedBy(ack, N, N \union A)
<1>1. mq \in Seq(Msg) /\ (\A m \in In(mq) : m.key \in KeysIn(mq)) /\ \A m \in A : m \notin In(mq)
  BY HandApart
<1> DEFINE Then(q) == IF after = <<>> THEN q ELSE Push(q, Head(after))
<1>2. ASSUME NEW T, NEW q \in Seq(T), \A m \in A : m \notin In(q)
      PROVE  /\ In(Then(q)) \subseteq In(q) \union A
             /\ \A a, b : Ord(q, a, b) => Ord(Then(q), a, b)
             /\ \A a \in In(q), m \in A : m \in In(Then(q)) => Ord(Then(q), a, m)
             /\ In(q) \subseteq In(Then(q))
  <2>1. CASE after = <<>>
    BY <1>2, <2>1
  <2>2. ASSUME NEW m \in A, after = <<m>>
        PROVE  /\ In(Then(q)) \subseteq In(q) \union A
               /\ \A a, b : Ord(q, a, b) => Ord(Then(q), a, b)
               /\ \A a \in In(q), n \in A : n \in In(Then(q)) => Ord(Then(q), a, n)
               /\ In(q) \subseteq In(Then(q))
    <3>1. Then(q) = Push(q, m)
      BY <2>2
    <3> HIDE DEF Then
    <3> QED BY <1>2, <3>1, PushIn, PushedOrd
  <2> QED BY <2>1, <2>2
<1>3. CASE mq' = Then(mq) /\ seg' = seg
  <2> DEFINE N == {}
  <2>1. /\ In(mq') \subseteq In(mq) \union (N \union A)
        /\ \A m, n \in N : m = n
        /\ \A a \in N : FALSE
        /\ \A m \in In(mq) : seg'[m.key] = seg[m.key]
        /\ \A a, b \in In(mq) : Ord(mq, a, b) => Ord(mq', a, b)
        /\ \A a \in In(mq), m \in N \union A : m \in In(mq') => Ord(mq', a, m)
    <3> HIDE DEF Then
    <3> QED BY <1>1, <1>2, <1>3
  <2> HIDE DEF N
  <2>2. AckedBy(ack, N, N \union A)
    BY <2>1 DEF AckedBy
  <2> QED BY <2>2
<1>4. ASSUME NEW k \in Keys \ lck, seg' = [seg EXCEPT ![k] = Content(ack.act, NoArg, ack.reply, <<>>)],
             mq' = Then(Push(mq, Message(ack.sig, k, ack.from, "UNKNOWN")))
      PROVE  \E N : AckedBy(ack, N, N \union A)
  <2>1. PICK a : a = Message(ack.sig, k, ack.from, "UNKNOWN")
    OBVIOUS
  <2>2. a.sig = ack.sig /\ Via(a, ack.from, "UNKNOWN") /\ a.key = k
    BY <2>1 DEF Message, Via
  <2>3. seg'[a.key] = Content(ack.act, NoArg, ack.reply, <<>>)
    BY <1>4, <2>2
  <2>4. a \notin In(mq) /\ a \notin A /\ \A m \in In(mq) : m.key # k
    BY <1>1, <2>2
  <2>5. \A m \in In(mq) : seg'[m.key] = seg[m.key]
    BY <1>4, <2>4
  <2> DEFINE q == Push(mq, a)
             N == {a}
  <2>6. q \in Seq(Msg \union {a}) /\ In(q) \subseteq In(mq) \union {a}
    <3>1. mq \in Seq(Msg \union {a}) /\ a \in Msg \union {a}
      BY <1>1
    <3> QED BY <3>1, PushIn
  <2>7. /\ \A x, y : Ord(mq, x, y) => Ord(q, x, y)
        /\ \A x \in In(mq) : a \in In(q) => Ord(q, x, a)
        /\ In(mq) \subseteq In(q)
    BY <1>1, <2>4, PushedOrd
  <2>8. mq' = Then(q)
    BY <1>4, <2>1
  <2> HIDE DEF q
  <2>9. \A m \in A : m \notin In(q)
    BY <1>1, <2>4, <2>6
  <2>10. /\ In(Then(q)) \subseteq In(q) \union A
         /\ \A x, y : Ord(q, x, y) => Ord(Then(q), x, y)
         /\ \A x \in In(q), m \in A : m \in In(Then(q)) => Ord(Then(q), x, m)
    BY <1>2, <2>6, <2>9
  <2> HIDE DEF Then
  <2>11. In(mq') \subseteq In(mq) \union (N \union A)
    BY <2>6, <2>8, <2>10
  <2>12. \A x, y \in In(mq) : Ord(mq, x, y) => Ord(mq', x, y)
    BY <2>7, <2>8, <2>10
  <2>13. \A x \in In(mq), m \in N \union A : m \in In(mq') => Ord(mq', x, m)
    <3> SUFFICES ASSUME NEW x \in In(mq), NEW m \in N \union A, m \in In(mq') PROVE Ord(mq', x, m)
      OBVIOUS
    <3>1. CASE m \in A
      BY <2>7, <2>8, <2>10, <3>1
    <3>2. CASE m = a
      <4>1. a \in In(q)
        BY <2>4, <2>8, <2>10, <3>2
      <4> QED BY <2>7, <2>8, <2>10, <3>2, <4>1
    <3> QED BY <3>1, <3>2
  <2>14. /\ \A m, n \in N : m = n
         /\ \A m \in N : /\ m.sig = ack.sig /\ Via(m, ack.from, "UNKNOWN")
                         /\ seg'[m.key] = Content(ack.act, NoArg, ack.reply, <<>>)
    BY <2>2, <2>3
  <2> HIDE DEF N
  <2>15. AckedBy(ack, N, N \union A)
    BY <2>5, <2>11, <2>12, <2>13, <2>14 DEF AckedBy
  <2> QED BY <2>15
<1>5. \/ mq' = Then(mq) /\ seg' = seg
      \/ \E k \in Keys \ lck :
           /\ seg' = [seg EXCEPT ![k] = Content(ack.act, NoArg, ack.reply, <<>>)]
           /\ mq' = Then(Push(mq, Message(ack.sig, k, ack.from, "UNKNOWN")))
  BY DEF Acknowledges
<1> HIDE DEF Then
<1> QED BY <1>3, <1>4, <1>5

\* Without a message that follows it, what comes is at most the acknowledgement.
LEMMA AckAlone ==
  ASSUME OwnInv, cur # NoMsg, DOMAIN seg = Keys, NEW lck, KeysIn(mq) \subseteq lck,
         NEW ack, NEW freed, Acknowledges(lck, ack, <<>>, freed)
  PROVE  \E N : AckedBy(ack, N, N)
<1>1. PICK after : after = <<>>
  OBVIOUS
<1>2. PICK A : A = {}
  OBVIOUS
<1>3. /\ Acknowledges(lck, ack, after, freed)
      /\ after = <<>> \/ \E m \in A : after = <<m>>
      /\ \A m, n \in A : m = n
      /\ \A m \in A : m.key \in lck \ KeysIn(mq)
  BY <1>1, <1>2
<1>4. \A N : N \union A = N
  BY <1>2
<1>5. PICK N : AckedBy(ack, N, N \union A)
  BY <1>3, AckQueue
<1> QED BY <1>4, <1>5

\* A handler that acknowledges the request in hand with the action it carries.
LEMMA AckAnswer ==
  ASSUME OwnInv, BufferInv, FlowInv, AnswerInv, cur # NoMsg, NEW lck, KeysIn(mq) \subseteq lck,
         NEW ack, NEW freed, Acknowledges(lck, ack, <<>>, freed),
         (ack.sig = "ID_OUT" /\ ack.from = Id) \/ (ack.sig = "ISP_OUT" /\ ack.from = Isp),
         ack.act = Served.act, ack.reply = "ERROR" => Refusable(Served),
         Token(cur, seg), waiting' = waiting
  PROVE  AnswerInv'
<1>1. cur' = NoMsg /\ DOMAIN seg = Keys
  BY DEF Acknowledges, BufferInv, SegInv
<1>2. PICK N : AckedBy(ack, N, N)
  BY <1>1, AckAlone
<1>3. /\ In(mq') \subseteq In(mq) \union N
      /\ \A m, n \in N : m = n
      /\ \A m \in In(mq) : seg'[m.key] = seg[m.key]
      /\ \A a, b \in In(mq) : Ord(mq, a, b) => Ord(mq', a, b)
      /\ \A a \in In(mq), m \in N : m \in In(mq') => Ord(mq', a, m)
  BY <1>2 DEF AckedBy
<1>4. \A m \in N : /\ Routed(m, seg') /\ Carries(m, seg)' /\ ~Part(m, seg')
                   /\ m.sig # "DISABLE_APPL_START"
  <2> TAKE m \in N
  <2>1. /\ m.sig = ack.sig /\ Via(m, ack.from, "UNKNOWN")
        /\ seg'[m.key].act = ack.act /\ seg'[m.key].reply = ack.reply /\ seg'[m.key].data = <<>>
    BY <1>2 DEF AckedBy, Content
  <2>2. m.sig \in {"ID_OUT", "ISP_OUT"} /\ ~Part(m, seg') /\ m.from = ack.from
    BY <2>1 DEF Part, Via
  <2>3. Routed(m, seg')
    BY <2>1, <2>2 DEF Routed, Part
  <2>4. Carries(m, seg)'
    BY <2>1, <2>2 DEF Carries, Served, Part, Asking, Refusable
  <2> QED BY <2>2, <2>3, <2>4
<1> QED BY <1>1, <1>3, <1>4, AnswerStep

\* Where a message goes.
LEMMA Ways ==
  ASSUME NEW m, NEW s, Routed(m, s)
  PROVE  /\ m.sig \in {"PHY_IN", "ID_FILTER_ENABLED", "COMM_CLOSED"} => Target(m) = Id
         /\ m.sig \in {"ID_IN", "COMM_CLOSE"} => Target(m) = Isp
         /\ m.sig \in {"ENABLE_ID_FILTER", "ID_OUT"} => Target(m) = CanPhy
         /\ m.sig = "ISP_OUT" /\ ~Part(m, s) => Target(m) = CanPhy
         /\ Part(m, s) => (m.visits = 0 /\ Target(m) = Id) \/ (m.visits = 1 /\ Target(m) = CanPhy)
<1>1. /\ (0 + (0 + 1)) % 256 = 1 /\ (1 + (0 + 1)) % 256 = 2
      /\ (1 - (0 + 1)) % 256 = 0 /\ (2 - (0 + 1)) % 256 = 1 /\ (2 - (1 + 1)) % 256 = 0
  OBVIOUS
<1>2. CanPhy = 0 /\ Id = 1 /\ Isp = 2 /\ Servers = {0, 1, 2}
  BY DEF CanPhy, Id, Isp, Servers
<1>3. Via(m, CanPhy, "UP") => Target(m) = Id
  BY <1>1, <1>2 DEF Via, Target
<1>4. Via(m, Id, "UP") => Target(m) = Isp
  BY <1>1, <1>2 DEF Via, Target
<1>5. Via(m, Id, "DOWN") => Target(m) = CanPhy
  BY <1>1, <1>2 DEF Via, Target
<1>6. Via(m, Isp, "DOWN") => Target(m) = Id
  BY <1>1, <1>2 DEF Via, Target
<1>7. Via(m, Id, "UNKNOWN") \/ Via(m, Isp, "UNKNOWN") => Target(m) = CanPhy
  BY <1>2 DEF Via, Target
<1>8. m.from = Isp /\ m.dir = "DOWN" /\ m.visits = 1 => Target(m) = CanPhy
  BY <1>1, <1>2 DEF Target
<1>9. Part(m, s) => m.from = Isp /\ m.dir = "DOWN" /\ m.visits \in {0, 1}
  BY DEF Routed, Part
<1> QED BY <1>3, <1>4, <1>5, <1>6, <1>7, <1>8, <1>9 DEF Routed, Via

\* Only CanPhy sees a message that asks or answers and is not for it, and so on: what a server
\* passes on is neither.
LEMMA NotMine ==
  ASSUME OwnInv, AnswerInv, cur # NoMsg
  PROVE  /\ cur \in Flight /\ Routed(cur, seg) /\ Carries(cur, seg)
         /\ Target(cur) = CanPhy /\ Token(cur, seg) => cur.sig \in {"ENABLE_ID_FILTER", "ID_OUT", "ISP_OUT"}
         /\ Target(cur) = Id /\ Token(cur, seg) => cur.sig \in {"PHY_IN", "ID_FILTER_ENABLED", "COMM_CLOSED"}
         /\ Target(cur) = Isp /\ Token(cur, seg) => cur.sig \in {"ID_IN", "COMM_CLOSE"}
         /\ Part(cur, seg) /\ Target(cur) = Id => cur.visits = 0
         /\ Part(cur, seg) => Target(cur) # Isp
<1>1. cur \in Flight /\ Routed(cur, seg) /\ Carries(cur, seg)
  BY HandApart DEF AnswerInv
<1>2. CanPhy # Id /\ CanPhy # Isp /\ Id # Isp
  BY DEF CanPhy, Id, Isp
<1>3. Token(cur, seg) => cur.sig \in Asking \union {"ID_OUT"} \/ (cur.sig = "ISP_OUT" /\ ~Part(cur, seg))
  BY DEF Token, Part
<1>4. /\ cur.sig \in {"PHY_IN", "ID_FILTER_ENABLED", "COMM_CLOSED"} => Target(cur) = Id
      /\ cur.sig \in {"ID_IN", "COMM_CLOSE"} => Target(cur) = Isp
      /\ cur.sig \in {"ENABLE_ID_FILTER", "ID_OUT"} => Target(cur) = CanPhy
      /\ cur.sig = "ISP_OUT" /\ ~Part(cur, seg) => Target(cur) = CanPhy
      /\ Part(cur, seg) => (cur.visits = 0 /\ Target(cur) = Id) \/ (cur.visits = 1 /\ Target(cur) = CanPhy)
  BY <1>1, Ways
<1> QED BY <1>1, <1>2, <1>3, <1>4 DEF Asking

LEMMA CanPhyAnswer ==
  ASSUME OwnInv, FlowInv, AnswerInv, ReceiveCanPhy
  PROVE  AnswerInv'
<1>1. cur # NoMsg /\ Target(cur) = CanPhy /\ UNCHANGED <<open, ackAction>>
  BY DEF ReceiveCanPhy, CanPhyOut, CanPhyEnableFilter, CanPhyApplStart, CanPhyOther, At, AtAny, idVars
<1>2. cur.sig \in Asking => cur.sig = "ENABLE_ID_FILTER"
  BY <1>1, NotMine DEF Token, Asking
<1>3. CASE CanPhyOut
  <2>1. cur.sig \in {"ID_OUT", "ISP_OUT"} /\ cur' = NoMsg /\ mq' = mq /\ seg' = seg
    BY <1>3 DEF CanPhyOut, AtAny, Frees
  <2>2. waiting' = waiting \/ Token(cur, seg)
    BY <1>3, <2>1 DEF CanPhyOut, Token
  <2> QED BY <1>1, <2>1, <2>2, EndsAnswer
<1>4. CASE (CanPhyEnableFilter \/ CanPhyOther) /\ Frees
  <2>1. cur' = NoMsg /\ mq' = mq /\ seg' = seg /\ waiting' = waiting
    BY <1>4 DEF CanPhyEnableFilter, CanPhyOther, Frees, hostVars
  <2> QED BY <1>1, <2>1, EndsAnswer
<1>5. CASE CanPhyEnableFilter /\ Sends(Resent(cur, "ID_FILTER_ENABLED", CanPhy, Toggled(cur.dir)))
  <2>1. cur.sig = "ENABLE_ID_FILTER" /\ waiting' = waiting
    BY <1>5 DEF CanPhyEnableFilter, At, hostVars
  <2>2. Token(cur, seg) /\ Toggled(cur.dir) = "UP"
    BY <1>1, <2>1, NotMine DEF Token, Asking, Routed, Via, Toggled
  <2>3. PICK m : m = Resent(cur, "ID_FILTER_ENABLED", CanPhy, Toggled(cur.dir))
    OBVIOUS
  <2>4. m.sig = "ID_FILTER_ENABLED" /\ m.key = cur.key /\ Via(m, CanPhy, "UP")
    BY <2>2, <2>3 DEF Resent, Message, Via
  <2>5. mq' = Push(mq, m) /\ cur' = NoMsg /\ seg' = seg
    BY <1>5, <2>3 DEF Sends
  <2>6. Routed(m, seg) /\ ~Part(m, seg)
    BY <2>4 DEF Routed, Part
  <2>7. Carries(m, seg)'
    BY <1>1, <2>1, <2>4, NotMine DEF Carries, Served, Asking, Part
  <2> QED BY <1>1, <2>1, <2>2, <2>4, <2>5, <2>6, <2>7, SendsAnswer
<1>6. CASE (CanPhyApplStart \/ CanPhyOther) /\ Sends(Visited(cur))
  <2>1. PICK m : m = Visited(cur)
    OBVIOUS
  <2>2. cur.sig \notin {"ID_OUT", "ISP_OUT", "ENABLE_ID_FILTER"} /\ waiting' = waiting
    BY <1>6 DEF CanPhyApplStart, CanPhyOther, At, hostVars
  <2>3. ~Token(cur, seg) /\ ~Part(cur, seg)
    BY <1>1, <2>2, NotMine DEF Part
  <2> QED BY <1>1, <1>6, <2>1, <2>2, <2>3, PassesAnswer
<1> QED BY <1>3, <1>4, <1>5, <1>6 DEF ReceiveCanPhy, CanPhyEnableFilter, CanPhyOther, CanPhyApplStart

\* Two messages put behind the queue.
LEMMA PushedTwice ==
  ASSUME NEW S, NEW q \in Seq(S), NEW x, NEW y, x \notin In(q), y \notin In(q), x # y, NEW p,
         p = Push(Push(q, x), y)
  PROVE  /\ In(p) \subseteq In(q) \union {x, y}
         /\ \A a, b : Ord(q, a, b) => Ord(p, a, b)
         /\ \A a \in In(q), m \in {x, y} : m \in In(p) => Ord(p, a, m)
         /\ {x, y} \subseteq In(p) => Ord(p, x, y)
<1> DEFINE r == Push(q, x)
           T == S \union {x}
<1>1. q \in Seq(T) /\ x \in T
  OBVIOUS
<1> HIDE DEF T
<1>2. In(r) \subseteq In(q) \union {x} /\ r \in Seq(T)
  BY <1>1, PushIn
<1>3. /\ \A a, b : Ord(q, a, b) => Ord(r, a, b)
      /\ \A a \in In(q) : x \in In(r) => Ord(r, a, x)
      /\ In(q) \subseteq In(r)
  BY <1>1, PushedOrd
<1>4. p = Push(r, y)
  OBVIOUS
<1> HIDE DEF r
<1>5. y \notin In(r)
  BY <1>2
<1>6. In(p) \subseteq In(r) \union {y}
  BY <1>2, <1>4, PushIn
<1>7. /\ \A a, b : Ord(r, a, b) => Ord(p, a, b)
      /\ \A a \in In(r) : y \in In(p) => Ord(p, a, y)
  BY <1>2, <1>4, <1>5, PushedOrd
<1>8. x \in In(p) => x \in In(r)
  BY <1>6
<1> QED BY <1>2, <1>3, <1>6, <1>7, <1>8

\* A step that leaves the messages and what they carry alone.
LEMMA StillAnswer ==
  ASSUME AnswerInv, UNCHANGED <<mq, cur, seg, waiting, ackAction, open>>
  PROVE  AnswerInv'
<1>1. Flight' = Flight /\ (\A a, b : Before(a, b)' <=> Before(a, b))
  BY DEF Flight, Before
<1>2. \A m : /\ Routed(m, seg)' <=> Routed(m, seg)
             /\ Carries(m, seg)' <=> Carries(m, seg)
             /\ Token(m, seg)' <=> Token(m, seg)
             /\ Part(m, seg)' <=> Part(m, seg)
  BY DEF Routed, Carries, Served, Token, Part
<1> QED BY <1>1, <1>2 DEF AnswerInv

LEMMA IdAnswer ==
  ASSUME OwnInv, BufferInv, FlowInv, AnswerInv, ReceiveId
  PROVE  AnswerInv'
<1>1. cur # NoMsg /\ Target(cur) = Id /\ waiting' = waiting
  BY DEF ReceiveId, IdClosed, IdApplStart, IdOwn, IdEmpty, IdDelay, IdSelectOpen, IdSelectClose, IdForward,
         IdRequest, IdTrash, IdFilterEnabled, IdOther, At, hostVars
<1>2. /\ cur \in Flight /\ Routed(cur, seg) /\ Carries(cur, seg)
      /\ Token(cur, seg) => cur.sig \in {"PHY_IN", "ID_FILTER_ENABLED", "COMM_CLOSED"}
      /\ Part(cur, seg) => cur.visits = 0
  <2>1. CanPhy # Id /\ Isp # Id
    BY DEF CanPhy, Id, Isp
  <2> QED BY <1>1, <2>1, NotMine
<1>3. /\ cur \in Msg /\ mq \in Seq(Msg) /\ \A m : m.key = cur.key => m \notin In(mq)
      /\ cur.key \in locked \ KeysIn(mq) /\ KeysIn(mq) \subseteq locked /\ DOMAIN seg = Keys
      /\ \A m \in In(mq) : m.key \in KeysIn(mq)
  <2>1. cur.key \notin KeysIn(mq) /\ cur.key \in locked
    <3>1. Owns(mq, {cur.key} \union Held, locked) /\ cur.key \in locked
      BY <1>1, Hand
    <3> QED BY <3>1 DEF Owns
  <2> QED BY <1>1, <2>1, HandApart DEF BufferInv, SegInv
<1>4. CASE IdClosed
  <2>1. cur.sig = "COMM_CLOSED" /\ Token(cur, seg) /\ open' = open /\ cur' = NoMsg
    BY <1>1, <1>2, <1>4, CloseTarget DEF IdClosed, At, Token, Asking, Acknowledges, Id, Isp
  <2>2. PICK m : m = ToAppl(cur)
    OBVIOUS
  <2>3. m.sig = "APPL_START" /\ m.key = cur.key
    BY <2>2 DEF ToAppl, Resent, Message
  <2>4. PICK ack : ack = IdAck("OK")
    OBVIOUS
  <2>5. ack.sig = "ID_OUT" /\ ack.from = Id /\ ack.act = Served.act /\ ack.reply = "OK"
    BY <1>2, <2>1, <2>4 DEF IdAck, Carries, Asking
  <2>6. PICK freed : freed = {}
    OBVIOUS
  <2>7. Acknowledges(locked, ack, <<m>>, freed)
    BY <1>4, <2>2, <2>4, <2>6 DEF IdClosed
  <2>8. PICK A : A = {m}
    OBVIOUS
  <2>9. PICK after : after = <<m>>
    OBVIOUS
  <2>10. PICK N : AckedBy(ack, N, N \union A)
    <3>1. /\ Acknowledges(locked, ack, after, freed) /\ \E k \in A : after = <<k>>
          /\ \A k, n \in A : k = n
          /\ \A k \in A : k.key \in locked \ KeysIn(mq)
      BY <1>3, <2>3, <2>7, <2>8, <2>9
    <3> QED BY <1>1, <1>3, <3>1, AckQueue
  <2>11. \A n \in N : /\ n.sig = "ID_OUT" /\ Via(n, Id, "UNKNOWN")
                      /\ seg'[n.key].act = Served.act /\ seg'[n.key].reply = "OK"
    BY <2>5, <2>10 DEF AckedBy, Content
  <2>12. \A n \in N : Routed(n, seg') /\ Carries(n, seg)' /\ ~Part(n, seg') /\ n.sig = "ID_OUT"
    BY <1>1, <2>11 DEF Routed, Carries, Served, Part, Asking
  <2>13. Routed(m, seg') /\ Carries(m, seg)' /\ ~Part(m, seg') /\ m.sig = "APPL_START"
    BY <2>3 DEF Routed, Carries, Part, Asking
  <2> DEFINE M == N \union A
  <2>14. \A n \in M : /\ Routed(n, seg') /\ Carries(n, seg)' /\ ~Part(n, seg')
                      /\ n.sig # "DISABLE_APPL_START"
    BY <2>8, <2>12, <2>13
  <2>15. /\ In(mq') \subseteq In(mq) \union M
         /\ \A n \in In(mq) : seg'[n.key] = seg[n.key]
         /\ \A a, b \in In(mq) : Ord(mq, a, b) => Ord(mq', a, b)
         /\ \A a \in In(mq), n \in M : n \in In(mq') => Ord(mq', a, n)
    BY <2>10 DEF AckedBy
  <2> HIDE DEF M
  <2> QED BY <1>1, <2>1, <2>14, <2>15, AnswerStep
<1>5. CASE IdApplStart
  BY <1>1, <1>5, StillAnswer DEF IdApplStart, ipcVars, idVars
<1>6. ASSUME IdOwn PROVE ackAction = "INVALID"
  <2>1. cur.from = Id /\ cur.sig \notin {"COMM_CLOSE", "APPL_START"}
    BY <1>6 DEF IdOwn, FromOther
  <2>2. CanPhy # Id /\ Isp # Id
    BY DEF CanPhy, Id, Isp
  <2>3. ~Token(cur, seg)
    BY <1>2, <2>1, <2>2 DEF Routed, Via
  <2>4. cur.sig # "ISP_OUT"
    BY <1>2, <2>1, <2>2 DEF Routed
  <2>5. cur.sig = "DISABLE_APPL_START"
    BY <1>3, <2>1, <2>3, <2>4 DEF Token, Asking, Msg, Signals
  <2> QED BY <1>2, <2>5 DEF FlowInv
<1>7. CASE IdOwn \/ IdEmpty \/ IdTrash
  <2>1. cur' = NoMsg /\ mq' = mq /\ seg' = seg /\ UNCHANGED <<open, ackAction>>
    BY <1>6, <1>7 DEF IdOwn, IdEmpty, IdTrash, Frees, idVars
  <2> QED BY <1>1, <2>1, EndsAnswer
<1>8. CASE IdDelay
  <2>1. PICK m : m = cur
    OBVIOUS
  <2>2. Sends(m) /\ ~Part(cur, seg) /\ UNCHANGED <<waiting, open, ackAction>>
    BY <1>1, <1>8, <2>1 DEF IdDelay, At, Part, idVars
  <2> QED BY <1>1, <2>1, <2>2, PassesAnswer
<1>9. CASE IdOther
  <2>1. PICK m : m = Visited(cur)
    OBVIOUS
  <2>2. Sends(m) /\ cur.sig \notin {"PHY_IN", "COMM_CLOSED", "ID_FILTER_ENABLED"}
        /\ UNCHANGED <<waiting, open, ackAction>>
    BY <1>1, <1>9, <2>1 DEF IdOther, idVars
  <2> QED BY <1>1, <1>2, <2>1, <2>2, PassesAnswer
<1>10. CASE IdSelectOpen \/ IdSelectClose \/ IdForward
  <2>1. /\ cur.sig = "PHY_IN" /\ Token(cur, seg) /\ open' = open
        /\ cur.dir = "UP" /\ seg[cur.key].act = Served.act /\ seg[cur.key].arg = Served.arg
    BY <1>2, <1>10 DEF IdSelectOpen, IdSelectClose, IdForward, IdRequest, At, Asking, Token, idVars,
                       Routed, Via, Carries
  <2>2. ASSUME NEW m, Sends(m), m.key = cur.key,
               \/ m.sig = "ENABLE_ID_FILTER" /\ Via(m, Id, "DOWN") /\ ~open /\ ackAction' = Served.act
               \/ m.sig = "COMM_CLOSE" /\ Via(m, Id, "UP") /\ ackAction' = Served.act
               \/ m.sig = "ID_IN" /\ Via(m, Id, "UP")
        PROVE  AnswerInv'
    <3>1. mq' = Push(mq, m) /\ cur' = NoMsg /\ seg' = seg
      BY <2>2 DEF Sends
    <3>2. Routed(m, seg) /\ ~Part(m, seg) /\ m.sig # "DISABLE_APPL_START"
      BY <2>2 DEF Routed, Part
    <3>3. Carries(m, seg)'
      BY <1>1, <2>1, <2>2, <3>1 DEF Carries, Served, Asking, Part
    <3> QED BY <1>1, <2>1, <2>2, <3>1, <3>2, <3>3, SendsAnswer
  <2>3. Toggled(cur.dir) = "DOWN"
    BY <2>1 DEF Toggled
  <2>4. \A sig, dir : LET m == Resent(cur, sig, Id, dir)
                      IN  m.sig = sig /\ m.key = cur.key /\ Via(m, Id, dir)
    BY DEF Resent, Message, Via
  <2>5. CASE IdSelectOpen
    <3>1. PICK m : m = Resent(cur, "ENABLE_ID_FILTER", Id, "DOWN")
      OBVIOUS
    <3>2. Sends(m) /\ ~open /\ ackAction' = Served.act
      BY <2>1, <2>3, <2>5, <3>1 DEF IdSelectOpen, IdRequest
    <3>3. m.sig = "ENABLE_ID_FILTER" /\ m.key = cur.key /\ Via(m, Id, "DOWN")
      BY <2>4, <3>1
    <3> QED BY <2>2, <3>2, <3>3
  <2>6. CASE IdSelectClose
    <3>1. PICK m : m = Resent(cur, "COMM_CLOSE", Id, "UP")
      OBVIOUS
    <3>2. Sends(m) /\ ackAction' = Served.act
      BY <2>1, <2>6, <3>1 DEF IdSelectClose, IdRequest
    <3>3. m.sig = "COMM_CLOSE" /\ m.key = cur.key /\ Via(m, Id, "UP")
      BY <2>4, <3>1
    <3> QED BY <2>2, <3>2, <3>3
  <2>7. CASE IdForward
    <3>1. PICK m : m = Resent(cur, "ID_IN", Id, "UP")
      OBVIOUS
    <3>2. Sends(m)
      BY <2>1, <2>7, <3>1 DEF IdForward
    <3>3. m.sig = "ID_IN" /\ m.key = cur.key /\ Via(m, Id, "UP")
      BY <2>4, <3>1
    <3> QED BY <2>2, <3>2, <3>3
  <2> QED BY <1>10, <2>5, <2>6, <2>7
<1>11. CASE IdFilterEnabled
  <2>1. /\ cur.sig = "ID_FILTER_ENABLED" /\ Token(cur, seg) /\ cur' = NoMsg
        /\ ackAction = Served.act /\ ~open
    BY <1>2, <1>11 DEF IdFilterEnabled, At, Token, Asking, Carries
  <2>2. \A n \in Flight : n.sig # "DISABLE_APPL_START"
    BY <2>1 DEF FlowInv
  <2>3. PICK d : d = Message("DISABLE_APPL_START", cur.key, Id, "UNKNOWN")
    OBVIOUS
  <2>4. d.sig = "DISABLE_APPL_START" /\ d.key = cur.key /\ d \notin In(mq)
    BY <1>3, <2>3 DEF Message
  <2>5. Routed(d, seg') /\ Carries(d, seg)' /\ ~Part(d, seg') /\ ~Token(d, seg')
    BY <2>4 DEF Routed, Carries, Part, Token, Asking
  <2>6. CASE mq' = Push(mq, d) /\ UNCHANGED <<locked, seg>>
    <3>1. PICK N : N = {d}
      OBVIOUS
    <3>2. /\ In(mq') \subseteq In(mq) \union N
          /\ \A a, b \in In(mq) : Ord(mq, a, b) => Ord(mq', a, b)
          /\ \A a \in In(mq), n \in N : n \in In(mq') => Ord(mq', a, n)
      BY <1>3, <2>4, <2>6, <3>1, PushIn, PushedOrd
    <3>3. /\ \A n \in N : /\ Routed(n, seg') /\ Carries(n, seg)' /\ ~Part(n, seg')
                          /\ n.sig = "DISABLE_APPL_START"
          /\ \A m, n \in N : m = n
      BY <2>4, <2>5, <3>1
    <3> QED BY <1>1, <2>1, <2>2, <2>6, <3>2, <3>3, AnswerStep
  <2>7. ASSUME NEW k \in Keys \ locked, seg' = [seg EXCEPT ![k] = Content(ackAction, NoArg, "OK", <<>>)],
               mq' = Push(Push(mq, d), Message("ID_OUT", k, Id, "UNKNOWN"))
        PROVE  AnswerInv'
    <3>1. PICK a : a = Message("ID_OUT", k, Id, "UNKNOWN")
      OBVIOUS
    <3>2. a.sig = "ID_OUT" /\ a.key = k /\ Via(a, Id, "UNKNOWN")
      BY <3>1 DEF Message, Via
    <3>3. a \notin In(mq) /\ (\A m \in In(mq) : m.key # k) /\ d # a
      BY <1>3, <2>4, <3>2
    <3>4. seg'[a.key].act = Served.act /\ seg'[a.key].reply = "OK"
      BY <1>3, <2>1, <2>7, <3>2 DEF Content
    <3>5. Routed(a, seg') /\ Carries(a, seg)' /\ ~Part(a, seg')
      BY <1>1, <3>2, <3>4 DEF Routed, Carries, Served, Part, Asking
    <3>6. mq' = Push(Push(mq, d), a)
      BY <2>7, <3>1
    <3>7. PICK N : N = {d, a}
      OBVIOUS
    <3>8. /\ In(mq') \subseteq In(mq) \union {d, a}
          /\ \A x, y : Ord(mq, x, y) => Ord(mq', x, y)
          /\ \A x \in In(mq), m \in {d, a} : m \in In(mq') => Ord(mq', x, m)
      BY <1>3, <2>4, <3>3, <3>6, PushedTwice
    <3>9. /\ In(mq') \subseteq In(mq) \union N
          /\ \A x, y \in In(mq) : Ord(mq, x, y) => Ord(mq', x, y)
          /\ \A x \in In(mq), m \in N : m \in In(mq') => Ord(mq', x, m)
          /\ \A m \in In(mq) : seg'[m.key] = seg[m.key]
      BY <1>3, <2>7, <3>3, <3>7, <3>8
    <3>10. /\ \A n \in N : Routed(n, seg') /\ Carries(n, seg)' /\ ~Part(n, seg')
           /\ \A m, n \in N : m.sig = "DISABLE_APPL_START" /\ n.sig = "DISABLE_APPL_START" => m = n
      BY <2>4, <2>5, <3>2, <3>5, <3>7
    <3> QED BY <1>1, <2>1, <2>2, <3>9, <3>10, AnswerStep
  <2>8. \/ mq' = Push(mq, d) /\ UNCHANGED <<locked, seg>>
        \/ \E k \in Keys \ locked :
             /\ seg' = [seg EXCEPT ![k] = Content(ackAction, NoArg, "OK", <<>>)]
             /\ mq' = Push(Push(mq, d), Message("ID_OUT", k, Id, "UNKNOWN"))
    BY <1>11, <2>3 DEF IdFilterEnabled
  <2> QED BY <2>6, <2>7, <2>8
<1> QED BY <1>4, <1>5, <1>7, <1>8, <1>9, <1>10, <1>11 DEF ReceiveId

\* A request is never refused for want of memory: with it there are at most the last part of a
\* read and the announcement of the opening, and none of them is for the buffer.
LEMMA BufferToHave ==
  ASSUME OwnInv, FlowInv, AnswerInv, Segments >= 4, cur # NoMsg, cur.sig = "ID_IN", ispBuffer = None
  PROVE  Keys \ locked # {}
<1>1. /\ cur \in Flight /\ Flight = In(mq) \union {cur} /\ cur \notin In(mq)
      /\ In(mq) \subseteq Msg
  BY HandApart
<1>2. Token(cur, seg) /\ cur.sig \in Asking
  BY DEF Token, Asking
<1>3. \A m \in In(mq) : m.sig = "DISABLE_APPL_START" \/ (Part(m, seg) /\ m.visits = 1)
  <2> SUFFICES ASSUME NEW m \in In(mq) PROVE m.sig = "DISABLE_APPL_START" \/ (Part(m, seg) /\ m.visits = 1)
    OBVIOUS
  <2>1. ~Token(m, seg) /\ m.sig # "APPL_START" /\ m.sig \in Signals
    BY <1>1, <1>2 DEF FlowInv, Msg
  <2>2. m.sig = "DISABLE_APPL_START" \/ Part(m, seg)
    BY <2>1 DEF Token, Part, Asking, Signals
  <2>3. Part(m, seg) => m.visits = 1
    <3>1. Part(m, seg) => m.visits \in {0, 1}
      BY <1>1 DEF AnswerInv, Routed
    <3>2. Part(m, seg) /\ m.visits = 0 => Before(m, cur)
      BY <1>1, <1>2 DEF AnswerInv
    <3> QED BY <3>1, <3>2, HandFirst
  <2> QED BY <2>2, <2>3
<1>4. PICK d : \A m \in In(mq) : m.sig = "DISABLE_APPL_START" => m = d
  BY <1>1 DEF AnswerInv
<1>5. PICK p : \A m \in In(mq) : Part(m, seg) /\ m.visits = 1 => m = p
  BY <1>1 DEF AnswerInv
<1>6. In(mq) \subseteq {d, p}
  BY <1>3, <1>4, <1>5
<1>7. KeysIn(mq) \subseteq {d.key, p.key}
  <2>1. \A k \in KeysIn(mq) : \E m \in In(mq) : m.key = k
    BY DEF KeysIn, In
  <2> QED BY <1>6, <2>1
<1>8. locked = KeysIn(mq) \union {cur.key}
  <2>1. Owns(mq, {cur.key} \union Held, locked) /\ Held = {}
    BY Hand DEF Held
  <2> QED BY <2>1 DEF Owns
<1>9. locked \subseteq {cur.key, d.key, p.key}
  BY <1>7, <1>8
<1>10. {0, 1, 2, 3} \subseteq Keys
  BY SizeAssumption DEF Keys
<1> QED BY <1>9, <1>10

LEMMA IspWithAnswer ==
  ASSUME OwnInv, BufferInv, JobInv, FlowInv, AnswerInv, NEW b, NEW lck, IspWith(b, lck)
  PROVE  AnswerInv'
<1>1. cur # NoMsg /\ cur.sig = "ID_IN" /\ WithBuffer(b, lck)
  BY DEF IspWith, IspFlush, IspShort, IspMemSelect, IspAddr, IspFullErase, IspWrite, IspReadPart, IspReadDone,
         IspInvalid, IspRequest, At
<1>2. waiting' = waiting /\ open' = open /\ ackAction' = ackAction
  BY DEF IspWith, IspFlush, IspShort, IspMemSelect, IspAddr, IspFullErase, IspWrite, IspReadPart, IspReadDone,
         IspInvalid, idVars, hostVars
<1>3. Token(cur, seg) /\ ~Part(cur, seg)
  BY <1>1 DEF Asking, Token, Part
<1>4. /\ mq \in Seq(Msg) /\ KeysIn(mq) \subseteq lck /\ KeysIn(mq) \subseteq lck \ {cur.key}
      /\ b \notin KeysIn(mq) /\ cur.key # b /\ cur.key \in Keys /\ b \in Keys /\ DOMAIN seg = Keys
      /\ \A m \in In(mq) : m.key \in KeysIn(mq)
  <2>1. Owns(mq, {cur.key, b}, lck) /\ cur.key # b /\ cur.key \in Keys /\ b \in Keys
    BY <1>1, BufferOwned, Hand
  <2> QED BY <1>1, <2>1, HandApart DEF Owns, BufferInv, SegInv
<1>5. /\ cur \in Flight /\ cur \notin In(mq) /\ Routed(cur, seg) /\ waiting # <<>>
      /\ seg[cur.key].act = Served.act /\ seg[cur.key].arg = Served.arg
  BY <1>1, <1>3, HandApart DEF AnswerInv, Carries, FlowInv
<1>6. ~DriverBusy
  BY <1>1, DriverReady DEF WithBuffer
<1>7. ASSUME NEW L, KeysIn(mq) \subseteq L, NEW reply, reply = "ERROR" => Refusable(Served), NEW freed,
             Acknowledges(L, IspAck(reply), <<>>, freed)
      PROVE  AnswerInv'
  <2>1. PICK ack : ack = IspAck(reply)
    OBVIOUS
  <2>2. /\ ack.sig = "ISP_OUT" /\ ack.from = Isp /\ ack.act = Served.act /\ ack.reply = reply
        /\ Acknowledges(L, ack, <<>>, freed)
    BY <1>5, <1>7, <2>1 DEF IspAck
  <2> QED BY <1>1, <1>2, <1>3, <1>7, <2>2, AckAnswer
<1>8. CASE IspFlush(b, lck)
  <2>1. PICK m : m = cur
    OBVIOUS
  <2>2. mq' = Push(mq, m) /\ cur' = NoMsg /\ seg' = seg
    BY <1>6, <1>8, <2>1 DEF IspFlush
  <2>3. Carries(m, seg)'
    BY <1>1, <1>2, <1>5, <2>1, <2>2 DEF Carries, Served, Asking, Part
  <2>4. m.key = cur.key /\ Routed(m, seg) /\ ~Part(m, seg) /\ m.sig = "ID_IN"
    BY <1>1, <1>3, <1>5, <2>1
  <2> QED BY <1>1, <1>2, <1>3, <2>2, <2>3, <2>4, SendsAnswer
<1>9. CASE IspShort(b, lck) \/ IspInvalid(b, lck)
  <2>1. cur' = NoMsg /\ mq' = mq /\ seg' = seg
    BY <1>9 DEF IspShort, IspInvalid
  <2> QED BY <1>1, <1>2, <2>1, EndsAnswer
<1>10. CASE IspMemSelect(b, lck)
  <2>1. PICK reply : reply = IF Request.arg \in {1, 2} THEN "OK" ELSE "ERROR"
    OBVIOUS
  <2>2. Acknowledges(lck, IspAck(reply), <<>>, {cur.key}) /\ Request.act = "MEM_SELECT"
    BY <1>10, <2>1 DEF IspMemSelect, IspRequest
  <2>3. reply = "ERROR" => Refusable(Served)
    BY <1>5, <2>1, <2>2 DEF Refusable, Request
  <2> QED BY <1>4, <1>7, <2>2, <2>3
<1>11. CASE IspAddr(b, lck) \/ IspFullErase(b, lck) \/ IspWrite(b, lck)
  <2>1. Acknowledges(lck, IspAck("OK"), <<>>, {cur.key})
    BY <1>6, <1>11 DEF IspAddr, IspFullErase, IspWrite
  <2> QED BY <1>4, <1>7, <2>1
<1>12. CASE IspReadDone(b, lck)
  BY <1>4, <1>7, <1>12 DEF IspReadDone
<1>13. CASE IspReadPart(b, lck)
  <2>1. PICK d : seg' = [seg EXCEPT ![b] = Content("READ", addr, "NONE", d)] /\ d # <<>>
    <3> DEFINE size == ChunkSize(Request.arg - addr)
    <3>1. PICK d : d = [i \in 1..size |-> IF area = "FLASH" THEN flash[(addr + i - 1) % FlashSize]
                                                           ELSE eeprom[(addr + i - 1) % EepromSize]]
      OBVIOUS
    <3>2. DOMAIN d = 1..size
      BY <3>1
    <3>3. seg' = [seg EXCEPT ![b] = Content("READ", addr, "NONE", d)]
      BY <1>13, <3>1, Zenon DEF IspReadPart
    <3>4. addr \in Nat /\ Request.arg \in Int
      BY <1>4, NoArgType DEF BufferInv, SegInv, Request
    <3>5. Request.arg - addr \in Int
      BY <3>4
    <3>6. size \in Nat /\ size >= 1
      BY <3>5, ChunkType
    <3>7. 1 \in DOMAIN d
      BY <3>2, <3>6
    <3>8. DOMAIN <<>> = {}
      OBVIOUS
    <3> QED BY <3>3, <3>7, <3>8
  <2>2. PICK p, m : p = Message("ISP_OUT", b, Isp, "DOWN") /\ m = cur
    OBVIOUS
  <2>3. /\ p.sig = "ISP_OUT" /\ p.key = b /\ Via(p, Isp, "DOWN") /\ p.visits = 0
        /\ p \notin In(mq) /\ m \notin In(mq) /\ p # m
    BY <1>4, <1>5, <2>2 DEF Message, Via
  <2>4. mq' = Push(Push(mq, p), m) /\ cur' = NoMsg
    BY <1>13, <2>2 DEF IspReadPart
  <2>5. /\ In(mq') \subseteq In(mq) \union {p, m}
        /\ \A a, c : Ord(mq, a, c) => Ord(mq', a, c)
        /\ \A a \in In(mq), n \in {p, m} : n \in In(mq') => Ord(mq', a, n)
        /\ {p, m} \subseteq In(mq') => Ord(mq', p, m)
    BY <1>4, <2>3, <2>4, PushedTwice
  <2>6. seg'[b].data # <<>> /\ seg'[b].act = "READ" /\ seg'[b].reply = "NONE" /\ Part(p, seg')
    <3>1. seg'[b] = Content("READ", addr, "NONE", d)
      BY <1>4, <2>1
    <3> QED BY <2>1, <2>3, <3>1 DEF Content, Part
  <2>7. \A n \in In(mq) : seg'[n.key] = seg[n.key]
    BY <1>4, <2>1
  <2>8. seg'[cur.key] = seg[cur.key]
    BY <1>4, <2>1
  <2>9. Served.act = "READ"
    BY <1>5, <1>13 DEF IspReadPart, IspRequest, Request
  <2>10. Routed(p, seg') /\ Carries(p, seg)' /\ ~Token(p, seg')
    <3>1. Routed(p, seg')
      BY <2>3, <2>6 DEF Routed, Via
    <3>2. Carries(p, seg)'
      BY <1>2, <1>5, <2>3, <2>6, <2>9 DEF Carries, Served, Asking
    <3>3. ~Token(p, seg')
      BY <2>3, <2>6 DEF Token, Asking
    <3> QED BY <3>1, <3>2, <3>3
  <2>11. m.sig = "ID_IN" /\ Routed(m, seg') /\ Carries(m, seg)' /\ ~Part(m, seg')
    <3>1. m.sig = "ID_IN" /\ m.key = cur.key
      BY <1>1, <2>2
    <3>2. Routed(m, seg')
      BY <1>5, <2>2, <3>1 DEF Routed, Part
    <3>3. Carries(m, seg)'
      BY <1>2, <1>5, <2>8, <3>1 DEF Carries, Served, Asking, Part
    <3> QED BY <3>1, <3>2, <3>3 DEF Part
  <2>12. PICK N : N = {p, m}
    OBVIOUS
  <2>13. /\ In(mq') \subseteq In(mq) \union N
         /\ \A a, c \in In(mq) : Ord(mq, a, c) => Ord(mq', a, c)
         /\ \A a \in In(mq), n \in N : n \in In(mq') => Ord(mq', a, n)
    BY <2>5, <2>12
  <2>14. \A n \in N : /\ Routed(n, seg') /\ Carries(n, seg)' /\ n.sig # "DISABLE_APPL_START"
                      /\ Part(n, seg') =>
                           /\ n.visits = 0
                           /\ \A t \in N \ {n} :
                                t.sig = "ID_IN" /\ ({n, t} \subseteq In(mq') => Ord(mq', n, t))
    BY <2>3, <2>5, <2>10, <2>11, <2>12
  <2>15. \A n, k \in N : Part(n, seg') /\ Part(k, seg') => n = k
    BY <2>11, <2>12
  <2> QED BY <1>1, <1>2, <1>3, <2>4, <2>7, <2>13, <2>14, <2>15, AnswerStep
<1> QED BY <1>8, <1>9, <1>10, <1>11, <1>12, <1>13 DEF IspWith

LEMMA IspAnswer ==
  ASSUME Segments >= 4, OwnInv, BufferInv, JobInv, FlowInv, AnswerInv, ReceiveIsp
  PROVE  AnswerInv'
<1>1. CASE \E b \in Keys : IspWith(b, IF ispBuffer = None THEN locked \union {b} ELSE locked)
  BY <1>1, IspWithAnswer
<1>2. CASE IspDelay \/ IspCloseWait \/ IspCloseFlush
  <2>1. /\ cur # NoMsg /\ Sends(cur) /\ UNCHANGED <<waiting, open, ackAction>>
        /\ cur.sig # "ISP_OUT"
    BY <1>2 DEF IspDelay, IspCloseWait, IspCloseFlush, At, idVars, hostVars
  <2>2. PICK m : m = cur
    OBVIOUS
  <2> QED BY <2>1, <2>2, PassesAnswer DEF Part
<1>3. CASE IspOther
  <2>1. /\ cur # NoMsg /\ UNCHANGED <<waiting, open, ackAction>> /\ Target(cur) = Isp
        /\ cur.sig \notin {"ID_IN", "COMM_CLOSE"}
    BY <1>3 DEF IspOther, idVars, hostVars
  <2>2. ~Token(cur, seg) /\ ~Part(cur, seg)
    BY <2>1, NotMine
  <2>3. CASE Frees
    BY <2>1, <2>3, EndsAnswer DEF Frees
  <2>4. CASE Sends(Visited(cur))
    <3>1. PICK m : m = Visited(cur)
      OBVIOUS
    <3> QED BY <2>1, <2>2, <2>4, <3>1, PassesAnswer
  <2> QED BY <1>3, <2>3, <2>4 DEF IspOther
<1>4. ~IspNoBuffer
  BY BufferToHave DEF IspNoBuffer, At
<1>5. CASE IspClosed
  <2>1. /\ cur # NoMsg /\ cur.sig = "COMM_CLOSE" /\ waiting' = waiting /\ UNCHANGED <<open, ackAction>>
    BY <1>5 DEF IspClosed, At, idVars, hostVars
  <2>2. /\ Routed(cur, seg) /\ ackAction = Served.act /\ Token(cur, seg)
    BY <2>1, HandApart DEF AnswerInv, Carries, Token, Asking
  <2>3. Toggled(cur.dir) = "DOWN"
    BY <2>1, <2>2 DEF Routed, Via, Toggled
  <2>4. PICK m : m = Resent(cur, "COMM_CLOSED", Isp, Toggled(cur.dir))
    OBVIOUS
  <2>5. m.sig = "COMM_CLOSED" /\ m.key = cur.key /\ Via(m, Isp, "DOWN")
    BY <2>3, <2>4 DEF Resent, Message, Via
  <2>6. mq' = Push(mq, m) /\ cur' = NoMsg /\ seg' = seg
    BY <1>5, <2>4 DEF IspClosed, Sends
  <2>7. Routed(m, seg) /\ ~Part(m, seg)
    BY <2>5 DEF Routed, Part
  <2>8. Carries(m, seg)'
    BY <2>1, <2>2, <2>5, <2>6 DEF Carries, Served, Asking, Part
  <2> QED BY <2>1, <2>2, <2>5, <2>6, <2>7, <2>8, SendsAnswer
<1> QED BY <1>1, <1>2, <1>3, <1>4, <1>5 DEF ReceiveIsp

\* The kernel takes the first message of the queue: it is before all others.
LEMMA PopAnswer ==
  ASSUME OwnInv, AnswerInv, Pop
  PROVE  AnswerInv'
<1>1. /\ mq # <<>> /\ cur' = Head(mq) /\ mq' = Tail(mq) /\ cur = NoMsg
      /\ UNCHANGED <<seg, waiting, open, ackAction>>
  BY DEF Pop, idVars, hostVars
<1>2. mq \in Seq(Msg)
  BY DEF OwnInv, Owns
<1>3. /\ Head(mq) = mq[1] /\ 1 \in DOMAIN mq /\ Len(mq) \in Nat /\ DOMAIN mq = 1..Len(mq)
      /\ DOMAIN Tail(mq) = 1..(Len(mq) - 1)
      /\ \A i \in 1..(Len(mq) - 1) : Tail(mq)[i] = mq[i + 1]
      /\ \A i \in DOMAIN mq : mq[i] \in Msg
  BY <1>1, <1>2
<1>4. Flight' \subseteq Flight /\ NoMsg \notin Flight
  <2>1. In(Tail(mq)) \subseteq In(mq)
    <3> SUFFICES ASSUME NEW i \in 1..(Len(mq) - 1) PROVE Tail(mq)[i] \in In(mq)
      BY <1>3 DEF In
    <3>1. i + 1 \in DOMAIN mq
      BY <1>3
    <3> QED BY <1>3, <3>1 DEF In
  <2>2. Head(mq) \in In(mq)
    BY <1>3 DEF In
  <2>3. NoMsg \notin In(mq)
    <3>1. NoMsg.sig = "INVALID"
      BY DEF NoMsg, Message
    <3>2. NoMsg \notin Msg
      BY <3>1 DEF Msg, Signals
    <3> QED BY <1>3, <3>2 DEF In
  <2> QED BY <1>1, <2>1, <2>2, <2>3 DEF Flight
<1>5. ASSUME NEW a \in Flight, NEW b, Before(a, b)
      PROVE  (a = cur' /\ b \in In(mq')) \/ Ord(mq', a, b)
  <2>1. PICK i \in DOMAIN mq, j \in DOMAIN mq : i < j /\ mq[i] = a /\ mq[j] = b
    BY <1>1, <1>4, <1>5 DEF Before, Ord
  <2>2. /\ i \in Nat /\ j \in Nat /\ i >= 1 /\ j - 1 \in DOMAIN mq' /\ (j - 1) + 1 = j
        /\ mq'[j - 1] = b
    BY <1>1, <1>3, <2>1
  <2>3. CASE i = 1
    BY <1>1, <1>3, <2>1, <2>2, <2>3 DEF In
  <2>4. CASE i # 1
    <3>1. i - 1 \in DOMAIN mq' /\ mq'[i - 1] = a /\ i - 1 < j - 1
      BY <1>1, <1>3, <2>1, <2>2, <2>4
    <3> QED BY <2>2, <3>1 DEF Ord
  <2> QED BY <2>3, <2>4
<1>6. \A m : /\ Routed(m, seg)' <=> Routed(m, seg)
             /\ Carries(m, seg)' <=> Carries(m, seg)
             /\ Token(m, seg)' <=> Token(m, seg)
             /\ Part(m, seg)' <=> Part(m, seg)
  BY <1>1 DEF Routed, Carries, Served, Token, Part
<1>7. \A a \in Flight' : \A b : Before(a, b) => Before(a, b)'
  BY <1>4, <1>5 DEF Before
<1>8. \A m \in Flight' : Routed(m, seg)' /\ Carries(m, seg)'
  BY <1>4, <1>6 DEF AnswerInv
<1>9. \A p, t \in Flight' : Part(p, seg)' /\ Token(t, seg)' =>
        /\ t.sig \in {"ID_OUT", "ISP_OUT"} => Before(p, t)'
        /\ p.visits = 0 => t.sig = "ID_IN" /\ Before(p, t)'
  BY <1>4, <1>6, <1>7 DEF AnswerInv
<1>10. \A p, n \in Flight' : Part(p, seg)' /\ Part(n, seg)' =>
         /\ p.visits = n.visits => p = n
         /\ p.visits = 1 /\ n.visits = 0 => Before(p, n)'
  BY <1>4, <1>6, <1>7 DEF AnswerInv
<1>11. \A d, e \in Flight' : d.sig = "DISABLE_APPL_START" /\ e.sig = "DISABLE_APPL_START" => d = e
  BY <1>4 DEF AnswerInv
<1> QED BY <1>8, <1>9, <1>10, <1>11 DEF AnswerInv

\* A host with nothing under way asks: nothing else asks, and no part of a read is left.
LEMMA HostAnswer ==
  ASSUME OwnInv, BufferInv, HostInv, FlowInv, AnswerInv, Window = 1, NEW r \in Requests, HostRequests(r)
  PROVE  AnswerInv'
<1>1. CanIrqReceive(r) /\ UNCHANGED <<cur, open, ackAction>>
  BY SilentHost DEF HostRequests, CanIrqReceive, idVars
<1>2. waiting = <<>> /\ waiting' # <<>> /\ Served' = r
  <2>1. Len(waiting) < 1 /\ waiting' = Append(waiting, Asked(r)) /\ waiting \in Seq(Waited)
    BY DEF HostRequests, HostInv
  <2>2. Len(waiting) \in Nat /\ waiting = <<>>
    BY <2>1
  <2>3. PICK w : w = Asked(r)
    OBVIOUS
  <2>4. Append(<<>>, w) = <<w>> /\ <<w>> # <<>> /\ Head(<<w>>) = w
    OBVIOUS
  <2>5. w.req = r
    BY <2>3 DEF Asked
  <2> QED BY <2>1, <2>2, <2>3, <2>4, <2>5 DEF Served
<1>3. \A m \in Flight : ~Token(m, seg) /\ ~Part(m, seg)
  BY <1>2 DEF FlowInv, AnswerInv, Carries
<1>4. \A m \in Flight : m.sig \notin Asking \union {"ID_OUT", "ISP_OUT"}
  BY <1>3 DEF Token, Part
<1>5. \A m \in Flight : /\ Routed(m, seg') /\ Carries(m, seg)' /\ ~Token(m, seg') /\ ~Part(m, seg')
  BY <1>4 DEF Routed, Carries, Token, Part, Asking
<1>6. CASE UNCHANGED <<mq, locked, seg>>
  <2>1. Flight' = Flight
    BY <1>1, <1>6 DEF Flight
  <2> QED BY <1>5, <2>1 DEF AnswerInv
<1>7. ASSUME NEW k \in Keys \ locked, seg' = [seg EXCEPT ![k] = Content(r.act, r.arg, "NONE", r.data)],
             mq' = Push(mq, Message("PHY_IN", k, CanPhy, "UP"))
      PROVE  AnswerInv'
  <2>1. PICK p : p = Message("PHY_IN", k, CanPhy, "UP")
    OBVIOUS
  <2>2. p.sig = "PHY_IN" /\ p.key = k /\ Via(p, CanPhy, "UP")
    BY <2>1 DEF Message, Via
  <2>3. Flight' \subseteq Flight \union {p}
    <3>1. mq \in Seq(Msg)
      BY DEF OwnInv, Owns
    <3>2. In(Push(mq, p)) \subseteq In(mq) \union {p}
      BY <3>1, PushIn
    <3> QED BY <1>1, <1>7, <2>1, <3>2 DEF Flight
  <2>4. seg'[k].act = r.act /\ seg'[k].arg = r.arg
    <3>1. k \in DOMAIN seg
      BY DEF BufferInv, SegInv
    <3>2. seg'[k] = Content(r.act, r.arg, "NONE", r.data)
      BY <1>7, <3>1
    <3> QED BY <3>2 DEF Content
  <2>5. Routed(p, seg') /\ ~Part(p, seg') /\ p.sig # "DISABLE_APPL_START"
    BY <2>2 DEF Routed, Part
  <2>6. Carries(p, seg)'
    BY <1>2, <2>2, <2>4 DEF Carries, Asking, Part
  <2>7. \A m \in Flight' : Routed(m, seg') /\ Carries(m, seg)' /\ ~Part(m, seg')
    BY <1>5, <2>3, <2>5, <2>6
  <2>8. \A d, e \in Flight' : d.sig = "DISABLE_APPL_START" /\ e.sig = "DISABLE_APPL_START" => d = e
    BY <2>3, <2>5 DEF AnswerInv
  <2> QED BY <2>7, <2>8 DEF AnswerInv
<1> QED BY <1>1, <1>6, <1>7 DEF CanIrqReceive

LEMMA InitAnswer == Init => AnswerInv
<1> SUFFICES ASSUME Init PROVE AnswerInv
  OBVIOUS
<1>1. Flight = {}
  BY DEF Init, Flight, In
<1> QED BY <1>1 DEF AnswerInv

LEMMA NextAnswer ==
  ASSUME Window = 1, Segments >= 4, OwnInv, BufferInv, JobInv, HostInv, FlowInv, AnswerInv, [Next]_vars
  PROVE  AnswerInv'
<1>1. CASE Pop
  BY <1>1, PopAnswer
<1>2. CASE Receive
  BY <1>2, CanPhyAnswer, IdAnswer, IspAnswer DEF Receive
<1>3. CASE Interrupt
  <2>1. UNCHANGED <<mq, cur, seg, waiting, ackAction, open>>
    BY <1>3 DEF Interrupt, SpmInterrupt, SpmInterruptExit, EeInterrupt, EeInterruptExit, WriteComplete,
                EraseComplete, ipcVars, idVars, hostVars
  <2> QED BY <2>1, StillAnswer
<1>4. ASSUME NEW r \in Requests, HostRequests(r) PROVE AnswerInv'
  BY <1>4, HostAnswer
<1>5. CASE HostGivesUp
  <2>1. mq' = <<>> /\ cur' = NoMsg
    BY <1>5 DEF HostGivesUp, Idle, ipcVars
  <2>2. Flight' = {}
    BY <2>1 DEF Flight, In
  <2> QED BY <2>2 DEF AnswerInv
<1>6. CASE UNCHANGED vars
  <2>1. UNCHANGED <<mq, cur, seg, waiting, ackAction, open>>
    BY <1>6 DEF vars, ipcVars, idVars, hostVars
  <2> QED BY <2>1, StillAnswer
<1> QED BY <1>1, <1>2, <1>3, <1>4, <1>5, <1>6 DEF Next

\* A host that has one request under way at a time is answered what it asked, and is refused
\* nothing but a memory that is not there (S_Id.cpp, S_Isp.cpp: every answer carries the
\* action of the request, and the programmer's driver and buffer are there when it wants
\* them).  Four segments are enough: at most the request, the last part of a read, the
\* announcement of the opening and the programmer's buffer are there together.
THEOREM HostIsAnsweredAptly == ASSUME Window = 1, Segments >= 4 PROVE Spec => []AnswersFit
<1> DEFINE IInv == OwnInv /\ BufferInv /\ JobInv /\ HostInv /\ FlowInv /\ AnswerInv
<1>1. Init => IInv
  BY InitOwns, InitBuffer, InitJobs, InitFlow, InitAnswer
<1>2. IInv /\ [Next]_vars => IInv'
  BY NextOwns, NextBuffer, NextJobs, NextHost, NextFlow, NextAnswer
<1>3. IInv => AnswersFit
  <2> SUFFICES ASSUME IInv, Answering PROVE /\ waiting # <<>>
                                            /\ seg[cur.key].act = Served.act
                                            /\ seg[cur.key].reply = "ERROR" => Refusable(Served)
    BY DEF AnswersFit, Served
  <2>1. cur \in Flight /\ cur.sig \in {"ID_OUT", "ISP_OUT"}
    BY HandApart DEF Answering
  <2>2. Carries(cur, seg)
    BY <2>1 DEF AnswerInv
  <2>3. Token(cur, seg) \/ Part(cur, seg)
    BY <2>1 DEF Token, Part
  <2>4. waiting # <<>>
    BY <2>1, <2>2, <2>3 DEF FlowInv, Carries
  <2> QED BY <2>1, <2>2, <2>4 DEF Carries
<1> HIDE DEF IInv
<1> QED BY <1>1, <1>2, <1>3, PTL DEF Spec
-----------------------------------------------------------------------------
(***************************************************************************)
(* The memories.  What the host was promised to find is in the memory, in  *)
(* the programmer's buffer, or on the page the flash job has erased and is *)
(* about to write.                                                         *)
(***************************************************************************)
Cells(a) == 0..(Sizes(a) - 1)
Promised(a, i) == image[a][i] # NoPromise
Found(a, i) == Promised(a, i) => Memory[a][i] = image[a][i]

\* The first byte of the page of a.
Start(a) == PageOf(a) * PageSize

StoreTypes ==
  /\ area \in Areas
  /\ DOMAIN image = Areas /\ \A a \in Areas : DOMAIN image[a] = Cells(a)
  /\ DOMAIN flash = Cells("FLASH") /\ DOMAIN eeprom = Cells("EEPROM") /\ DOMAIN page = 0..(PageSize - 1)

(* The buffer holds promised bytes from addr on, and flash is programmed from low to high
   addresses: what is promised lies below, the pages above are blank. *)
InBuffer(a, i) == a = area /\ i \in addr..(Position - 1)
BlankAbove(x) == \A i \in Cells("FLASH") : Start(x) + PageSize <= i => flash[i] = Blank
LowerThan(x) == \A i \in Cells("FLASH") : Promised("FLASH", i) => i < x
BufferOrdered ==
  ispData # <<>> =>
    /\ Position <= Sizes(area)
    /\ \A j \in 1..Len(ispData) : image[area][addr + j - 1] = ispData[j]
    /\ area = "FLASH" => LowerThan(Position) /\ (spm.cb = "none" => BlankAbove(addr))

PageStart == Start(spm.dest)
OnThisPage(i) == PageStart <= i /\ i < PageStart + PageSize
Rewritten(i) == spm.handler = "write" /\ OnThisPage(i)
KeptInv ==
  /\ \A i \in Cells("EEPROM") : InBuffer("EEPROM", i) \/ Found("EEPROM", i)
  /\ \A i \in Cells("FLASH") : InBuffer("FLASH", i) \/ Rewritten(i) \/ Found("FLASH", i)

(* The write of flash: the pages below this one are written, the bytes of this one are loaded up
   to tmp, and it is blank unless it is the page the buffer begins on. *)
Larger(a, b) == IF a < b THEN b ELSE a
Remaining(buffer, from) ==
  /\ buffer \in Seq(Data) /\ Len(buffer) = Larger(0, Position - from)
  /\ \A j \in 1..Len(buffer) : buffer[j] = ispData[from - addr + j]
Loaded == \A i \in Cells("FLASH") :
            PageStart <= i /\ i < spm.tmp /\ Promised("FLASH", i) => page[i - PageStart] = image["FLASH"][i]
PageJob ==
  /\ spm.dest \in Nat /\ spm.dest = Larger(addr, PageStart)
  /\ spm.fill \in 0..PageSize /\ spm.fill % 2 = 0 /\ spm.tmp = PageStart + spm.fill
  /\ spm.fill # 0 => PageStart < Position
  /\ Remaining(spm.buffer, Larger(addr, spm.tmp))
  /\ \A i \in Cells("FLASH") : i < PageStart => Found("FLASH", i)
  /\ Loaded
  /\ \A i \in Cells("FLASH") : PageStart <= i /\ Start(addr) + PageSize <= i => flash[i] = Blank
FlashJobInv ==
  spm.cb = "write" =>
    /\ area = "FLASH" /\ spm.handler \in {"load", "write", "exit"}
    /\ spm.handler = "exit" => \A i \in Cells("FLASH") : Found("FLASH", i)
    /\ spm.handler # "exit" => PageJob
    /\ spm.handler = "load" /\ PageStart <= addr => readable
    /\ spm.handler = "write" => spm.fill = PageSize /\ \A i \in Cells("FLASH") : OnThisPage(i) => flash[i] = Blank

EepromJobInv ==
  ee.cb = "write" =>
    /\ area = "EEPROM" /\ ee.addr \in addr..Position /\ ee.dest = Position - 1
    /\ Remaining(ee.buffer, ee.addr)
    /\ \A i \in Cells("EEPROM") : i < ee.addr => Found("EEPROM", i)

EraseJobInv ==
  /\ spm.cb = "erase" =>
       /\ ispData = <<>> /\ \A i \in Cells("FLASH") : ~Promised("FLASH", i)
       /\ spm.dest \in Nat /\ Start(spm.dest) = spm.dest /\ spm.handler \in {"erase", "exit"}
       /\ \A i \in Cells("FLASH") : i < spm.dest \/ spm.handler = "exit" => flash[i] = Blank
  /\ ee.cb = "erase" => ispData = <<>> /\ \A i \in Cells("EEPROM") : ~Promised("EEPROM", i)

MemoryInv == StoreTypes /\ BufferOrdered /\ KeptInv /\ FlashJobInv /\ EepromJobInv /\ EraseJobInv

(* A write of a careful host on its way to the programmer: when it gets there, there is room for
   its bytes, and flash is still as the host left it. *)
Ins == {"PHY_IN", "ID_IN"}
Writing(m, s) == m.sig \in Ins /\ s[m.key].act = "WRITE"
RoomAt(n) ==
  /\ Position + n <= Sizes(area)
  /\ area = "FLASH" => LowerThan(Position) /\ (spm.cb = "erase" \/ BlankAbove(Position))
CareInv == \A m \in Flight : Writing(m, seg) => RoomAt(Len(seg[m.key].data))

(* The bytes on their way to the host: parts of a read, and nothing else. *)
Outs == {"ID_OUT", "ISP_OUT"}
Bytes(m, s) == m.sig \in Outs /\ s[m.key].data # <<>>
AsPromised(c) == \A i \in DOMAIN c.data :
                   c.arg + i - 1 \in Cells(area) => image[area][c.arg + i - 1] \in {NoPromise, c.data[i]}
PartInv == \A m \in Flight : Bytes(m, seg) => /\ m.sig = "ISP_OUT" /\ seg[m.key].act = "READ"
                                                /\ AsPromised(seg[m.key])

-----------------------------------------------------------------------------
(* Pages. *)

LEMMA PageFacts ==
  /\ PageSize \in Nat /\ PageSize > 0 /\ FlashSize \in Nat /\ EepromSize \in Nat
  /\ PageSize % 2 = 0
BY PageAssumption

\* The page of an address, and the place of the address on it.
LEMMA PageIs ==
  ASSUME NEW a \in Nat
  PROVE  /\ PageOf(a) \in Nat /\ Start(a) \in Nat
         /\ Start(a) <= a /\ a < Start(a) + PageSize
         /\ a % PageSize = a - Start(a)
<1>1. PageSize \in Nat /\ PageSize > 0
  BY PageFacts
<1> DEFINE p == PageSize
           k == a \div p
<1>2. k \in Nat /\ a = p * k + (a % p) /\ 0 <= a % p /\ a % p < p
  BY <1>1
<1>3. k * p = p * k /\ p * k \in Nat
  BY <1>1, <1>2
<1> QED BY <1>1, <1>2, <1>3 DEF PageOf, Start

\* Multiples of the page size.
LEMMA Multiples ==
  ASSUME NEW j \in Nat, NEW k \in Nat
  PROVE  /\ j * PageSize \in Nat
         /\ (j + 1) * PageSize = j * PageSize + PageSize
         /\ j < k => j * PageSize + PageSize <= k * PageSize
<1>1. PageSize \in Nat /\ PageSize > 0
  BY PageFacts
<1>2. (j + 1) * PageSize = j * PageSize + PageSize /\ j * PageSize \in Nat /\ k * PageSize \in Nat
  BY <1>1
<1>3. ASSUME j < k PROVE (j + 1) * PageSize <= k * PageSize
  BY <1>1, <1>3
<1> QED BY <1>2, <1>3

\* Pages follow each other.
LEMMA PageOrder ==
  ASSUME NEW a \in Nat, NEW b \in Nat
  PROVE  /\ PageOf(a) = PageOf(b) <=> Start(b) <= a /\ a < Start(b) + PageSize
         /\ PageOf(a) > PageOf(b) <=> Start(b) + PageSize <= a
         /\ a <= b => Start(a) <= Start(b)
<1> DEFINE j == PageOf(a)
           k == PageOf(b)
<1>1. /\ j \in Nat /\ k \in Nat /\ PageSize \in Nat
      /\ Start(a) = j * PageSize /\ Start(b) = k * PageSize
      /\ Start(a) <= a /\ a < Start(a) + PageSize /\ Start(b) <= b /\ b < Start(b) + PageSize
      /\ Start(a) \in Nat /\ Start(b) \in Nat
  BY PageIs, PageFacts DEF Start
<1> HIDE DEF j, k
<1>2. j < k => Start(a) + PageSize <= Start(b)
  BY <1>1, Multiples
<1>3. k < j => Start(b) + PageSize <= Start(a)
  BY <1>1, Multiples
<1>4. j = k => Start(a) = Start(b)
  BY <1>1
<1>5. j < k \/ k < j \/ j = k
  BY <1>1
<1>6. (j = k <=> Start(b) <= a /\ a < Start(b) + PageSize) /\ (j > k <=> Start(b) + PageSize <= a)
      /\ (a <= b => Start(a) <= Start(b))
  BY <1>1, <1>2, <1>3, <1>4, <1>5
<1> QED BY <1>6 DEF j, k

\* The start of a page is on that page, and the next page starts where it ends.
LEMMA PageStarts ==
  ASSUME NEW a \in Nat
  PROVE  /\ Start(Start(a)) = Start(a)
         /\ Start(Start(a) + PageSize) = Start(a) + PageSize
<1>1. Start(a) \in Nat /\ PageSize \in Nat /\ PageSize > 0 /\ PageOf(a) \in Nat
  BY PageIs, PageFacts
<1>2. PageOf(Start(a)) = PageOf(a)
  <2>1. Start(a) <= Start(a) /\ Start(a) < Start(a) + PageSize
    BY <1>1
  <2> QED BY <1>1, <2>1, PageOrder
<1> DEFINE b == Start(a) + PageSize
<1>3. b \in Nat /\ PageOf(b) > PageOf(a) /\ PageOf(b) \in Nat
  <2>1. b \in Nat /\ Start(a) + PageSize <= b
    BY <1>1
  <2> HIDE DEF b
  <2> QED BY <2>1, PageOrder, PageIs
<1>4. Start(b) <= b /\ Start(b) = PageOf(b) * PageSize /\ Start(b) \in Nat
  <2> HIDE DEF b
  <2> QED BY <1>3, PageIs DEF Start
<1>5. PageOf(a) * PageSize + PageSize <= PageOf(b) * PageSize
  BY <1>1, <1>3, Multiples
<1>6. b <= Start(b)
  BY <1>4, <1>5 DEF Start
<1>7. Start(b) = b
  BY <1>3, <1>4, <1>6
<1> QED BY <1>2, <1>7 DEF Start

\* The cells that a page operation touches.
LEMMA OnPageIs ==
  ASSUME NEW a \in Nat, NEW i \in Cells("FLASH")
  PROVE  i \in OnPage(a) <=> Start(a) <= i /\ i < Start(a) + PageSize
<1>1. i \in Nat /\ i \in 0..(FlashSize - 1)
  BY PageFacts DEF Cells, Sizes
<1> QED BY <1>1, PageOrder DEF OnPage

-----------------------------------------------------------------------------
(* Where the messages come from: a message that asks or answers is one that was there before,
   with the same contents, or an acknowledgement. *)
Descends(m) == \E n \in Flight : /\ seg'[m.key] = seg[n.key]
                                 /\ m.sig \in Ins => n.sig \in Ins
                                 /\ m.sig \in Outs => n.sig = m.sig
Silent(m) == m.sig \notin Ins /\ (m.sig \in Outs => seg'[m.key].data = <<>>)
Inherited == \A m \in Flight' : Descends(m) \/ Silent(m)

\* The same messages, or fewer.
LEMMA StaysInherits ==
  ASSUME Flight' \subseteq Flight, seg' = seg
  PROVE  Inherited
BY DEF Inherited, Descends

\* What the queue keeps while the message in hand becomes those of N.
LEMMA QueueInherits ==
  ASSUME OwnInv, cur # NoMsg, cur' = NoMsg, NEW N, In(mq') \subseteq In(mq) \union N,
         \A m \in In(mq) : seg'[m.key] = seg[m.key],
         \A m \in N : Descends(m) \/ Silent(m)
  PROVE  Inherited
<1>1. In(mq) \subseteq Flight /\ Flight' \subseteq In(mq) \union N
  BY HandApart DEF Flight
<1>2. \A m \in In(mq) : Descends(m)
  BY <1>1 DEF Descends
<1> QED BY <1>1, <1>2 DEF Inherited

\* A handler that sends the message it was given.
LEMMA SendsInherits ==
  ASSUME OwnInv, cur # NoMsg, NEW m, Sends(m), m.key = cur.key,
         m.sig \in Ins => cur.sig \in Ins, m.sig \in Outs => m.sig = cur.sig
  PROVE  Inherited
<1>1. mq' = Push(mq, m) /\ cur' = NoMsg /\ seg' = seg /\ mq \in Seq(Msg) /\ cur \in Flight
  BY HandApart DEF Sends
<1>2. PICK N : N = {m}
  OBVIOUS
<1>3. In(mq') \subseteq In(mq) \union N
  BY <1>1, <1>2, PushIn
<1>4. \A n \in N : Descends(n)
  BY <1>1, <1>2 DEF Descends
<1> QED BY <1>1, <1>3, <1>4, QueueInherits

\* A handler that ends it.
LEMMA EndsInherits ==
  ASSUME OwnInv, cur # NoMsg, cur' = NoMsg, mq' = mq, seg' = seg
  PROVE  Inherited
<1>1. Flight' \subseteq Flight
  BY DEF Flight
<1> QED BY <1>1, StaysInherits

\* A handler that acknowledges it.
LEMMA AckInherits ==
  ASSUME OwnInv, BufferInv, cur # NoMsg, NEW lck, KeysIn(mq) \subseteq lck,
         NEW ack, NEW after, NEW freed, Acknowledges(lck, ack, after, freed),
         ack.sig \in Outs,
         \/ after = <<>>
         \/ after = <<ToAppl(cur)>> /\ cur.key \in lck
  PROVE  Inherited
<1>1. cur' = NoMsg /\ DOMAIN seg = Keys
  BY DEF Acknowledges, BufferInv, SegInv
<1>2. PICK A : A = IF after = <<>> THEN {} ELSE {ToAppl(cur)}
  OBVIOUS
<1>3. \A m \in A : m.key = cur.key /\ m.sig = "APPL_START"
  BY <1>2 DEF ToAppl, Resent, Message
<1>4. cur.key \notin KeysIn(mq)
  <2>1. Owns(mq, {cur.key} \union Held, locked)
    BY Hand
  <2> QED BY <2>1 DEF Owns
<1>5. /\ after = <<>> \/ \E m \in A : after = <<m>>
      /\ \A m, n \in A : m = n
      /\ \A m \in A : m.key \in lck \ KeysIn(mq)
  <2>1. <<ToAppl(cur)>> # <<>>
    OBVIOUS
  <2>2. CASE after = <<>>
    BY <1>2, <2>2
  <2>3. CASE after = <<ToAppl(cur)>> /\ cur.key \in lck
    BY <1>2, <1>3, <1>4, <2>1, <2>3
  <2> QED BY <2>2, <2>3
<1>6. PICK N : AckedBy(ack, N, N \union A)
  BY <1>1, <1>5, AckQueue
<1>7. \A m \in N \union A : Silent(m)
  <2>1. \A m \in N : m.sig = ack.sig /\ seg'[m.key].data = <<>>
    BY <1>6 DEF AckedBy, Content
  <2> QED BY <1>3, <2>1 DEF Silent, Ins, Outs
<1> QED BY <1>1, <1>6, <1>7, QueueInherits DEF AckedBy

\* The kernel takes a message: it is under way as before.
LEMMA PopInherits ==
  ASSUME OwnInv, Pop
  PROVE  Inherited
<1>1. mq # <<>> /\ cur' = Head(mq) /\ mq' = Tail(mq) /\ seg' = seg /\ mq \in Seq(Msg)
  BY DEF Pop, OwnInv, Owns
<1>2. /\ Head(mq) = mq[1] /\ 1 \in DOMAIN mq /\ Len(mq) \in Nat /\ DOMAIN mq = 1..Len(mq)
      /\ DOMAIN Tail(mq) = 1..(Len(mq) - 1)
      /\ \A i \in 1..(Len(mq) - 1) : Tail(mq)[i] = mq[i + 1]
  BY <1>1
<1>3. In(Tail(mq)) \subseteq In(mq)
  <2> SUFFICES ASSUME NEW i \in 1..(Len(mq) - 1) PROVE Tail(mq)[i] \in In(mq)
    BY <1>2 DEF In
  <2>1. i + 1 \in DOMAIN mq
    BY <1>2
  <2> QED BY <1>2, <2>1 DEF In
<1>4. Head(mq) \in In(mq)
  BY <1>2 DEF In
<1>5. Flight' \subseteq Flight
  BY <1>1, <1>3, <1>4 DEF Flight
<1> QED BY <1>1, <1>5, StaysInherits

\* Whatever the two other servers do with it.
LEMMA OthersInherit ==
  ASSUME OwnInv, BufferInv, ReceiveCanPhy \/ ReceiveId
  PROVE  Inherited
<1>1. cur # NoMsg
  BY DEF ReceiveCanPhy, CanPhyOut, CanPhyEnableFilter, CanPhyApplStart, CanPhyOther, ReceiveId, IdClosed,
         IdApplStart, IdOwn, IdEmpty, IdDelay, IdSelectOpen, IdSelectClose, IdForward, IdRequest, IdTrash,
         IdFilterEnabled, IdOther, At, AtAny
<1>2. /\ cur \in Msg /\ cur \in Flight /\ mq \in Seq(Msg) /\ KeysIn(mq) \subseteq locked
      /\ cur.key \in locked /\ \A m \in In(mq) : m.key \in KeysIn(mq)
  BY <1>1, HandApart, Hand
<1>3. CASE Frees
  BY <1>1, <1>3, EndsInherits DEF Frees
<1>4. CASE Sends(cur)
  BY <1>1, <1>4, SendsInherits
<1>5. CASE Sends(Visited(cur))
  <2>1. PICK m : m = Visited(cur)
    OBVIOUS
  <2>2. m.key = cur.key /\ m.sig = cur.sig
    BY <1>2, <2>1 DEF Visited, Msg
  <2> QED BY <1>1, <1>5, <2>1, <2>2, SendsInherits
<1>6. ASSUME NEW sig, NEW from, NEW dir, Sends(Resent(cur, sig, from, dir)),
             sig \in Ins => cur.sig \in Ins, sig \notin Outs
      PROVE  Inherited
  <2>1. PICK m : m = Resent(cur, sig, from, dir)
    OBVIOUS
  <2>2. m.key = cur.key /\ m.sig = sig
    BY <2>1 DEF Resent, Message
  <2> QED BY <1>1, <1>6, <2>1, <2>2, SendsInherits
<1>7. CASE ReceiveCanPhy
  <2>1. CASE CanPhyOut \/ CanPhyOther
    BY <1>3, <1>5, <2>1 DEF CanPhyOut, CanPhyOther
  <2>2. CASE CanPhyEnableFilter
    <3>1. "ID_FILTER_ENABLED" \notin Ins \union Outs
      BY DEF Ins, Outs
    <3> QED BY <1>3, <1>6, <2>2, <3>1 DEF CanPhyEnableFilter
  <2>3. CASE CanPhyApplStart
    BY <1>5, <2>3 DEF CanPhyApplStart
  <2> QED BY <1>7, <2>1, <2>2, <2>3 DEF ReceiveCanPhy
<1>8. ASSUME NEW after, NEW reply, NEW freed, Acknowledges(locked, IdAck(reply), after, freed),
             after = <<>> \/ after = <<ToAppl(cur)>>
      PROVE  Inherited
  <2>1. PICK ack : ack = IdAck(reply)
    OBVIOUS
  <2>2. ack.sig \in Outs
    BY <2>1 DEF IdAck, Outs
  <2> QED BY <1>1, <1>2, <1>8, <2>1, <2>2, AckInherits
<1>9. CASE IdClosed \/ IdOwn
  BY <1>3, <1>8, <1>9 DEF IdClosed, IdOwn
<1>10. CASE IdApplStart
  <2>1. Flight' \subseteq Flight /\ seg' = seg
    BY <1>10 DEF IdApplStart, ipcVars, Flight
  <2> QED BY <2>1, StaysInherits
<1>11. CASE IdEmpty \/ IdDelay \/ IdTrash \/ IdOther
  BY <1>3, <1>4, <1>5, <1>11 DEF IdEmpty, IdDelay, IdTrash, IdOther
<1>12. CASE IdSelectOpen \/ IdSelectClose \/ IdForward
  <2>1. /\ "ENABLE_ID_FILTER" \notin Ins \union Outs /\ "COMM_CLOSE" \notin Ins \union Outs
        /\ "ID_IN" \notin Outs /\ (IdForward => cur.sig \in Ins)
    BY DEF Ins, Outs, IdForward, IdRequest, At
  <2> QED BY <1>6, <1>12, <2>1 DEF IdSelectOpen, IdSelectClose, IdForward
<1>13. CASE IdFilterEnabled
  <2>1. PICK d : d = Message("DISABLE_APPL_START", cur.key, Id, "UNKNOWN")
    OBVIOUS
  <2>2. Silent(d) /\ cur' = NoMsg
    BY <1>13, <2>1 DEF IdFilterEnabled, Silent, Message, Ins, Outs
  <2>3. CASE mq' = Push(mq, d) /\ seg' = seg
    <3>1. PICK N : N = {d}
      OBVIOUS
    <3>2. In(mq') \subseteq In(mq) \union N
      BY <1>2, <2>3, <3>1, PushIn
    <3> QED BY <1>1, <2>2, <2>3, <3>1, <3>2, QueueInherits
  <2>4. ASSUME NEW k \in Keys \ locked, seg' = [seg EXCEPT ![k] = Content(ackAction, NoArg, "OK", <<>>)],
               mq' = Push(Push(mq, d), Message("ID_OUT", k, Id, "UNKNOWN"))
        PROVE  Inherited
    <3>1. PICK a : a = Message("ID_OUT", k, Id, "UNKNOWN")
      OBVIOUS
    <3>2. a.sig = "ID_OUT" /\ a.key = k
      BY <3>1 DEF Message
    <3>3. seg'[k].data = <<>>
      BY <2>4 DEF BufferInv, SegInv, Content
    <3>4. Silent(a)
      BY <3>2, <3>3 DEF Silent, Ins, Outs
    <3>5. PICK N : N = {d, a}
      OBVIOUS
    <3>6. In(mq') \subseteq In(mq) \union N
      <4>1. mq \in Seq(Msg \union {d}) /\ d \in Msg \union {d}
        BY <1>2
      <4>2. Push(mq, d) \in Seq(Msg \union {d}) /\ In(Push(mq, d)) \subseteq In(mq) \union {d}
        BY <4>1, PushIn
      <4>3. In(Push(Push(mq, d), a)) \subseteq In(Push(mq, d)) \union {a}
        BY <4>2, PushIn
      <4> QED BY <2>4, <3>1, <3>5, <4>2, <4>3
    <3>7. \A m \in In(mq) : seg'[m.key] = seg[m.key]
      BY <1>2, <2>4
    <3> QED BY <1>1, <2>2, <3>4, <3>5, <3>6, <3>7, QueueInherits
  <2> QED BY <1>13, <2>1, <2>3, <2>4 DEF IdFilterEnabled
<1> QED BY <1>7, <1>9, <1>10, <1>11, <1>12, <1>13 DEF ReceiveId

-----------------------------------------------------------------------------
(* The memories under the programmer's handlers. *)

\* A step that leaves the memories, and what the programmer knows of them, alone.
LEMMA StoreStill ==
  ASSUME MemoryInv, UNCHANGED <<memVars, area, addr, ispData, image>>
  PROVE  MemoryInv'
<1>1. UNCHANGED <<flash, page, readable, spm, eeprom, ee, area, addr, ispData, image>>
  BY DEF memVars
<1>2. StoreTypes' /\ BufferOrdered'
  BY <1>1 DEF MemoryInv, StoreTypes, BufferOrdered, LowerThan, BlankAbove, Promised, Position
<1>3. KeptInv'
  BY <1>1 DEF MemoryInv, KeptInv, InBuffer, Found, Promised, Rewritten, OnThisPage, PageStart, Memory, Position
<1>4. FlashJobInv'
  BY <1>1 DEF MemoryInv, FlashJobInv, PageJob, Found, Promised, OnThisPage, PageStart, Memory, Position,
              Remaining, Loaded
<1>5. EepromJobInv' /\ EraseJobInv'
  BY <1>1 DEF MemoryInv, EepromJobInv, EraseJobInv, Remaining, Found, Promised, Memory, Position
<1> QED BY <1>2, <1>3, <1>4, <1>5 DEF MemoryInv

\* With no job under way the invariants of the jobs say nothing.
LEMMA NoJobs ==
  ASSUME spm.cb = "none", ee.cb = "none"
  PROVE  FlashJobInv /\ EepromJobInv /\ EraseJobInv
BY DEF FlashJobInv, EepromJobInv, EraseJobInv

\* No bytes in the buffer, nothing in the buffer's place.
LEMMA EmptyBuffer ==
  ASSUME ispData = <<>>, addr \in Nat
  PROVE  Position = addr /\ BufferOrdered /\ \A a, i : ~InBuffer(a, i)
<1>1. Position = addr
  <2>1. Len(<<>>) = 0
    OBVIOUS
  <2> QED BY <2>1 DEF Position
<1>2. addr..(addr - 1) = {}
  OBVIOUS
<1> QED BY <1>1, <1>2 DEF BufferOrdered, InBuffer

\* The programmer moves to another place or memory, with an empty buffer and no job.
LEMMA MovesStore ==
  ASSUME JobInv, BufferInv, MemoryInv, ~inProgress, ispData = <<>>, ispData' = <<>>,
         UNCHANGED <<memVars, image>>, addr' \in Nat, area' \in Areas
  PROVE  MemoryInv'
<1>1. UNCHANGED <<flash, page, readable, spm, eeprom, ee, image>>
  BY DEF memVars
<1>2. spm.cb = "none" /\ ee.cb = "none" /\ spm.handler = "exit"
  BY DEF JobInv, FlashBusy, EepromBusy
<1>3. FlashJobInv' /\ EepromJobInv' /\ EraseJobInv'
  BY <1>1, <1>2, NoJobs DEF FlashJobInv, EepromJobInv, EraseJobInv
<1>4. BufferOrdered'
  BY DEF BufferOrdered
<1>5. StoreTypes'
  BY <1>1 DEF MemoryInv, StoreTypes
<1>6. KeptInv'
  <2>1. \A a, i : ~InBuffer(a, i)
    BY EmptyBuffer DEF BufferInv
  <2>2. /\ \A i \in Cells("EEPROM") : Found("EEPROM", i)
        /\ \A i \in Cells("FLASH") : Found("FLASH", i)
    BY <1>2, <2>1 DEF MemoryInv, KeptInv, Rewritten
  <2>3. \A a, i : Found(a, i)' = Found(a, i)
    BY <1>1 DEF Found, Promised, Memory
  <2> QED BY <2>2, <2>3 DEF KeptInv
<1> QED BY <1>3, <1>4, <1>5, <1>6 DEF MemoryInv

\* The buffer is handed to a driver.
LEMMA WriteBegins ==
  ASSUME JobInv, BufferInv, MemoryInv, ~inProgress, ispData # <<>>, WriteAsync,
         UNCHANGED <<area, addr, ispData, image>>
  PROVE  MemoryInv'
<1>1. spm.cb = "none" /\ ee.cb = "none" /\ spm.handler = "exit" /\ readable
  BY DEF JobInv, FlashBusy, EepromBusy
<1>2. addr \in Nat /\ ispData \in Seq(Data) /\ Len(ispData) \in Nat /\ Position = addr + Len(ispData)
  BY DEF BufferInv, Fits, Position
<1>3. UNCHANGED <<flash, page, readable, eeprom>>
  BY DEF WriteAsync, FlashWriteAsync, EepromWriteAsync
<1>4. StoreTypes'
  BY <1>3 DEF MemoryInv, StoreTypes
<1>5. /\ Position' = Position
      /\ \A a, i : /\ Found(a, i)' = Found(a, i) /\ Promised(a, i)' = Promised(a, i)
                   /\ InBuffer(a, i)' = InBuffer(a, i)
      /\ \A x : BlankAbove(x)' = BlankAbove(x) /\ LowerThan(x)' = LowerThan(x)
  BY <1>3 DEF Found, Promised, Memory, InBuffer, BlankAbove, LowerThan, Position
<1>6. BufferOrdered'
  <2>1. spm'.cb # "none" \/ spm' = spm
    <3>1. CASE area = "FLASH"
      <4>1. spm' = [cb |-> "write", handler |-> "load", dest |-> addr, tmp |-> PageOf(addr) * PageSize,
                    fill |-> 0, buffer |-> ispData]
        BY <3>1 DEF WriteAsync, FlashWriteAsync
      <4> QED BY <4>1
    <3>2. CASE area # "FLASH"
      BY <3>2 DEF WriteAsync, EepromWriteAsync
    <3> QED BY <3>1, <3>2
  <2> QED BY <1>5, <2>1 DEF MemoryInv, BufferOrdered
<1>7. /\ \A i \in Cells("EEPROM") : InBuffer("EEPROM", i) \/ Found("EEPROM", i)
      /\ \A i \in Cells("FLASH") : InBuffer("FLASH", i) \/ Found("FLASH", i)
  BY <1>1 DEF MemoryInv, KeptInv, Rewritten
<1>8. KeptInv'
  BY <1>5, <1>7 DEF KeptInv
<1>9. \A from : from = addr => Remaining(ispData, from)
  <2>1. Larger(0, Position - addr) = Len(ispData)
    BY <1>2 DEF Larger
  <2>2. \A j \in 1..Len(ispData) : ispData[j] = ispData[addr - addr + j]
    <3> TAKE j \in 1..Len(ispData)
    <3>1. addr - addr + j = j
      BY <1>2
    <3> QED BY <3>1
  <2> QED BY <1>2, <2>1, <2>2 DEF Remaining
<1>10. CASE area = "FLASH"
  <2>1. /\ spm' = [cb |-> "write", handler |-> "load", dest |-> addr, tmp |-> PageOf(addr) * PageSize,
                   fill |-> 0, buffer |-> ispData]
        /\ ee' = ee
    BY <1>10 DEF WriteAsync, FlashWriteAsync
  <2>2. /\ spm'.cb = "write" /\ spm'.handler = "load" /\ spm'.dest = addr /\ spm'.tmp = Start(addr)
        /\ spm'.fill = 0 /\ spm'.buffer = ispData
    BY <2>1 DEF Start
  <2>3. Start(addr) \in Nat /\ Start(addr) <= addr /\ PageSize \in Nat
    BY <1>2, PageIs, PageFacts
  <2>4. PageStart' = Start(addr)
    BY <2>2 DEF PageStart
  <2>5. Larger(addr, Start(addr)) = addr
    BY <1>2, <2>3 DEF Larger
  <2>6. Remaining(spm.buffer, Larger(addr, spm.tmp))'
    BY <1>5, <1>9, <2>2, <2>5 DEF Remaining
  <2>7. \A i \in Cells("FLASH") : i < Start(addr) => Found("FLASH", i)
    <3> SUFFICES ASSUME NEW i \in Cells("FLASH"), i < Start(addr), InBuffer("FLASH", i) PROVE FALSE
      BY <1>7
    <3>1. i \in addr..(Position - 1) /\ i \in Int
      BY PageFacts DEF InBuffer, Cells, Sizes
    <3> QED BY <1>2, <2>3, <3>1
  <2>8. Loaded'
    <3>1. \A i \in Cells("FLASH") : ~(Start(addr) <= i /\ i < Start(addr))
      BY <2>3, PageFacts DEF Cells, Sizes
    <3>2. Cells("FLASH")' = Cells("FLASH")
      BY DEF Cells, Sizes
    <3> QED BY <2>2, <2>4, <3>1, <3>2 DEF Loaded
  <2>9. \A i \in Cells("FLASH") : Start(addr) + PageSize <= i => flash[i] = Blank
    BY <1>1, <1>10 DEF MemoryInv, BufferOrdered, BlankAbove
  <2>10. PageJob'
    <3>1. 0 \in 0..PageSize /\ 0 % 2 = 0 /\ Start(addr) = Start(addr) + 0
      BY <2>3
    <3> QED BY <1>2, <1>3, <1>5, <2>2, <2>4, <2>5, <2>6, <2>7, <2>8, <2>9, <3>1 DEF PageJob
  <2>11. FlashJobInv'
    BY <1>1, <1>3, <1>10, <2>2, <2>10 DEF FlashJobInv
  <2>12. EepromJobInv' /\ EraseJobInv'
    BY <1>1, <2>1, <2>2 DEF EepromJobInv, EraseJobInv
  <2> QED BY <1>4, <1>6, <1>8, <2>11, <2>12 DEF MemoryInv
<1>11. CASE area # "FLASH"
  <2>1. /\ ee' = [cb |-> "write", addr |-> addr, dest |-> addr + Len(ispData) - 1, buffer |-> ispData]
        /\ spm' = spm /\ area = "EEPROM"
    BY <1>11 DEF WriteAsync, EepromWriteAsync, MemoryInv, StoreTypes, Areas
  <2>2. ee'.cb = "write" /\ ee'.addr = addr /\ ee'.dest = addr + Len(ispData) - 1 /\ ee'.buffer = ispData
    BY <2>1
  <2>3. addr \in addr..Position /\ addr + Len(ispData) - 1 = Position - 1
    BY <1>2
  <2>4. \A i \in Cells("EEPROM") : i < addr => Found("EEPROM", i)
    <3> SUFFICES ASSUME NEW i \in Cells("EEPROM"), i < addr, InBuffer("EEPROM", i) PROVE FALSE
      BY <1>7
    <3>1. i \in addr..(Position - 1) /\ i \in Int
      BY PageFacts DEF InBuffer, Cells, Sizes
    <3> QED BY <1>2, <3>1
  <2>5. Remaining(ee.buffer, ee.addr)'
    BY <1>5, <1>9, <2>2 DEF Remaining
  <2>6. EepromJobInv'
    BY <1>5, <2>1, <2>2, <2>3, <2>4, <2>5 DEF EepromJobInv
  <2>7. FlashJobInv' /\ EraseJobInv'
    BY <1>1, <2>1, <2>2 DEF FlashJobInv, EraseJobInv
  <2> QED BY <1>4, <1>6, <1>8, <2>6, <2>7 DEF MemoryInv
<1> QED BY <1>10, <1>11

\* No job under way: the drivers' variables.
LEMMA AtRest ==
  ASSUME JobInv, ~inProgress
  PROVE  spm.cb = "none" /\ ee.cb = "none" /\ spm.handler = "exit" /\ readable
BY DEF JobInv, FlashBusy, EepromBusy

\* Between jobs, everything promised is in the buffer or in the memory.
LEMMA KeptAtRest ==
  ASSUME JobInv, MemoryInv, ~inProgress
  PROVE  \A a \in Areas : \A i \in Cells(a) : InBuffer(a, i) \/ Found(a, i)
BY AtRest DEF MemoryInv, KeptInv, Rewritten, Areas

\* A full erase begins: its memory promises nothing any more.
LEMMA EraseBegins ==
  ASSUME JobInv, BufferInv, MemoryInv, ~inProgress, ispData = <<>>, EraseAsync,
         UNCHANGED <<area, addr, ispData>>,
         image' = [image EXCEPT ![area] = [i \in DOMAIN @ |-> NoPromise]]
  PROVE  MemoryInv'
<1>1. spm.cb = "none" /\ ee.cb = "none" /\ spm.handler = "exit"
  BY AtRest
<1>2. UNCHANGED <<flash, page, eeprom>> /\ area \in Areas
  BY DEF EraseAsync, FlashEraseAsync, EepromEraseAsync, MemoryInv, StoreTypes
<1>3. /\ DOMAIN image' = Areas /\ \A a \in Areas : DOMAIN image'[a] = Cells(a)
      /\ \A i \in Cells(area) : image'[area][i] = NoPromise
      /\ \A a \in Areas \ {area} : image'[a] = image[a]
  BY <1>2 DEF MemoryInv, StoreTypes
<1>4. StoreTypes'
  <2>1. \A a : Cells(a)' = Cells(a)
    BY DEF Cells, Sizes
  <2> QED BY <1>2, <1>3, <2>1 DEF MemoryInv, StoreTypes
<1>5. BufferOrdered'
  BY DEF BufferOrdered
<1>6. \A a \in Areas : \A i \in Cells(a) : Found(a, i)'
  <2> TAKE a \in Areas
  <2> TAKE i \in Cells(a)
  <2>1. CASE a = area
    BY <1>3, <2>1 DEF Found, Promised
  <2>2. CASE a # area
    <3>1. Found(a, i)
      BY EmptyBuffer, KeptAtRest DEF BufferInv
    <3> QED BY <1>2, <1>3, <2>2, <3>1 DEF Found, Promised, Memory
  <2> QED BY <2>1, <2>2
<1>7. KeptInv'
  BY <1>6 DEF KeptInv, Areas, Cells, Sizes
<1>8. CASE area = "FLASH"
  <2>1. spm' = [NoFlashJob EXCEPT !.cb = "erase", !.handler = "erase"] /\ ee' = ee
    BY <1>8 DEF EraseAsync, FlashEraseAsync
  <2>2. spm'.cb = "erase" /\ spm'.handler = "erase" /\ spm'.dest = 0
    BY <2>1 DEF NoFlashJob
  <2>3. Start(0) = 0
    <3>1. 0 \in Nat
      OBVIOUS
    <3>2. Start(0) \in Nat /\ Start(0) <= 0
      BY <3>1, PageIs
    <3> QED BY <3>2
  <2>4. \A i \in Cells("FLASH") : ~(i < 0)
    BY PageFacts DEF Cells, Sizes
  <2>5. EraseJobInv'
    <3>1. \A i \in Cells("FLASH") : ~Promised("FLASH", i)'
      BY <1>3, <1>8 DEF Promised
    <3>2. Start(0)' = 0
      BY <2>3 DEF Start, PageOf
    <3> QED BY <1>1, <2>1, <2>2, <2>3, <2>4, <3>1, <3>2 DEF EraseJobInv, Cells, Sizes
  <2> QED BY <1>1, <1>4, <1>5, <1>7, <2>1, <2>2, <2>5 DEF MemoryInv, FlashJobInv, EepromJobInv
<1>9. CASE area # "FLASH"
  <2>1. /\ ee' = [cb |-> "erase", addr |-> 0, dest |-> EepromSize - 1,
                  buffer |-> [i \in 1..EepromSize |-> Blank]]
        /\ spm' = spm /\ area = "EEPROM"
    BY <1>2, <1>9 DEF EraseAsync, EepromEraseAsync, Areas
  <2>2. ee'.cb = "erase" /\ spm'.cb = "none"
    BY <1>1, <2>1
  <2>3. EraseJobInv'
    <3>1. \A i \in Cells("EEPROM") : ~Promised("EEPROM", i)'
      BY <1>3, <2>1 DEF Promised
    <3> QED BY <2>2, <3>1 DEF EraseJobInv, Cells, Sizes
  <2> QED BY <1>4, <1>5, <1>7, <2>2, <2>3 DEF MemoryInv, FlashJobInv, EepromJobInv
<1> QED BY <1>8, <1>9

\* Bytes are added to the buffer where there is room for them.
LEMMA BytesAdded ==
  ASSUME JobInv, BufferInv, MemoryInv, ~inProgress, NEW d \in Seq(Data), RoomAt(Len(d)),
         UNCHANGED <<memVars, area, addr>>, ispData' = ispData \o d,
         image' = [image EXCEPT ![area] = [i \in DOMAIN @ |->
                     LET n == i - addr - Len(ispData)
                     IN  IF n \in 0..(Len(d) - 1) THEN d[n + 1] ELSE @[i]]]
  PROVE  MemoryInv'
<1>1. spm.cb = "none" /\ ee.cb = "none" /\ spm.handler = "exit"
  BY AtRest
<1>2. UNCHANGED <<flash, page, readable, spm, eeprom, ee>> /\ area \in Areas
  BY DEF memVars, MemoryInv, StoreTypes
<1>3. /\ addr \in Nat /\ ispData \in Seq(Data) /\ Len(ispData) \in Nat /\ Len(d) \in Nat
      /\ Position = addr + Len(ispData) /\ Position \in Nat
  BY DEF BufferInv, Fits, Position
<1>4. Position' = Position + Len(d) /\ Len(ispData') = Len(ispData) + Len(d)
  <2>1. Len(ispData \o d) = Len(ispData) + Len(d)
    BY <1>3
  <2> QED BY <1>3, <2>1 DEF Position
<1> DEFINE New(i) == Position <= i /\ i < Position + Len(d)
<1>5. /\ DOMAIN image' = Areas /\ \A a \in Areas : DOMAIN image'[a] = Cells(a)
      /\ \A a \in Areas \ {area} : image'[a] = image[a]
      /\ \A i \in Cells(area) : New(i) => image'[area][i] = d[i - Position + 1]
      /\ \A i \in Cells(area) : ~New(i) => image'[area][i] = image[area][i]
  <2>1. DOMAIN image = Areas /\ \A a \in Areas : DOMAIN image[a] = Cells(a)
    BY DEF MemoryInv, StoreTypes
  <2> DEFINE N(i) == i - addr - Len(ispData)
             M == [i \in Cells(area) |-> IF N(i) \in 0..(Len(d) - 1) THEN d[N(i) + 1] ELSE image[area][i]]
  <2>2. image' = [image EXCEPT ![area] = M]
    BY <1>2, <2>1
  <2>3. DOMAIN image' = Areas /\ image'[area] = M /\ \A a \in Areas \ {area} : image'[a] = image[a]
    <3> HIDE DEF M
    <3> QED BY <1>2, <2>1, <2>2
  <2>4. \A i \in Cells(area) : N(i) = i - Position /\ (New(i) <=> N(i) \in 0..(Len(d) - 1))
    <3> TAKE i \in Cells(area)
    <3>1. i \in Int
      BY PageFacts DEF Cells, Sizes
    <3> QED BY <1>3, <3>1
  <2>5. \A i \in Cells(area) : image'[area][i] = IF New(i) THEN d[i - Position + 1] ELSE image[area][i]
    <3> HIDE DEF New
    <3> QED BY <2>3, <2>4
  <2> QED BY <1>2, <2>1, <2>3, <2>5
<1>6. Position + Len(d) <= Sizes(area) /\ (area = "FLASH" => LowerThan(Position) /\ BlankAbove(Position))
  BY <1>1 DEF RoomAt
<1>7. \A a : Cells(a) \subseteq Int /\ Cells(a)' = Cells(a) /\ Sizes(a) \in Nat
  BY PageFacts DEF Cells, Sizes
<1>8. StoreTypes'
  BY <1>2, <1>5, <1>7 DEF MemoryInv, StoreTypes
<1>9. \A j \in 1..Len(ispData') : image'[area][addr + j - 1] = ispData'[j]
  <2> TAKE j \in 1..Len(ispData')
  <2>1. /\ j \in Nat /\ 1 <= j /\ j <= Len(ispData) + Len(d)
        /\ addr + j - 1 \in 0..(Sizes(area) - 1)
    BY <1>3, <1>4, <1>6, <1>7
  <2>2. addr + j - 1 \in Cells(area)
    BY <2>1 DEF Cells
  <2>3. ispData'[j] = IF j <= Len(ispData) THEN ispData[j] ELSE d[j - Len(ispData)]
    BY <1>3, <2>1
  <2>4. CASE j <= Len(ispData)
    <3>1. ispData # <<>> /\ j \in 1..Len(ispData)
      BY <1>3, <2>1, <2>4
    <3>2. image[area][addr + j - 1] = ispData[j]
      BY <3>1 DEF MemoryInv, BufferOrdered
    <3>3. ~New(addr + j - 1)
      BY <1>3, <2>1, <2>4
    <3> QED BY <1>5, <2>2, <2>3, <2>4, <3>2, <3>3
  <2>5. CASE j > Len(ispData)
    <3>1. New(addr + j - 1) /\ (addr + j - 1) - Position + 1 = j - Len(ispData)
      BY <1>3, <2>1, <2>5
    <3>2. image'[area][addr + j - 1] = d[(addr + j - 1) - Position + 1]
      BY <1>5, <2>2, <3>1
    <3>3. ~(j <= Len(ispData))
      BY <1>3, <2>1, <2>5
    <3> QED BY <2>3, <3>1, <3>2, <3>3
  <2> QED BY <1>3, <2>1, <2>4, <2>5
<1>10. area = "FLASH" => LowerThan(Position)'
  <2> HAVE area = "FLASH"
  <2>1. \A i \in Cells("FLASH") : Promised("FLASH", i)' => i < Position + Len(d)
    <3> SUFFICES ASSUME NEW i \in Cells("FLASH"), Promised("FLASH", i)', ~New(i) PROVE i < Position + Len(d)
      BY <1>3, <1>7
    <3>1. Promised("FLASH", i) /\ i \in Int
      BY <1>5, <1>7 DEF Promised
    <3>2. i < Position
      BY <1>6, <3>1 DEF LowerThan
    <3> QED BY <1>3, <3>1, <3>2
  <2> QED BY <1>4, <1>7, <2>1 DEF LowerThan
<1>11. area = "FLASH" => BlankAbove(addr)
  <2>1. CASE ispData # <<>>
    BY <1>1, <2>1 DEF MemoryInv, BufferOrdered
  <2>2. CASE ispData = <<>>
    <3>1. Position = addr
      BY <2>2, EmptyBuffer DEF BufferInv
    <3> QED BY <1>6, <3>1
  <2> QED BY <2>1, <2>2
<1>12. BufferOrdered'
  <2>1. BlankAbove(addr) => BlankAbove(addr)'
    BY <1>2, <1>7 DEF BlankAbove, Start, PageOf
  <2>2. Position' <= Sizes(area)
    BY <1>4, <1>6
  <2> QED BY <1>2, <1>9, <1>10, <1>11, <2>1, <2>2 DEF BufferOrdered, Sizes
<1>13. \A a \in Areas : \A i \in Cells(a) : InBuffer(a, i)' \/ Found(a, i)'
  <2> TAKE a \in Areas
  <2> TAKE i \in Cells(a)
  <2>1. i \in Int
    BY <1>7
  <2>2. InBuffer(a, i) \/ Found(a, i)
    BY KeptAtRest
  <2>3. InBuffer(a, i) => InBuffer(a, i)'
    BY <1>3, <1>4, <2>1 DEF InBuffer
  <2>4. CASE a = area /\ New(i)
    BY <1>3, <1>4, <2>1, <2>4 DEF InBuffer
  <2>5. CASE ~(a = area /\ New(i))
    <3>1. image'[a][i] = image[a][i]
      BY <1>5, <2>5
    <3>2. Found(a, i) => Found(a, i)'
      BY <1>2, <3>1 DEF Found, Promised, Memory
    <3> QED BY <2>2, <2>3, <3>2
  <2> QED BY <2>4, <2>5
<1>14. KeptInv'
  BY <1>7, <1>13 DEF KeptInv, Areas
<1>15. FlashJobInv' /\ EepromJobInv' /\ EraseJobInv'
  BY <1>1, <1>2 DEF FlashJobInv, EepromJobInv, EraseJobInv
<1> QED BY <1>8, <1>12, <1>14, <1>15 DEF MemoryInv

-----------------------------------------------------------------------------
(* The memories under the interrupts. *)

\* What a step of the flash job leaves alone.
Aside == UNCHANGED <<eeprom, ee, area, addr, ispData, image>>

LEMMA FlashStep ==
  ASSUME JobInv, MemoryInv, spm.cb # "none", Aside, spm'.cb = spm.cb,
         DOMAIN flash' = DOMAIN flash, DOMAIN page' = DOMAIN page,
         \A i \in Cells("FLASH") : InBuffer("FLASH", i) \/ Rewritten(i)' \/ Found("FLASH", i)',
         FlashJobInv', EraseJobInv'
  PROVE  MemoryInv'
<1>1. ee.cb = "none"
  BY DEF JobInv, FlashBusy, EepromBusy
<1>2. /\ \A a : Cells(a)' = Cells(a)
      /\ \A a, i : InBuffer(a, i)' = InBuffer(a, i)
      /\ \A i : Found("EEPROM", i)' = Found("EEPROM", i)
      /\ \A x : LowerThan(x)' = LowerThan(x)
      /\ Position' = Position
  BY DEF Aside, Cells, Sizes, InBuffer, Found, Promised, Memory, LowerThan, Position
<1>3. StoreTypes'
  BY <1>2 DEF Aside, MemoryInv, StoreTypes
<1>4. BufferOrdered'
  BY <1>2 DEF Aside, MemoryInv, BufferOrdered, Sizes
<1>5. KeptInv'
  BY <1>2 DEF MemoryInv, KeptInv
<1>6. EepromJobInv'
  BY <1>1 DEF Aside, EepromJobInv
<1> QED BY <1>3, <1>4, <1>5, <1>6 DEF MemoryInv

\* What is promised does not change, and neither does where it is.
LEMMA AsideIs ==
  ASSUME Aside
  PROVE  /\ Position' = Position /\ addr' = addr /\ ispData' = ispData /\ image' = image /\ area' = area
         /\ \A a : Cells(a)' = Cells(a)
         /\ \A a, i : Promised(a, i)' = Promised(a, i)
         /\ \A x : Start(x)' = Start(x)
BY DEF Aside, Cells, Sizes, Promised, Position, Start, PageOf

\* The erase goes on with the next page, or ends.
LEMMA EraseGoesOn ==
  ASSUME JobInv, MemoryInv, SpmErase, Aside
  PROVE  MemoryInv'
<1>1. DOMAIN spm = SpmFields /\ spm.handler = "erase" /\ spm.cb # "none" /\ spm.cb \in Jobs
  BY DEF JobInv, SpmErase, FlashBusy
<1>2. spm.cb = "erase"
  BY <1>1 DEF Jobs, MemoryInv, FlashJobInv
<1>3. /\ ispData = <<>> /\ \A i \in Cells("FLASH") : ~Promised("FLASH", i)
      /\ spm.dest \in Nat /\ Start(spm.dest) = spm.dest
      /\ \A i \in Cells("FLASH") : i < spm.dest => flash[i] = Blank
      /\ DOMAIN flash = Cells("FLASH")
      /\ ee.cb # "erase"
  BY <1>1, <1>2 DEF MemoryInv, EraseJobInv, StoreTypes, JobInv, FlashBusy, EepromBusy
<1>4. page' = page
  BY DEF SpmErase
<1>5. CASE spm.dest < FlashSize
  <2>1. /\ flash' = [b \in DOMAIN flash |-> IF b \in OnPage(spm.dest) THEN Blank ELSE flash[b]]
        /\ spm' = [spm EXCEPT !.dest = @ + PageSize]
    BY <1>5 DEF SpmErase, ErasePage
  <2>2. spm'.cb = "erase" /\ spm'.handler = "erase" /\ spm'.dest = spm.dest + PageSize
    BY <1>1, <1>2, <2>1 DEF SpmFields
  <2>3. spm'.dest \in Nat /\ Start(spm'.dest) = spm'.dest
    BY <1>3, <2>2, PageStarts, PageFacts
  <2>4. \A i \in Cells("FLASH") : i < spm'.dest => flash'[i] = Blank
    <3> SUFFICES ASSUME NEW i \in Cells("FLASH"), i < spm'.dest PROVE flash'[i] = Blank
      OBVIOUS
    <3>1. flash'[i] = IF i \in OnPage(spm.dest) THEN Blank ELSE flash[i]
      BY <1>3, <2>1
    <3>2. i \in Nat
      BY PageFacts DEF Cells, Sizes
    <3>3. i < spm.dest \/ i \in OnPage(spm.dest)
      BY <1>3, <2>2, <3>2, OnPageIs, PageFacts
    <3> QED BY <1>3, <3>1, <3>3
  <2>5. EraseJobInv' /\ FlashJobInv'
    BY <1>3, <2>2, <2>3, <2>4, AsideIs DEF EraseJobInv, FlashJobInv, Aside
  <2>6. \A i \in Cells("FLASH") : Found("FLASH", i)'
    BY <1>3, AsideIs DEF Found
  <2> QED BY <1>1, <1>2, <1>4, <2>1, <2>2, <2>5, <2>6, FlashStep
<1>6. CASE ~(spm.dest < FlashSize)
  <2>1. flash' = flash /\ spm' = [spm EXCEPT !.handler = "exit"]
    BY <1>6 DEF SpmErase
  <2>2. spm'.cb = "erase" /\ spm'.handler = "exit" /\ spm'.dest = spm.dest
    BY <1>1, <1>2, <2>1 DEF SpmFields
  <2>3. \A i \in Cells("FLASH") : flash'[i] = Blank
    <3> TAKE i \in Cells("FLASH")
    <3>1. i < spm.dest
      BY <1>3, <1>6, PageFacts DEF Cells, Sizes
    <3> QED BY <1>3, <2>1, <3>1
  <2>4. EraseJobInv' /\ FlashJobInv'
    BY <1>3, <2>2, <2>3, AsideIs DEF EraseJobInv, FlashJobInv, Aside
  <2>5. \A i \in Cells("FLASH") : Found("FLASH", i)'
    BY <1>3, AsideIs DEF Found
  <2> QED BY <1>1, <1>2, <1>4, <2>1, <2>2, <2>4, <2>5, FlashStep
<1> QED BY <1>5, <1>6

\* What the invariants say of a write of flash that is under way.
LEMMA WriteIs ==
  ASSUME JobInv, BufferInv, MemoryInv, spm.cb = "write", spm.handler # "exit"
  PROVE  /\ DOMAIN spm = SpmFields /\ DOMAIN flash = Cells("FLASH") /\ DOMAIN page = 0..(PageSize - 1)
         /\ PageJob /\ area = "FLASH" /\ ee.cb # "erase"
         /\ addr \in Nat /\ Position \in Nat /\ addr < Position
         /\ spm.dest \in Nat /\ PageStart \in Nat /\ Start(PageStart) = PageStart
         /\ PageStart <= spm.dest /\ addr <= spm.dest /\ spm.dest < PageStart + PageSize
         /\ spm.fill \in Nat /\ spm.tmp = PageStart + spm.fill /\ spm.tmp \in Nat
         /\ LowerThan(Position)
         /\ \A j \in 1..Len(ispData) : image["FLASH"][addr + j - 1] = ispData[j]
         /\ Position = addr + Len(ispData) /\ Len(ispData) \in Nat
<1>1. ispData # <<>> /\ ee.cb # "erase" /\ DOMAIN spm = SpmFields
  BY DEF JobInv, FlashBusy, EepromBusy
<1>2. addr \in Nat /\ ispData \in Seq(Data) /\ Len(ispData) \in Nat /\ Position = addr + Len(ispData)
  BY DEF BufferInv, Fits, Position
<1>3. Position \in Nat /\ addr < Position
  BY <1>1, <1>2
<1>4. /\ PageJob /\ area = "FLASH" /\ DOMAIN flash = Cells("FLASH") /\ DOMAIN page = 0..(PageSize - 1)
      /\ LowerThan(Position)
      /\ \A j \in 1..Len(ispData) : image["FLASH"][addr + j - 1] = ispData[j]
  BY <1>1 DEF MemoryInv, FlashJobInv, StoreTypes, BufferOrdered
<1>5. spm.dest \in Nat /\ spm.dest = Larger(addr, PageStart) /\ spm.fill \in 0..PageSize /\ spm.tmp = PageStart + spm.fill
  BY <1>4 DEF PageJob
<1>6. PageStart \in Nat /\ PageStart <= spm.dest /\ spm.dest < PageStart + PageSize /\ Start(PageStart) = PageStart
  BY <1>5, PageIs, PageStarts DEF PageStart
<1>7. addr <= spm.dest /\ spm.fill \in Nat /\ spm.tmp \in Nat
  BY <1>2, <1>5, <1>6, PageFacts DEF Larger
<1> QED BY <1>1, <1>2, <1>3, <1>4, <1>5, <1>6, <1>7

\* Nothing is left to be written, and no page has been begun.
LEMMA WriteEnds ==
  ASSUME JobInv, BufferInv, MemoryInv, SpmAllWritten, Aside
  PROVE  MemoryInv'
<1>1. DOMAIN spm = SpmFields /\ spm.handler = "load" /\ spm.cb # "none" /\ spm.cb \in Jobs
  BY DEF JobInv, SpmAllWritten, FlashBusy
<1>2. spm.cb = "write"
  BY <1>1 DEF Jobs, MemoryInv, EraseJobInv
<1>3. /\ spm' = [spm EXCEPT !.handler = "exit"] /\ flash' = flash /\ page' = page
      /\ spm.fill = 0 /\ spm.buffer = <<>>
  BY DEF SpmAllWritten
<1>4. spm'.cb = "write" /\ spm'.handler = "exit"
  BY <1>1, <1>2, <1>3 DEF SpmFields
<1>5. /\ PageJob /\ area = "FLASH" /\ LowerThan(Position) /\ PageStart \in Nat
      /\ addr \in Nat /\ Position \in Nat /\ addr < Position
  BY <1>1, <1>2, WriteIs
<1>6. Position <= PageStart
  <2>1. spm.tmp = PageStart + 0 /\ Len(<<>>) = Larger(0, Position - Larger(addr, spm.tmp))
    BY <1>3, <1>5 DEF PageJob, Remaining
  <2>2. spm.tmp = PageStart /\ Larger(0, Position - Larger(addr, PageStart)) = 0
    BY <1>5, <2>1
  <2>3. Larger(addr, PageStart) \in {addr, PageStart}
    BY DEF Larger
  <2> QED BY <1>5, <2>2, <2>3 DEF Larger
<1>7. \A i \in Cells("FLASH") : Found("FLASH", i)'
  <2> TAKE i \in Cells("FLASH")
  <2>1. i \in Int
    BY PageFacts DEF Cells, Sizes
  <2>2. Found("FLASH", i)
    <3>1. CASE Promised("FLASH", i)
      <4>1. i < Position
        BY <1>5, <3>1 DEF LowerThan
      <4>2. i < PageStart
        BY <1>5, <1>6, <2>1, <4>1
      <4> QED BY <1>5, <4>2 DEF PageJob
    <3>2. CASE ~Promised("FLASH", i)
      BY <3>2 DEF Found
    <3> QED BY <3>1, <3>2
  <2> QED BY <1>3, <2>2, AsideIs DEF Found, Memory
<1>8. FlashJobInv' /\ EraseJobInv'
  <2>1. ee'.cb # "erase"
    BY <1>1, <1>2, WriteIs DEF Aside
  <2>2. area' = "FLASH"
    BY <1>5, AsideIs
  <2> QED BY <1>4, <1>7, <2>1, <2>2, AsideIs DEF FlashJobInv, EraseJobInv
<1> QED BY <1>2, <1>3, <1>4, <1>7, <1>8, FlashStep

\* A byte of the page: from the buffer, where the job has got to, or what the page holds.
LEMMA OneByte ==
  ASSUME JobInv, BufferInv, MemoryInv, spm.cb = "write", spm.handler = "load",
         NEW t \in Nat, PageStart <= t, NEW buffer, Remaining(buffer, Larger(addr, t)),
         NEW byte, NEW rest,
         \/ Takes(buffer, t) /\ rest = Tail(buffer) /\ byte = Head(buffer)
         \/ ~Takes(buffer, t) /\ rest = buffer /\ byte \in ReadByte(t)
  PROVE  /\ Remaining(rest, Larger(addr, t + 1))
         /\ t \in Cells("FLASH") /\ Promised("FLASH", t) => byte = image["FLASH"][t]
<1>1. /\ PageJob /\ area = "FLASH" /\ addr \in Nat /\ Position \in Nat /\ addr < Position
      /\ spm.dest \in Nat /\ PageStart \in Nat /\ addr <= spm.dest
      /\ LowerThan(Position)
      /\ \A j \in 1..Len(ispData) : image["FLASH"][addr + j - 1] = ispData[j]
      /\ Position = addr + Len(ispData) /\ Len(ispData) \in Nat
  BY WriteIs
<1>2. spm.dest = Larger(addr, PageStart)
  BY <1>1 DEF PageJob
<1>3. /\ buffer \in Seq(Data) /\ Len(buffer) = Larger(0, Position - Larger(addr, t))
      /\ \A j \in 1..Len(buffer) : buffer[j] = ispData[Larger(addr, t) - addr + j]
  BY DEF Remaining
<1>4. CASE Takes(buffer, t) /\ rest = Tail(buffer) /\ byte = Head(buffer)
  <2>1. buffer # <<>> /\ t >= spm.dest
    BY <1>4 DEF Takes
  <2>2. Larger(addr, t) = t /\ Larger(addr, t + 1) = t + 1
    BY <1>1, <2>1 DEF Larger
  <2>3. Len(buffer) \in Nat /\ Len(buffer) # 0
    BY <1>3, <2>1
  <2>4. t < Position /\ Len(buffer) = Position - t
    <3>1. Len(buffer) = Larger(0, Position - t)
      BY <1>3, <2>2
    <3> QED BY <1>1, <2>3, <3>1 DEF Larger
  <2>5. /\ Tail(buffer) \in Seq(Data) /\ Len(Tail(buffer)) = Len(buffer) - 1
        /\ \A j \in 1..(Len(buffer) - 1) : Tail(buffer)[j] = buffer[j + 1]
        /\ Head(buffer) = buffer[1]
    BY <1>3, <2>1
  <2>6. Len(Tail(buffer)) = Larger(0, Position - (t + 1))
    <3>1. Position - (t + 1) \in Nat /\ Len(Tail(buffer)) = Position - (t + 1)
      BY <1>1, <2>4, <2>5
    <3>2. \A n \in Nat : Larger(0, n) = n
      BY DEF Larger
    <3> QED BY <3>1, <3>2
  <2>7. \A j \in 1..Len(Tail(buffer)) : Tail(buffer)[j] = ispData[(t + 1) - addr + j]
    <3> TAKE j \in 1..Len(Tail(buffer))
    <3>1. j \in 1..(Len(buffer) - 1) /\ j + 1 \in 1..Len(buffer) /\ j \in Int
      BY <2>3, <2>5
    <3>2. Tail(buffer)[j] = ispData[t - addr + (j + 1)]
      BY <1>3, <2>2, <2>5, <3>1
    <3>3. t - addr + (j + 1) = (t + 1) - addr + j
      BY <1>1, <3>1
    <3> QED BY <3>2, <3>3
  <2>8. Remaining(Tail(buffer), t + 1)
    BY <2>5, <2>6, <2>7 DEF Remaining
  <2>9. byte = ispData[t - addr + 1]
    <3>1. 1 \in 1..Len(buffer)
      BY <2>3
    <3> QED BY <1>3, <1>4, <2>2, <2>5, <3>1
  <2>10. image["FLASH"][t] = ispData[t - addr + 1]
    <3>1. t - addr + 1 \in 1..Len(ispData) /\ addr + (t - addr + 1) - 1 = t
      BY <1>1, <2>1, <2>4
    <3>2. image["FLASH"][addr + (t - addr + 1) - 1] = ispData[t - addr + 1]
      BY <1>1, <3>1
    <3> QED BY <3>1, <3>2
  <2> QED BY <1>4, <2>2, <2>8, <2>9, <2>10
<1>5. CASE ~Takes(buffer, t) /\ rest = buffer /\ byte \in ReadByte(t)
  <2>1. byte \in ReadByte(t) /\ (buffer = <<>> \/ t < spm.dest)
    <3>1. byte \in ReadByte(t)
      BY <1>5
    <3>2. ~Takes(buffer, t)
      BY <1>5
    <3>3. buffer = <<>> \/ ~(t >= spm.dest)
      BY <3>2 DEF Takes
    <3> QED BY <1>1, <3>1, <3>3
  <2>2. CASE t < spm.dest
    <3>1. t < addr /\ PageStart <= addr
      BY <1>1, <1>2, <2>2 DEF Larger
    <3>2. Larger(addr, t) = addr /\ Larger(addr, t + 1) = addr
      BY <1>1, <3>1 DEF Larger
    <3>3. byte = flash[t]
      <4>1. readable
        BY <3>1 DEF MemoryInv, FlashJobInv
      <4> QED BY <2>1, <4>1 DEF ReadByte
    <3>4. ASSUME t \in Cells("FLASH"), Promised("FLASH", t) PROVE flash[t] = image["FLASH"][t]
      <4>1. ~InBuffer("FLASH", t)
        BY <1>1, <3>1 DEF InBuffer
      <4>2. ~Rewritten(t)
        BY DEF Rewritten
      <4>3. Found("FLASH", t)
        BY <3>4, <4>1, <4>2 DEF MemoryInv, KeptInv
      <4> QED BY <3>4, <4>3 DEF Found, Memory
    <3> QED BY <1>5, <3>2, <3>3, <3>4
  <2>3. CASE t >= spm.dest /\ buffer = <<>>
    <3>1. Larger(addr, t) = t /\ Larger(addr, t + 1) = t + 1
      BY <1>1, <2>3 DEF Larger
    <3>2. Position <= t
      <4>1. Len(<<>>) = 0
        OBVIOUS
      <4> QED BY <1>1, <1>3, <2>3, <3>1, <4>1 DEF Larger
    <3>3. Len(buffer) = Larger(0, Position - (t + 1))
      <4>1. Len(<<>>) = 0
        OBVIOUS
      <4> QED BY <1>1, <2>3, <3>2, <4>1 DEF Larger
    <3>4. \A j \in 1..Len(buffer) : FALSE
      BY <2>3
    <3>5. Remaining(buffer, t + 1)
      BY <1>3, <3>3, <3>4 DEF Remaining
    <3>6. ASSUME t \in Cells("FLASH"), Promised("FLASH", t) PROVE FALSE
      <4>1. t < Position
        BY <1>1, <3>6 DEF LowerThan
      <4> QED BY <1>1, <3>2, <4>1
    <3> QED BY <1>5, <3>1, <3>5, <3>6
  <2> QED BY <1>1, <2>1, <2>2, <2>3
<1> QED BY <1>4, <1>5

\* A word is loaded into the page buffer.
LEMMA WordLoaded ==
  ASSUME JobInv, BufferInv, MemoryInv, SpmLoadWord, Aside
  PROVE  MemoryInv'
<1>1. /\ DOMAIN spm = SpmFields /\ spm.handler = "load" /\ spm.cb # "none" /\ spm.cb \in Jobs
      /\ spm.fill < PageSize /\ (spm.buffer # <<>> \/ spm.fill # 0)
      /\ UNCHANGED <<flash, readable>>
  BY DEF JobInv, SpmLoadWord, FlashBusy
<1>2. spm.cb = "write"
  BY <1>1 DEF Jobs, MemoryInv, EraseJobInv
<1>3. /\ PageJob /\ area = "FLASH" /\ ee.cb # "erase" /\ DOMAIN page = 0..(PageSize - 1)
      /\ addr \in Nat /\ Position \in Nat /\ addr < Position
      /\ spm.dest \in Nat /\ PageStart \in Nat /\ Start(PageStart) = PageStart
      /\ spm.fill \in Nat /\ spm.tmp = PageStart + spm.fill /\ spm.tmp \in Nat
  BY <1>1, <1>2, WriteIs
<1> DEFINE t == spm.tmp
           first == Takes(spm.buffer, t)
           rest == IF first THEN Tail(spm.buffer) ELSE spm.buffer
           second == Takes(rest, t + 1)
           left == IF second THEN Tail(rest) ELSE rest
<1>4. PICK low \in (IF first THEN {Head(spm.buffer)} ELSE ReadByte(t)),
           high \in (IF second THEN {Head(rest)} ELSE ReadByte(t + 1)) :
        page' = [page EXCEPT ![t % PageSize] = low, ![(t + 1) % PageSize] = high]
  BY Zenon DEF SpmLoadWord
<1>5. spm' = [spm EXCEPT !.buffer = left, !.tmp = @ + 2, !.fill = @ + 2]
  BY Zenon DEF SpmLoadWord
<1>6. spm.fill + 2 <= PageSize /\ (spm.fill + 2) % 2 = 0
  <2>1. spm.fill % 2 = 0 /\ PageSize % 2 = 0 /\ PageSize \in Nat
    BY <1>3, PageFacts DEF PageJob
  <2>2. \A n \in Nat : n % 2 = 0 => (n + 1) % 2 = 1 /\ (n + 2) % 2 = 0
    OBVIOUS
  <2>3. (spm.fill + 1) % 2 = 1 /\ (spm.fill + 2) % 2 = 0
    BY <1>3, <2>1, <2>2
  <2>4. spm.fill + 1 # PageSize
    BY <2>1, <2>3
  <2>5. spm.fill + 2 <= PageSize
    <3>1. \A f, p \in Nat : f < p /\ f + 1 # p => f + 2 <= p
      OBVIOUS
    <3> QED BY <1>1, <1>3, <2>1, <2>4, <3>1
  <2> QED BY <2>3, <2>5
<1>7. t % PageSize = spm.fill /\ (t + 1) % PageSize = spm.fill + 1
  <2>1. ASSUME NEW a \in Nat, PageStart <= a, a < PageStart + PageSize PROVE a % PageSize = a - PageStart
    <3>1. PageOf(a) = PageOf(PageStart)
      BY <1>3, <2>1, PageOrder
    <3>2. Start(a) = PageStart
      BY <1>3, <3>1 DEF Start
    <3> QED BY <3>2, PageIs
  <2>2. t \in Nat /\ PageStart <= t /\ t < PageStart + PageSize /\ t - PageStart = spm.fill
    BY <1>1, <1>3, PageFacts
  <2>3. t + 1 \in Nat /\ PageStart <= t + 1 /\ t + 1 < PageStart + PageSize /\ (t + 1) - PageStart = spm.fill + 1
    <3>1. spm.fill + 2 <= PageSize /\ PageSize \in Nat
      BY <1>6, PageFacts
    <3>2. t = PageStart + spm.fill /\ PageStart \in Nat /\ spm.fill \in Nat
      BY <1>3
    <3>3. \A x, s, f, p \in Nat : x = s + f /\ f + 2 <= p =>
            /\ x + 1 \in Nat /\ s <= x + 1 /\ x + 1 < s + p
            /\ (x + 1) - s = f + 1
      OBVIOUS
    <3> HIDE DEF t
    <3>4. t \in Nat
      BY <2>2
    <3> QED BY <3>1, <3>2, <3>3, <3>4
  <2> QED BY <2>1, <2>2, <2>3
<1>8. /\ Remaining(rest, Larger(addr, t + 1))
      /\ t \in Cells("FLASH") /\ Promised("FLASH", t) => low = image["FLASH"][t]
  <2>1. Remaining(spm.buffer, Larger(addr, t)) /\ PageStart <= t /\ t \in Nat
    BY <1>3 DEF PageJob
  <2>2. PICK b, r : b = spm.buffer /\ r = rest
    OBVIOUS
  <2>3. /\ Remaining(b, Larger(addr, t))
        /\ \/ Takes(b, t) /\ r = Tail(b) /\ low = Head(b)
           \/ ~Takes(b, t) /\ r = b /\ low \in ReadByte(t)
    BY <1>4, <2>1, <2>2
  <2> HIDE DEF rest, first, t
  <2> QED BY <1>1, <1>2, <2>1, <2>2, <2>3, OneByte
<1>9. /\ Remaining(left, Larger(addr, t + 2))
      /\ t + 1 \in Cells("FLASH") /\ Promised("FLASH", t + 1) => high = image["FLASH"][t + 1]
  <2>1. PageStart <= t + 1 /\ t + 1 \in Nat /\ (t + 1) + 1 = t + 2
    BY <1>3
  <2>2. PICK b, r : b = rest /\ r = left
    OBVIOUS
  <2>3. /\ Remaining(b, Larger(addr, t + 1))
        /\ \/ Takes(b, t + 1) /\ r = Tail(b) /\ high = Head(b)
           \/ ~Takes(b, t + 1) /\ r = b /\ high \in ReadByte(t + 1)
    BY <1>4, <1>8, <2>2
  <2> HIDE DEF left, t
  <2>4. /\ Remaining(r, Larger(addr, (t + 1) + 1))
        /\ t + 1 \in Cells("FLASH") /\ Promised("FLASH", t + 1) => high = image["FLASH"][t + 1]
    BY <1>1, <1>2, <2>1, <2>3, OneByte
  <2> QED BY <2>1, <2>2, <2>4
<1>10. /\ spm'.cb = "write" /\ spm'.handler = "load" /\ spm'.dest = spm.dest /\ spm'.buffer = left
       /\ spm'.tmp = t + 2 /\ spm'.fill = spm.fill + 2
  <2> HIDE DEF left
  <2> QED BY <1>1, <1>2, <1>5 DEF SpmFields
<1> HIDE DEF first, rest, second, left
<1>11. /\ DOMAIN page' = DOMAIN page
       /\ page'[spm.fill] = low /\ page'[spm.fill + 1] = high
       /\ \A i \in 0..(PageSize - 1) : i < spm.fill => page'[i] = page[i]
  <2>1. page' = [page EXCEPT ![spm.fill] = low, ![spm.fill + 1] = high]
    BY <1>4, <1>7
  <2>2. spm.fill \in DOMAIN page /\ spm.fill + 1 \in DOMAIN page /\ spm.fill # spm.fill + 1
    BY <1>1, <1>3, <1>6, PageFacts
  <2>3. \A i \in 0..(PageSize - 1) : i < spm.fill => i # spm.fill /\ i # spm.fill + 1
    BY <1>3, PageFacts
  <2> QED BY <1>3, <2>1, <2>2, <2>3
<1>12. PageStart' = PageStart
  BY <1>10, AsideIs DEF PageStart
<1>13. PageStart < Position
  <2>1. CASE spm.fill # 0
    BY <1>3, <2>1 DEF PageJob
  <2>2. CASE spm.fill = 0
    <3>1. spm.buffer # <<>> /\ t = PageStart
      BY <1>1, <1>3, <2>2
    <3>2. spm.buffer \in Seq(Data) /\ Len(spm.buffer) = Larger(0, Position - Larger(addr, PageStart))
      BY <1>3, <3>1 DEF PageJob, Remaining
    <3>3. Larger(0, Position - Larger(addr, PageStart)) # 0
      BY <3>1, <3>2
    <3> QED BY <1>3, <3>3 DEF Larger
  <2> QED BY <2>1, <2>2
<1>14. Loaded'
  <2>1. \A i \in Cells("FLASH") : PageStart <= i /\ i < t + 2 /\ Promised("FLASH", i) =>
           page'[i - PageStart] = image["FLASH"][i]
    <3> SUFFICES ASSUME NEW i \in Cells("FLASH"), PageStart <= i, i < t + 2, Promised("FLASH", i)
                 PROVE  page'[i - PageStart] = image["FLASH"][i]
      OBVIOUS
    <3>1. i \in Int
      BY PageFacts DEF Cells, Sizes
    <3>2. CASE i < t
      <4>1. i - PageStart \in 0..(PageSize - 1) /\ i - PageStart < spm.fill
        BY <1>1, <1>3, <3>1, <3>2, PageFacts
      <4>2. page[i - PageStart] = image["FLASH"][i]
        BY <1>3, <3>2 DEF PageJob, Loaded
      <4> QED BY <1>11, <4>1, <4>2
    <3>3. CASE i = t
      <4>1. i - PageStart = spm.fill
        BY <1>3, <3>3
      <4> QED BY <1>8, <1>11, <3>3, <4>1
    <3>4. CASE i = t + 1
      <4>1. i - PageStart = spm.fill + 1
        BY <1>3, <3>4
      <4> QED BY <1>9, <1>11, <3>4, <4>1
    <3> QED BY <1>3, <3>1, <3>2, <3>3, <3>4
  <2>2. image' = image
    BY AsideIs
  <2> QED BY <1>10, <1>12, <2>1, <2>2, AsideIs DEF Loaded
<1>16. \A i : Found("FLASH", i)' = Found("FLASH", i)
  BY <1>1, AsideIs DEF Found, Memory
<1>17. PageJob'
  <2>1. spm'.dest \in Nat /\ spm'.dest = Larger(addr, PageStart)'
    BY <1>3, <1>10, <1>12, AsideIs DEF PageJob, Larger
  <2>2. spm'.fill \in 0..PageSize /\ spm'.fill % 2 = 0 /\ spm'.tmp = PageStart + spm'.fill
    BY <1>3, <1>6, <1>10, PageFacts
  <2>3. Remaining(spm.buffer, Larger(addr, spm.tmp))'
    <3>1. Remaining(left, Larger(addr, t + 2)) /\ UNCHANGED <<addr, ispData, Position>>
      BY <1>9, AsideIs
    <3> QED BY <1>10, <3>1 DEF Remaining, Larger
  <2>4. \A i \in Cells("FLASH") : i < PageStart => Found("FLASH", i)'
    BY <1>3, <1>16 DEF PageJob
  <2>5. \A i \in Cells("FLASH") : PageStart <= i /\ Start(addr) + PageSize <= i => flash'[i] = Blank
    BY <1>1, <1>3 DEF PageJob
  <2> QED BY <1>12, <1>13, <1>14, <2>1, <2>2, <2>3, <2>4, <2>5, AsideIs DEF PageJob
<1>18. FlashJobInv'
  BY <1>1, <1>2, <1>3, <1>10, <1>12, <1>17, AsideIs DEF MemoryInv, FlashJobInv
<1>19. EraseJobInv'
  BY <1>3, <1>10 DEF EraseJobInv, Aside
<1>20. \A i \in Cells("FLASH") : InBuffer("FLASH", i) \/ Rewritten(i)' \/ Found("FLASH", i)'
  <2>1. \A i : ~Rewritten(i)
    BY <1>1 DEF Rewritten
  <2> QED BY <1>16, <2>1 DEF MemoryInv, KeptInv
<1> QED BY <1>1, <1>2, <1>10, <1>11, <1>18, <1>19, <1>20, FlashStep

\* The page goes from the page buffer to flash, where it is blank.
LEMMA PageWritten ==
  ASSUME JobInv, BufferInv, MemoryInv, spm.cb = "write", spm.handler # "exit", spm.fill = PageSize,
         \A i \in Cells("FLASH") : OnThisPage(i) => flash[i] = Blank,
         WritePage(spm.dest), page' = page, Aside
  PROVE  MemoryInv'
<1>1. /\ DOMAIN spm = SpmFields /\ DOMAIN flash = Cells("FLASH") /\ DOMAIN page = 0..(PageSize - 1)
      /\ PageJob /\ area = "FLASH" /\ ee.cb # "erase"
      /\ addr \in Nat /\ Position \in Nat /\ addr < Position
      /\ spm.dest \in Nat /\ PageStart \in Nat /\ Start(PageStart) = PageStart
      /\ PageStart <= spm.dest /\ addr <= spm.dest /\ spm.dest < PageStart + PageSize
      /\ spm.tmp = PageStart + PageSize /\ PageSize \in Nat /\ PageSize > 0
  BY WriteIs, PageFacts
<1>2. /\ flash' = [b \in DOMAIN flash |->
                     IF b \in OnPage(spm.dest) THEN Programmed(flash[b], page[b % PageSize]) ELSE flash[b]]
      /\ spm' = [spm EXCEPT !.handler = "load", !.fill = 0, !.dest = spm.tmp]
  BY DEF WritePage
<1>3. /\ spm'.cb = "write" /\ spm'.handler = "load" /\ spm'.fill = 0 /\ spm'.dest = spm.tmp
      /\ spm'.tmp = spm.tmp /\ spm'.buffer = spm.buffer
  BY <1>1, <1>2 DEF SpmFields
<1>4. PageStart' = PageStart + PageSize
  <2>1. Start(PageStart + PageSize) = PageStart + PageSize
    BY <1>1, PageStarts
  <2>2. PageStart' = Start(spm'.dest)
    BY AsideIs DEF PageStart
  <2> QED BY <1>1, <1>3, <2>1, <2>2
<1>5. \A i \in Cells("FLASH") : i \in Nat /\ (i \in OnPage(spm.dest) <=> OnThisPage(i))
  <2> TAKE i \in Cells("FLASH")
  <2>1. i \in Nat
    BY PageFacts DEF Cells, Sizes
  <2> QED BY <1>1, <2>1, OnPageIs DEF OnThisPage, PageStart
<1>6. ASSUME NEW i \in Cells("FLASH"), ~OnThisPage(i) PROVE flash'[i] = flash[i]
  BY <1>1, <1>2, <1>5, <1>6
<1>7. ASSUME NEW i \in Cells("FLASH"), OnThisPage(i), Promised("FLASH", i) PROVE flash'[i] = image["FLASH"][i]
  <2>1. flash'[i] = Programmed(Blank, page[i % PageSize])
    BY <1>1, <1>2, <1>5, <1>7
  <2>2. PageStart <= i /\ i < spm.tmp /\ i \in Nat
    BY <1>1, <1>5, <1>7 DEF OnThisPage
  <2>3. i % PageSize = i - PageStart
    <3>1. PageOf(i) = PageOf(spm.dest)
      BY <1>1, <1>7, <2>2, PageOrder DEF OnThisPage, PageStart
    <3>2. Start(i) = PageStart
      BY <3>1 DEF Start, PageStart
    <3> QED BY <2>2, <3>2, PageIs
  <2>4. page[i - PageStart] = image["FLASH"][i]
    BY <1>1, <1>7, <2>2 DEF PageJob, Loaded
  <2> QED BY <2>1, <2>3, <2>4 DEF Programmed
<1>8. \A i \in Cells("FLASH") : OnThisPage(i) \/ Found("FLASH", i) => Found("FLASH", i)'
  <2> TAKE i \in Cells("FLASH")
  <2>1. Promised("FLASH", i)' = Promised("FLASH", i) /\ image' = image
    BY AsideIs
  <2>2. CASE OnThisPage(i)
    BY <1>7, <2>1, <2>2 DEF Found, Memory
  <2>3. CASE ~OnThisPage(i)
    <3>1. flash'[i] = flash[i]
      BY <1>6, <2>3
    <3> QED BY <2>1, <2>3, <3>1 DEF Found, Memory
  <2> QED BY <2>2, <2>3
<1>9. PageJob'
  <2>1. spm'.dest \in Nat /\ spm'.dest = Larger(addr, PageStart)'
    BY <1>1, <1>3, <1>4, AsideIs DEF Larger
  <2>2. spm'.fill \in 0..PageSize /\ spm'.fill % 2 = 0 /\ spm'.tmp = PageStart' + spm'.fill /\ ~(spm'.fill # 0)
    BY <1>1, <1>3, <1>4
  <2>3. Remaining(spm.buffer, Larger(addr, spm.tmp))'
    <3>1. Remaining(spm.buffer, Larger(addr, spm.tmp)) /\ UNCHANGED <<addr, ispData, Position>>
      BY <1>1, AsideIs DEF PageJob
    <3> QED BY <1>3, <3>1 DEF Remaining, Larger
  <2>4. \A i \in Cells("FLASH") : i < PageStart' => Found("FLASH", i)'
    <3> SUFFICES ASSUME NEW i \in Cells("FLASH"), i < PageStart', ~OnThisPage(i) PROVE Found("FLASH", i)'
      BY <1>8
    <3>1. i < PageStart
      BY <1>1, <1>4, <1>5 DEF OnThisPage
    <3>2. Found("FLASH", i)
      BY <1>1, <3>1 DEF PageJob
    <3> QED BY <1>8, <3>2
  <2>5. \A i \in Cells("FLASH") : PageStart' <= i /\ Start(addr) + PageSize <= i => flash'[i] = Blank
    <3> SUFFICES ASSUME NEW i \in Cells("FLASH"), PageStart' <= i, Start(addr) + PageSize <= i
                 PROVE  flash'[i] = Blank
      OBVIOUS
    <3>1. PageStart <= i /\ ~OnThisPage(i)
      BY <1>1, <1>4, <1>5 DEF OnThisPage
    <3>2. flash[i] = Blank
      BY <1>1, <3>1 DEF PageJob
    <3> QED BY <1>6, <3>1, <3>2
  <2>6. Loaded'
    <3>1. \A i \in Cells("FLASH") : ~(PageStart' <= i /\ i < spm'.tmp)
      BY <1>1, <1>3, <1>4, <1>5
    <3> QED BY <3>1, AsideIs DEF Loaded
  <2> QED BY <2>1, <2>2, <2>3, <2>4, <2>5, <2>6, AsideIs DEF PageJob
<1>10. FlashJobInv'
  <2>1. ~(PageStart' <= addr)
    BY <1>1, <1>4
  <2> QED BY <1>1, <1>3, <1>9, <2>1, AsideIs DEF FlashJobInv
<1>11. EraseJobInv'
  BY <1>1, <1>3 DEF EraseJobInv, Aside
<1>12. \A i \in Cells("FLASH") : InBuffer("FLASH", i) \/ Rewritten(i)' \/ Found("FLASH", i)'
  BY <1>8 DEF MemoryInv, KeptInv, Rewritten
<1>13. DOMAIN flash' = DOMAIN flash
  BY <1>2
<1> QED BY <1>3, <1>10, <1>11, <1>12, <1>13, FlashStep

\* A loaded page: it is erased first unless it looks blank, and it is when it does, since flash
\* above the first page of the job is.
LEMMA PageErased ==
  ASSUME JobInv, BufferInv, MemoryInv, SpmPageLoaded, Aside
  PROVE  MemoryInv'
<1>1. /\ spm.handler = "load" /\ spm.cb # "none" /\ spm.cb \in Jobs /\ spm.fill = PageSize /\ page' = page
  BY DEF JobInv, SpmPageLoaded, FlashBusy
<1>2. spm.cb = "write"
  BY <1>1 DEF Jobs, MemoryInv, EraseJobInv
<1>3. /\ DOMAIN spm = SpmFields /\ DOMAIN flash = Cells("FLASH")
      /\ PageJob /\ area = "FLASH" /\ ee.cb # "erase" /\ addr \in Nat
      /\ spm.dest \in Nat /\ PageStart \in Nat /\ Start(PageStart) = PageStart
      /\ PageSize \in Nat /\ PageSize > 0
  BY <1>1, <1>2, WriteIs, PageFacts
<1>4. \A i \in Cells("FLASH") : i \in Nat /\ (i \in OnPage(spm.dest) <=> OnThisPage(i))
  <2> TAKE i \in Cells("FLASH")
  <2>1. i \in Nat
    BY PageFacts DEF Cells, Sizes
  <2> QED BY <1>3, <2>1, OnPageIs DEF OnThisPage, PageStart
<1>5. PICK dirty \in PageBlankCheck(spm.dest) :
        IF dirty THEN ErasePage(spm.dest) /\ spm' = [spm EXCEPT !.handler = "write"] ELSE WritePage(spm.dest)
  BY DEF SpmPageLoaded
<1>6. CASE dirty
  <2>1. /\ flash' = [b \in DOMAIN flash |-> IF b \in OnPage(spm.dest) THEN Blank ELSE flash[b]]
        /\ spm' = [spm EXCEPT !.handler = "write"]
    BY <1>5, <1>6 DEF ErasePage
  <2>2. /\ spm'.cb = "write" /\ spm'.handler = "write" /\ spm'.dest = spm.dest /\ spm'.tmp = spm.tmp
        /\ spm'.fill = spm.fill /\ spm'.buffer = spm.buffer
    BY <1>2, <1>3, <2>1 DEF SpmFields
  <2>3. PageStart' = PageStart /\ \A i : OnThisPage(i)' = OnThisPage(i)
    BY <2>2, AsideIs DEF PageStart, OnThisPage
  <2>4. \A i \in Cells("FLASH") : flash'[i] = IF OnThisPage(i) THEN Blank ELSE flash[i]
    BY <1>3, <1>4, <2>1
  <2>5. \A i \in Cells("FLASH") : Found("FLASH", i) /\ ~OnThisPage(i) => Found("FLASH", i)'
    BY <2>4, AsideIs DEF Found, Memory
  <2>6. PageJob'
    <3>1. spm'.dest \in Nat /\ spm'.dest = Larger(addr, PageStart)'
      BY <1>3, <2>2, <2>3, AsideIs DEF PageJob, Larger
    <3>2. /\ spm'.fill \in 0..PageSize /\ spm'.fill % 2 = 0 /\ spm'.tmp = PageStart + spm'.fill
          /\ (spm'.fill # 0 => PageStart < Position)
      BY <1>3, <2>2 DEF PageJob
    <3>3. Remaining(spm.buffer, Larger(addr, spm.tmp))'
      <4>1. Remaining(spm.buffer, Larger(addr, spm.tmp)) /\ UNCHANGED <<addr, ispData, Position>>
        BY <1>3, AsideIs DEF PageJob
      <4> QED BY <2>2, <4>1 DEF Remaining, Larger
    <3>4. \A i \in Cells("FLASH") : i < PageStart => Found("FLASH", i)'
      <4> SUFFICES ASSUME NEW i \in Cells("FLASH"), i < PageStart PROVE Found("FLASH", i)'
        OBVIOUS
      <4>1. Found("FLASH", i)
        BY <1>3 DEF PageJob
      <4>2. ~OnThisPage(i)
        BY <1>3, <1>4 DEF OnThisPage
      <4> QED BY <2>5, <4>1, <4>2
    <3>5. \A i \in Cells("FLASH") : PageStart <= i /\ Start(addr) + PageSize <= i => flash'[i] = Blank
      BY <1>3, <2>4 DEF PageJob
    <3>6. Loaded'
      <4>1. Loaded /\ image' = image
        BY <1>3, AsideIs DEF PageJob
      <4> QED BY <1>1, <2>2, <2>3, <4>1, AsideIs DEF Loaded
    <3> QED BY <2>3, <3>1, <3>2, <3>3, <3>4, <3>5, <3>6, AsideIs DEF PageJob
  <2>7. FlashJobInv'
    <3>1. \A i \in Cells("FLASH") : OnThisPage(i) => flash'[i] = Blank
      BY <2>4
    <3> QED BY <1>1, <1>3, <2>2, <2>3, <2>6, <3>1, AsideIs DEF FlashJobInv
  <2>8. EraseJobInv'
    BY <1>3, <2>2 DEF EraseJobInv, Aside
  <2>9. \A i \in Cells("FLASH") : InBuffer("FLASH", i) \/ Rewritten(i)' \/ Found("FLASH", i)'
    <3> TAKE i \in Cells("FLASH")
    <3>1. InBuffer("FLASH", i) \/ Found("FLASH", i)
      BY <1>1 DEF MemoryInv, KeptInv, Rewritten
    <3>2. OnThisPage(i) => Rewritten(i)'
      BY <2>2, <2>3 DEF Rewritten
    <3> QED BY <2>5, <3>1, <3>2
  <2>10. DOMAIN flash' = DOMAIN flash
    BY <2>1
  <2> QED BY <1>1, <1>2, <2>2, <2>7, <2>8, <2>9, <2>10, FlashStep
<1>7. CASE ~dirty
  <2>1. WritePage(spm.dest)
    BY <1>5, <1>7
  <2>2. ASSUME NEW i \in Cells("FLASH"), OnThisPage(i) PROVE flash[i] = Blank
    <3>1. CASE readable
      <4>1. ~ \E b \in OnPage(spm.dest) : flash[b] # Blank
        BY <1>5, <1>7, <3>1 DEF PageBlankCheck
      <4> QED BY <1>4, <2>2, <4>1
    <3>2. CASE ~readable
      <4>1. addr < PageStart
        BY <1>1, <1>2, <1>3, <3>2 DEF MemoryInv, FlashJobInv
      <4>2. Start(addr) \in Nat /\ Start(addr) <= addr
        BY <1>3, PageIs
      <4>3. Start(addr) + PageSize <= PageStart
        <5>1. ASSUME PageStart < Start(addr) + PageSize PROVE FALSE
          <6>1. PageOf(PageStart) = PageOf(addr)
            BY <1>3, <4>1, <4>2, <5>1, PageOrder
          <6>2. Start(PageStart) = Start(addr)
            BY <6>1 DEF Start
          <6> QED BY <1>3, <4>1, <4>2, <6>2
        <5> QED BY <1>3, <4>2, <5>1
      <4>4. PageStart <= i /\ Start(addr) + PageSize <= i
        BY <1>3, <1>4, <2>2, <4>2, <4>3 DEF OnThisPage
      <4> QED BY <1>3, <4>4 DEF PageJob
    <3> QED BY <3>1, <3>2
  <2> QED BY <1>1, <1>2, <2>1, <2>2, PageWritten
<1> QED BY <1>6, <1>7

\* Every step of the flash job.
LEMMA SpmStore ==
  ASSUME JobInv, BufferInv, MemoryInv, SpmStep, UNCHANGED <<area, addr, ispData, image>>
  PROVE  MemoryInv'
<1>1. Aside
  BY DEF Aside, SpmStep, SpmErase, SpmLoadWord, SpmPageLoaded, SpmWrite, SpmAllWritten
<1>2. CASE SpmWrite
  <2>1. spm.handler = "write" /\ spm.cb # "none" /\ spm.cb \in Jobs /\ page' = page /\ WritePage(spm.dest)
    BY <1>2 DEF JobInv, SpmWrite, FlashBusy
  <2>2. spm.cb = "write"
    BY <2>1 DEF Jobs, MemoryInv, EraseJobInv
  <2>3. spm.fill = PageSize /\ \A i \in Cells("FLASH") : OnThisPage(i) => flash[i] = Blank
    BY <2>1, <2>2 DEF MemoryInv, FlashJobInv
  <2> QED BY <1>1, <2>1, <2>2, <2>3, PageWritten
<1> QED BY <1>1, <1>2, EraseGoesOn, WordLoaded, PageErased, WriteEnds DEF SpmStep

\* With everything where it belongs and no job left, the buffer is emptied, or was empty.
LEMMA JobOver ==
  ASSUME MemoryInv, UNCHANGED <<flash, page, eeprom, area, image>>, ispData' = <<>>,
         spm'.cb = "none", ee'.cb = "none",
         \A a \in Areas : \A i \in Cells(a) : Found(a, i)
  PROVE  MemoryInv'
<1>1. \A a : Cells(a)' = Cells(a)
  BY DEF Cells, Sizes
<1>2. StoreTypes' /\ BufferOrdered'
  BY <1>1 DEF MemoryInv, StoreTypes, BufferOrdered
<1>3. KeptInv'
  BY <1>1 DEF KeptInv, Found, Promised, Memory, Areas
<1>4. FlashJobInv' /\ EepromJobInv' /\ EraseJobInv'
  BY DEF FlashJobInv, EepromJobInv, EraseJobInv
<1> QED BY <1>2, <1>3, <1>4 DEF MemoryInv

\* The last call of the flash job.
LEMMA FlashEnds ==
  ASSUME JobInv, BufferInv, MemoryInv, SpmInterruptExit
  PROVE  MemoryInv'
<1>1. /\ spm' = [spm EXCEPT !.cb = "none"] /\ spm.handler = "exit" /\ spm.cb # "none"
      /\ UNCHANGED <<flash, page, readable, eeprom, ee>>
  BY DEF SpmInterruptExit, SpmExit, FlashBusy
<1>2. spm'.cb = "none" /\ ee'.cb = "none" /\ spm.cb \in Jobs
  BY <1>1 DEF JobInv, SpmFields, FlashBusy, EepromBusy
<1>3. CASE spm.cb = "write"
  <2>1. area = "FLASH" /\ \A i \in Cells("FLASH") : Found("FLASH", i)
    BY <1>1, <1>3 DEF MemoryInv, FlashJobInv
  <2>2. \A i \in Cells("EEPROM") : Found("EEPROM", i)
    BY <2>1 DEF MemoryInv, KeptInv, InBuffer
  <2>3. ispData' = <<>> /\ area' = area /\ image' = image
    BY <1>3 DEF SpmInterruptExit, WriteComplete, hostVars
  <2> QED BY <1>1, <1>2, <2>1, <2>2, <2>3, JobOver DEF Areas
<1>4. CASE spm.cb # "write"
  <2>1. spm.cb = "erase" /\ ispData = <<>>
    BY <1>1, <1>2, <1>4 DEF Jobs, MemoryInv, EraseJobInv
  <2>2. \A a \in Areas : \A i \in Cells(a) : Found(a, i)
    <3>1. \A a, i : ~InBuffer(a, i)
      BY <2>1, EmptyBuffer DEF BufferInv
    <3> QED BY <1>1, <3>1 DEF MemoryInv, KeptInv, Rewritten, Areas
  <2>3. ispData' = <<>> /\ area' = area /\ image' = image
    BY <1>4, <2>1 DEF SpmInterruptExit, EraseComplete, hostVars
  <2> QED BY <1>1, <1>2, <2>2, <2>3, JobOver
<1> QED BY <1>3, <1>4

\* What the invariants say of a write of EEPROM that is under way.
LEMMA EepromWriteIs ==
  ASSUME JobInv, BufferInv, MemoryInv, ee.cb = "write"
  PROVE  /\ area = "EEPROM" /\ spm.cb = "none" /\ spm.handler = "exit"
         /\ addr \in Nat /\ Position \in Nat /\ Position <= EepromSize /\ EepromSize \in Nat
         /\ ee.addr \in Nat /\ addr <= ee.addr /\ ee.addr <= Position /\ ee.dest = Position - 1
         /\ ee.buffer \in Seq(Data) /\ Len(ee.buffer) = Position - ee.addr
         /\ \A j \in 1..Len(ee.buffer) : ee.buffer[j] = image["EEPROM"][ee.addr + j - 1]
         /\ \A i \in Cells("EEPROM") : i < ee.addr => Found("EEPROM", i)
<1>1. ispData # <<>> /\ spm.cb = "none" /\ spm.handler = "exit"
  BY DEF JobInv, FlashBusy, EepromBusy
<1>2. addr \in Nat /\ ispData \in Seq(Data) /\ Len(ispData) \in Nat /\ Position = addr + Len(ispData)
  BY DEF BufferInv, Fits, Position
<1>3. /\ area = "EEPROM" /\ ee.addr \in addr..Position /\ ee.dest = Position - 1
      /\ Remaining(ee.buffer, ee.addr)
      /\ \A i \in Cells("EEPROM") : i < ee.addr => Found("EEPROM", i)
  BY DEF MemoryInv, EepromJobInv
<1>4. /\ Position <= Sizes("EEPROM")
      /\ \A j \in 1..Len(ispData) : image["EEPROM"][addr + j - 1] = ispData[j]
  BY <1>1, <1>3 DEF MemoryInv, BufferOrdered
<1>5. ee.addr \in Nat /\ addr <= ee.addr /\ ee.addr <= Position
  BY <1>2, <1>3
<1>6. ee.buffer \in Seq(Data) /\ Len(ee.buffer) = Position - ee.addr
  <2>1. Position - ee.addr \in Nat
    BY <1>2, <1>5
  <2>2. \A n \in Nat : Larger(0, n) = n
    BY DEF Larger
  <2> QED BY <1>3, <2>1, <2>2 DEF Remaining
<1>7. ASSUME NEW j \in 1..Len(ee.buffer) PROVE ee.buffer[j] = image["EEPROM"][ee.addr + j - 1]
  <2>1. ee.buffer[j] = ispData[ee.addr - addr + j]
    BY <1>3, <1>7 DEF Remaining
  <2>2. ee.addr - addr + j \in 1..Len(ispData) /\ addr + (ee.addr - addr + j) - 1 = ee.addr + j - 1
    <3>1. j \in Nat /\ 1 <= j /\ j <= Position - ee.addr
      <4>1. Len(ee.buffer) \in Int /\ Len(ee.buffer) = Position - ee.addr
        BY <1>2, <1>5, <1>6
      <4> QED BY <4>1, <1>7
    <3> QED BY <1>2, <1>5, <3>1
  <2>3. image["EEPROM"][addr + (ee.addr - addr + j) - 1] = ispData[ee.addr - addr + j]
    BY <1>4, <2>2
  <2> QED BY <2>1, <2>2, <2>3
<1>8. Position \in Nat /\ Position <= EepromSize /\ EepromSize \in Nat
  <2>1. Sizes("EEPROM") = EepromSize
    BY DEF Sizes
  <2> QED BY <1>2, <1>4, <2>1, PageFacts
<1> QED BY <1>1, <1>2, <1>3, <1>5, <1>6, <1>7, <1>8

\* Where the EEPROM job has found a byte in place, or puts one, the memory is as promised.
LEMMA Agrees ==
  ASSUME JobInv, BufferInv, MemoryInv, ee.cb = "write", NEW j \in 1..Len(ee.buffer)
  PROVE  /\ ee.addr + j - 1 \in Cells("EEPROM")
         /\ (ee.addr + j - 1) % EepromSize = ee.addr + j - 1 /\ ee.addr + j - 1 <= ee.dest
         /\ j \notin Differing => Found("EEPROM", ee.addr + j - 1)
<1>1. /\ Position \in Nat /\ Position <= EepromSize /\ EepromSize \in Nat
      /\ ee.addr \in Nat /\ ee.dest = Position - 1 /\ Len(ee.buffer) = Position - ee.addr
      /\ ee.buffer[j] = image["EEPROM"][ee.addr + j - 1]
  BY EepromWriteIs
<1>2. PICK p : p = ee.addr + j - 1
  OBVIOUS
<1>3. p \in Nat /\ p < EepromSize /\ p <= ee.dest
  BY <1>1, <1>2
<1>4. p % EepromSize = p
  BY <1>1, <1>3
<1>5. p \in Cells("EEPROM")
  BY <1>1, <1>3 DEF Cells, Sizes
<1>6. ASSUME j \notin Differing PROVE Found("EEPROM", p)
  <2>1. eeprom[p] = ee.buffer[j]
    BY <1>2, <1>3, <1>4, <1>6 DEF Differing
  <2> QED BY <1>1, <1>2, <2>1 DEF Found, Memory
<1> QED BY <1>2, <1>3, <1>4, <1>5, <1>6

\* The last call of the EEPROM job: nothing differs any more.
LEMMA EepromEnds ==
  ASSUME JobInv, BufferInv, MemoryInv, EeInterruptExit
  PROVE  MemoryInv'
<1>1. /\ ee' = [ee EXCEPT !.cb = "none"] /\ ee.cb # "none" /\ Differing = {}
      /\ UNCHANGED <<flash, page, readable, eeprom, spm>>
  BY DEF EeInterruptExit, EeExit, EepromBusy
<1>2. spm'.cb = "none" /\ ee'.cb = "none" /\ ee.cb \in Jobs /\ spm.handler = "exit"
  BY <1>1 DEF JobInv, EeFields, FlashBusy, EepromBusy
<1>3. CASE ee.cb = "write"
  <2>1. /\ area = "EEPROM" /\ Position \in Nat /\ ee.addr \in Nat /\ addr <= ee.addr /\ addr \in Nat
        /\ Len(ee.buffer) = Position - ee.addr
        /\ \A i \in Cells("EEPROM") : i < ee.addr => Found("EEPROM", i)
    BY <1>3, EepromWriteIs
  <2>2. \A i \in Cells("FLASH") : Found("FLASH", i)
    BY <1>2, <2>1 DEF MemoryInv, KeptInv, InBuffer, Rewritten
  <2>3. ASSUME NEW i \in Cells("EEPROM") PROVE Found("EEPROM", i)
    <3>1. i \in Nat
      BY PageFacts DEF Cells, Sizes
    <3>2. CASE ee.addr <= i /\ i < Position
      <4>1. PICK j : j = i - ee.addr + 1
        OBVIOUS
      <4>2. j \in 1..Len(ee.buffer) /\ ee.addr + j - 1 = i
        BY <2>1, <3>1, <3>2, <4>1
      <4>3. j \notin Differing
        BY <1>1
      <4>4. Found("EEPROM", ee.addr + j - 1)
        BY <1>3, <4>2, <4>3, Agrees
      <4> QED BY <4>2, <4>4
    <3>3. CASE i >= Position
      <4>1. ~InBuffer("EEPROM", i)
        BY <2>1, <3>1, <3>3 DEF InBuffer
      <4> QED BY <4>1 DEF MemoryInv, KeptInv
    <3> QED BY <2>1, <3>1, <3>2, <3>3
  <2>4. ispData' = <<>> /\ area' = area /\ image' = image
    BY <1>3 DEF EeInterruptExit, WriteComplete, hostVars
  <2> QED BY <1>1, <1>2, <2>2, <2>3, <2>4, JobOver DEF Areas
<1>4. CASE ee.cb # "write"
  <2>1. ee.cb = "erase" /\ ispData = <<>>
    BY <1>1, <1>2, <1>4 DEF Jobs, MemoryInv, EraseJobInv
  <2>2. \A a \in Areas : \A i \in Cells(a) : Found(a, i)
    <3>1. \A a, i : ~InBuffer(a, i)
      BY <2>1, EmptyBuffer DEF BufferInv
    <3> QED BY <1>2, <3>1 DEF MemoryInv, KeptInv, Rewritten, Areas
  <2>3. ispData' = <<>> /\ area' = area /\ image' = image
    BY <1>4, <2>1 DEF EeInterruptExit, EraseComplete, hostVars
  <2> QED BY <1>1, <1>2, <2>2, <2>3, JobOver
<1> QED BY <1>3, <1>4

\* A non-empty set of naturals has a least element: otherwise the intervals
\* up to its elements would descend for ever.
LEMMA Least ==
  ASSUME NEW S \in SUBSET Nat, S # {}
  PROVE  \E n \in S : \A m \in S : n <= m
<1> DEFINE R == StrictSubsetOrdering(Nat)
           T == {0 .. n : n \in S}
<1>1. IsWellFoundedOn(R, FiniteSubsetsOf(Nat))
  BY FS_StrictSubsetOrderingWellFounded
<1>2. T \subseteq FiniteSubsetsOf(Nat)
  <2>1. ASSUME NEW n \in S PROVE 0 .. n \in FiniteSubsetsOf(Nat)
    <3>1. IsFiniteSet(0 .. n)
      BY FS_Interval
    <3> QED BY <3>1 DEF FiniteSubsetsOf
  <2> QED BY <2>1
<1>3. T # {}
  OBVIOUS
<1>4. \E x \in T : \A y \in T : ~(<<y, x>> \in R)
  <2> HIDE DEF R, T
  <2> QED BY <1>1, <1>2, <1>3, WFMin
<1>5. PICK x \in S : \A y \in T : ~(<<y, 0 .. x>> \in R)
  BY <1>4
<1>6. ASSUME NEW m \in S, ~(x <= m) PROVE FALSE
  <2>1. 0 .. m \in SUBSET Nat /\ 0 .. x \in SUBSET Nat
    OBVIOUS
  <2>2. 0 .. m \subseteq 0 .. x /\ 0 .. m # 0 .. x
    <3>1. x \in 0 .. x /\ x \notin 0 .. m
      BY <1>6
    <3> QED BY <1>6, <3>1
  <2>3. <<0 .. m, 0 .. x>> \in R
    BY <2>1, <2>2 DEF StrictSubsetOrdering
  <2> QED BY <1>5, <2>3
<1> QED BY <1>6

\* A byte that differs is written, those before it are in place.
LEMMA EepromStep ==
  ASSUME JobInv, BufferInv, MemoryInv, EeStep, UNCHANGED <<area, addr, ispData, image>>
  PROVE  MemoryInv'
<1>1. UNCHANGED <<flash, page, readable, spm>> /\ ee.cb # "none" /\ Differing # {}
  BY DEF EeStep, EepromBusy
<1>2. PICK i : i = CHOOSE n \in Differing : \A m \in Differing : n <= m
  OBVIOUS
<1>3. i \in Differing /\ \A m \in Differing : i <= m
  <2>1. Differing \in SUBSET Nat
    BY DEF Differing
  <2>2. \E n \in Differing : \A m \in Differing : n <= m
    BY <1>1, <2>1, Least
  <2> QED BY <1>2, <2>2
<1>4. i \in 1..Len(ee.buffer)
  BY <1>3 DEF Differing
<1>5. /\ eeprom' = [eeprom EXCEPT ![(ee.addr + i - 1) % EepromSize] = ee.buffer[i]]
      /\ ee' = [ee EXCEPT !.addr = @ + i, !.buffer = SubSeq(@, i + 1, Len(@))]
  BY <1>2 DEF EeStep
<1>6. /\ ee'.cb = ee.cb /\ ee'.addr = ee.addr + i /\ ee'.dest = ee.dest
      /\ ee'.buffer = SubSeq(ee.buffer, i + 1, Len(ee.buffer))
      /\ DOMAIN eeprom' = DOMAIN eeprom
      /\ DOMAIN eeprom = Cells("EEPROM") /\ ee.cb \in Jobs /\ spm.cb = "none" /\ spm.handler = "exit"
  <2>1. DOMAIN ee = EeFields /\ DOMAIN eeprom = Cells("EEPROM") /\ ee.cb \in Jobs
    BY DEF JobInv, MemoryInv, StoreTypes
  <2>2. spm.cb = "none" /\ spm.handler = "exit"
    BY <1>1 DEF JobInv, FlashBusy, EepromBusy
  <2> QED BY <1>5, <2>1, <2>2 DEF EeFields
<1>7. /\ \A a : Cells(a)' = Cells(a)
      /\ \A a, n : InBuffer(a, n)' = InBuffer(a, n) /\ Promised(a, n)' = Promised(a, n)
      /\ \A n : Found("FLASH", n)' = Found("FLASH", n)
      /\ \A x : LowerThan(x)' = LowerThan(x) /\ BlankAbove(x)' = BlankAbove(x)
      /\ Position' = Position
  BY <1>1 DEF Cells, Sizes, InBuffer, Found, Promised, Memory, LowerThan, BlankAbove, Start, PageOf, Position
<1>8. StoreTypes' /\ BufferOrdered' /\ FlashJobInv'
  BY <1>1, <1>6, <1>7 DEF MemoryInv, StoreTypes, BufferOrdered, FlashJobInv, Sizes
<1>9. \A n \in Cells("FLASH") : InBuffer("FLASH", n)' \/ Found("FLASH", n)'
  BY <1>6, <1>7 DEF MemoryInv, KeptInv, Rewritten
<1>10. CASE ee.cb = "write"
  <2>1. /\ area = "EEPROM" /\ addr \in Nat /\ Position \in Nat /\ ee.addr \in Nat /\ addr <= ee.addr
        /\ ee.dest = Position - 1 /\ ee.buffer \in Seq(Data) /\ Len(ee.buffer) = Position - ee.addr
        /\ ee.addr <= Position
        /\ \A j \in 1..Len(ee.buffer) : ee.buffer[j] = image["EEPROM"][ee.addr + j - 1]
        /\ \A n \in Cells("EEPROM") : n < ee.addr => Found("EEPROM", n)
    BY <1>10, EepromWriteIs
  <2>2. PICK p : p = ee.addr + i - 1
    OBVIOUS
  <2>3. p \in Cells("EEPROM") /\ p % EepromSize = p
    BY <1>4, <1>10, <2>2, Agrees
  <2>4. eeprom' = [eeprom EXCEPT ![p] = ee.buffer[i]]
    BY <1>5, <2>2, <2>3
  <2>5. eeprom'[p] = image["EEPROM"][p] /\ \A n \in Cells("EEPROM") : n # p => eeprom'[n] = eeprom[n]
    BY <1>4, <1>6, <2>1, <2>2, <2>3, <2>4
  <2>6. \A n \in Cells("EEPROM") : n = p \/ Found("EEPROM", n) => Found("EEPROM", n)'
    BY <2>5 DEF Found, Promised, Memory
  <2>7. ASSUME NEW n \in Cells("EEPROM"), n < ee.addr + i PROVE Found("EEPROM", n)'
    <3>1. n \in Nat
      BY PageFacts DEF Cells, Sizes
    <3>2. CASE n < ee.addr
      BY <2>1, <2>6, <3>2
    <3>3. CASE ee.addr <= n /\ n # p
      <4>1. PICK j : j = n - ee.addr + 1
        OBVIOUS
      <4>2. j \in 1..Len(ee.buffer) /\ ee.addr + j - 1 = n /\ j < i
        <5>1. Len(ee.buffer) \in Nat /\ i \in Nat /\ i <= Len(ee.buffer) /\ ee.addr \in Nat
          BY <1>4, <2>1
        <5> QED BY <2>2, <2>7, <3>1, <3>3, <4>1, <5>1
      <4>3. j \notin Differing
        BY <1>3, <1>4, <4>2
      <4>4. Found("EEPROM", ee.addr + j - 1)
        BY <1>10, <4>2, <4>3, Agrees
      <4> QED BY <2>6, <4>2, <4>4
    <3>4. CASE n = p
      BY <2>6, <3>4
    <3> QED BY <2>1, <3>1, <3>2, <3>3, <3>4
  <2>8. Remaining(ee'.buffer, ee'.addr)
    <3>1. PICK b, r : b = ee.buffer /\ r = ee'.buffer
      OBVIOUS
    <3>2. /\ b \in Seq(Data) /\ Len(b) \in Nat /\ i \in 1..Len(b) /\ r = SubSeq(b, i + 1, Len(b))
      BY <1>4, <1>6, <2>1, <3>1
    <3>3. /\ r \in Seq(Data) /\ Len(r) = Len(b) - i
          /\ \A j \in 1..(Len(b) - i) : r[j] = b[i + j]
      BY <3>2
    <3>4. Remaining(b, ee.addr)
      BY <1>10, <3>1 DEF MemoryInv, EepromJobInv
    <3>5. Len(r) = Larger(0, Position - (ee.addr + i))
      <4>1. Position - (ee.addr + i) \in Nat /\ Len(r) = Position - (ee.addr + i)
        <5>1. /\ Len(b) = Position - ee.addr /\ Len(r) = Len(b) - i /\ i \in Nat /\ i <= Len(b)
              /\ Position \in Nat /\ ee.addr \in Nat
          BY <2>1, <3>1, <3>2, <3>3
        <5> QED BY <5>1
      <4>2. \A n \in Nat : Larger(0, n) = n
        BY DEF Larger
      <4> QED BY <4>1, <4>2
    <3>6. \A j \in 1..Len(r) : r[j] = ispData[(ee.addr + i) - addr + j]
      <4> TAKE j \in 1..Len(r)
      <4>1. j \in 1..(Len(b) - i) /\ i + j \in 1..Len(b) /\ j \in Int /\ i \in Int
        BY <3>2, <3>3
      <4>2. r[j] = ispData[ee.addr - addr + (i + j)]
        BY <3>3, <3>4, <4>1 DEF Remaining
      <4>3. ee.addr - addr + (i + j) = (ee.addr + i) - addr + j
        BY <2>1, <4>1
      <4> QED BY <4>2, <4>3
    <3>7. Remaining(r, ee.addr + i)
      BY <3>3, <3>5, <3>6 DEF Remaining
    <3>8. ee'.addr = ee.addr + i
      BY <1>6
    <3> QED BY <3>1, <3>7, <3>8
  <2>9. Remaining(ee.buffer, ee.addr)'
    BY <1>7, <2>8 DEF Remaining
  <2>10. ee'.addr \in addr..Position
    BY <1>4, <1>6, <2>1
  <2>11. EepromJobInv'
    BY <1>6, <1>7, <1>10, <2>1, <2>7, <2>9, <2>10 DEF EepromJobInv
  <2>12. \A n \in Cells("EEPROM") : InBuffer("EEPROM", n)' \/ Found("EEPROM", n)'
    BY <1>7, <2>6 DEF MemoryInv, KeptInv
  <2>13. EraseJobInv'
    BY <1>1, <1>6, <1>10 DEF EraseJobInv
  <2> QED BY <1>7, <1>8, <1>9, <2>11, <2>12, <2>13 DEF MemoryInv, KeptInv
<1>11. CASE ee.cb # "write"
  <2>1. ee.cb = "erase"
    BY <1>1, <1>6, <1>11 DEF Jobs
  <2>2. ispData = <<>> /\ \A n \in Cells("EEPROM") : ~Promised("EEPROM", n)
    BY <2>1 DEF MemoryInv, EraseJobInv
  <2>3. EepromJobInv' /\ EraseJobInv'
    BY <1>1, <1>6, <1>7, <2>1, <2>2 DEF EepromJobInv, EraseJobInv
  <2>4. \A n \in Cells("EEPROM") : Found("EEPROM", n)'
    BY <1>7, <2>2 DEF Found
  <2> QED BY <1>7, <1>8, <1>9, <2>3, <2>4 DEF MemoryInv, KeptInv
<1> QED BY <1>10, <1>11

-----------------------------------------------------------------------------
(* The programmer's handlers as steps of messages. *)

\* What the handlers that have a buffer have in common.
LEMMA IspWithIs ==
  ASSUME OwnInv, NEW b, NEW lck, IspWith(b, lck)
  PROVE  /\ cur # NoMsg /\ cur.sig = "ID_IN" /\ ~inProgress /\ ~started
         /\ cur \in Flight /\ cur.key \in Keys /\ b \in Keys /\ cur.key # b
         /\ mq \in Seq(Msg) /\ KeysIn(mq) \subseteq lck /\ KeysIn(mq) \subseteq lck \ {cur.key}
         /\ b \notin KeysIn(mq) /\ \A m \in In(mq) : m.key \in KeysIn(mq)
<1>1. cur # NoMsg /\ cur.sig = "ID_IN" /\ WithBuffer(b, lck) /\ ~started
  BY DEF IspWith, IspFlush, IspShort, IspMemSelect, IspAddr, IspFullErase, IspWrite, IspReadPart, IspReadDone,
         IspInvalid, IspRequest, At
<1>2. Owns(mq, {cur.key, b}, lck) /\ cur.key # b /\ cur.key \in Keys /\ b \in Keys
  BY <1>1, BufferOwned, Hand
<1> QED BY <1>1, <1>2, HandApart DEF Owns, WithBuffer

\* A part of a read: the buffer goes out with the bytes of the memory from the address on, and
\* the request comes round again.
LEMMA PartSent ==
  ASSUME OwnInv, BufferInv, NEW b, NEW lck, IspReadPart(b, lck)
  PROVE  \E p, d :
           /\ p.sig = "ISP_OUT" /\ p.key = b /\ Flight' \subseteq In(mq) \union {p, cur}
           /\ \A m \in In(mq) \union {cur} : seg'[m.key] = seg[m.key]
           /\ seg'[b].act = "READ" /\ seg'[b].arg = addr /\ seg'[b].data = d
           /\ \A i \in DOMAIN d :
                /\ i \in Nat
                /\ d[i] = IF area = "FLASH" THEN flash[(addr + i - 1) % FlashSize]
                                            ELSE eeprom[(addr + i - 1) % EepromSize]
<1> DEFINE size == ChunkSize(Request.arg - addr)
<1>1. IspWith(b, lck)
  BY DEF IspWith
<1>2. /\ cur \in Flight /\ cur.key \in Keys /\ b \in Keys /\ cur.key # b /\ mq \in Seq(Msg)
      /\ b \notin KeysIn(mq) /\ \A m \in In(mq) : m.key \in KeysIn(mq)
  BY <1>1, IspWithIs
<1>3. PICK d : d = [i \in 1..size |-> IF area = "FLASH" THEN flash[(addr + i - 1) % FlashSize]
                                                       ELSE eeprom[(addr + i - 1) % EepromSize]]
  OBVIOUS
<1>4. seg' = [seg EXCEPT ![b] = Content("READ", addr, "NONE", d)]
  BY <1>3, Zenon DEF IspReadPart
<1>5. seg'[b].act = "READ" /\ seg'[b].arg = addr /\ seg'[b].data = d
  <2>1. b \in DOMAIN seg
    BY <1>2 DEF BufferInv, SegInv
  <2>2. seg'[b] = Content("READ", addr, "NONE", d)
    BY <1>4, <2>1
  <2> QED BY <2>2 DEF Content
<1>6. \A m \in In(mq) \union {cur} : seg'[m.key] = seg[m.key]
  <2>1. \A m \in In(mq) \union {cur} : m.key # b
    BY <1>2
  <2> QED BY <1>4, <2>1
<1>7. \A i \in DOMAIN d :
        /\ i \in Nat
        /\ d[i] = IF area = "FLASH" THEN flash[(addr + i - 1) % FlashSize]
                                    ELSE eeprom[(addr + i - 1) % EepromSize]
  <2>1. DOMAIN d = 1..size
    BY <1>3
  <2> QED BY <1>3, <2>1
<1>8. PICK p : p = Message("ISP_OUT", b, Isp, "DOWN")
  OBVIOUS
<1>9. p.sig = "ISP_OUT" /\ p.key = b
  BY <1>8 DEF Message
<1>10. Flight' \subseteq In(mq) \union {p, cur}
  <2>1. mq' = Push(Push(mq, p), cur) /\ cur' = NoMsg
    BY <1>8 DEF IspReadPart
  <2>2. mq \in Seq(Msg \union {p}) /\ p \in Msg \union {p}
    BY <1>2
  <2>3. Push(mq, p) \in Seq(Msg \union {p}) /\ In(Push(mq, p)) \subseteq In(mq) \union {p}
    BY <2>2, PushIn
  <2>4. PICK m : m = cur
    OBVIOUS
  <2>5. In(Push(Push(mq, p), m)) \subseteq In(Push(mq, p)) \union {m}
    BY <2>3, PushIn
  <2> QED BY <2>1, <2>3, <2>4, <2>5 DEF Flight
<1> QED BY <1>5, <1>6, <1>7, <1>9, <1>10

LEMMA IspWithInherits ==
  ASSUME OwnInv, BufferInv, JobInv, NEW b, NEW lck, IspWith(b, lck), ~IspReadPart(b, lck)
  PROVE  Inherited
<1>1. /\ cur # NoMsg /\ ~inProgress /\ cur \in Flight
      /\ mq \in Seq(Msg) /\ KeysIn(mq) \subseteq lck /\ KeysIn(mq) \subseteq lck \ {cur.key}
  BY IspWithIs
<1>2. ASSUME NEW L, KeysIn(mq) \subseteq L, NEW reply, NEW freed,
             Acknowledges(L, IspAck(reply), <<>>, freed)
      PROVE  Inherited
  <2>1. PICK ack, after : ack = IspAck(reply) /\ after = <<>>
    OBVIOUS
  <2>2. ack.sig \in Outs /\ Acknowledges(L, ack, after, freed)
    BY <1>2, <2>1 DEF IspAck, Outs
  <2> QED BY <1>1, <1>2, <2>1, <2>2, AckInherits
<1>3. CASE IspFlush(b, lck)
  <2>1. mq' = Push(mq, cur) /\ cur' = NoMsg /\ seg' = seg
    <3>1. ~DriverBusy
      BY <1>1, DriverReady
    <3> QED BY <1>3, <3>1 DEF IspFlush
  <2>2. PICK m, N : m = cur /\ N = {m}
    OBVIOUS
  <2>3. In(mq') \subseteq In(mq) \union N
    BY <1>1, <2>1, <2>2, PushIn
  <2>4. \A n \in N : Descends(n)
    BY <1>1, <2>1, <2>2 DEF Descends
  <2> QED BY <1>1, <2>1, <2>3, <2>4, QueueInherits
<1>4. CASE IspShort(b, lck) \/ IspInvalid(b, lck)
  <2>1. cur' = NoMsg /\ mq' = mq /\ seg' = seg
    BY <1>4 DEF IspShort, IspInvalid
  <2> QED BY <1>1, <2>1, EndsInherits
<1>5. CASE IspMemSelect(b, lck) \/ IspAddr(b, lck) \/ IspFullErase(b, lck) \/ IspWrite(b, lck)
  BY <1>1, <1>2, <1>5 DEF IspMemSelect, IspAddr, IspFullErase, IspWrite
<1>6. CASE IspReadDone(b, lck)
  BY <1>1, <1>2, <1>6 DEF IspReadDone
<1> QED BY <1>3, <1>4, <1>5, <1>6 DEF IspWith

\* The handlers without a buffer leave the memories alone, but for the start of the last write.
LEMMA IspRestInherits ==
  ASSUME OwnInv, BufferInv, IspDelay \/ IspNoBuffer \/ IspCloseFlush \/ IspCloseWait \/ IspClosed \/ IspOther
  PROVE  Inherited
<1>1. cur # NoMsg /\ cur \in Msg
  <2>1. cur # NoMsg
    BY DEF IspDelay, IspNoBuffer, IspCloseFlush, IspCloseWait, IspClosed, IspOther, At
  <2> QED BY <2>1, HandApart
<1>2. CASE IspDelay \/ IspCloseFlush \/ IspCloseWait
  <2>1. Sends(cur)
    BY <1>2 DEF IspDelay, IspCloseFlush, IspCloseWait
  <2> QED BY <1>1, <2>1, SendsInherits
<1>3. CASE IspNoBuffer
  <2>1. PICK L, ack, after, freed : /\ L = locked \ {cur.key} /\ ack = IspAck("ERROR")
                                    /\ after = <<>> /\ freed = {}
    OBVIOUS
  <2>2. KeysIn(mq) \subseteq L
    <3>1. Owns(mq, {cur.key} \union Held, locked)
      BY <1>1, Hand
    <3> QED BY <2>1, <3>1 DEF Owns
  <2>3. Acknowledges(L, ack, after, freed) /\ ack.sig \in Outs
    BY <1>3, <2>1 DEF IspNoBuffer, IspAck, Outs
  <2> QED BY <1>1, <2>1, <2>2, <2>3, AckInherits
<1>4. CASE IspClosed
  <2>1. PICK m : m = Resent(cur, "COMM_CLOSED", Isp, Toggled(cur.dir))
    OBVIOUS
  <2>2. m.key = cur.key /\ m.sig \notin Ins \union Outs /\ Sends(m)
    BY <1>4, <2>1 DEF IspClosed, Resent, Message, Ins, Outs
  <2> QED BY <1>1, <2>2, SendsInherits
<1>5. CASE IspOther
  <2>1. CASE Frees
    BY <1>1, <2>1, EndsInherits DEF Frees
  <2>2. CASE Sends(Visited(cur))
    <3>1. PICK m : m = Visited(cur)
      OBVIOUS
    <3>2. m.key = cur.key /\ m.sig = cur.sig
      BY <1>1, <3>1 DEF Visited, Msg
    <3> QED BY <1>1, <2>2, <3>1, <3>2, SendsInherits
  <2> QED BY <1>5, <2>1, <2>2 DEF IspOther
<1> QED BY <1>2, <1>3, <1>4, <1>5

-----------------------------------------------------------------------------
(* The memories and the writes on their way under every step. *)

\* The handlers of the programmer: a write is taken with the room it was sent for.
LEMMA IspWithMemory ==
  ASSUME OwnInv, BufferInv, JobInv, MemoryInv, CareInv, NEW b, NEW lck, IspWith(b, lck)
  PROVE  MemoryInv'
<1>1. /\ cur.sig = "ID_IN" /\ ~inProgress /\ cur \in Flight /\ cur.key \in Keys
      /\ ~DriverBusy /\ area \in Areas
  BY IspWithIs, DriverReady DEF MemoryInv, StoreTypes
<1>2. CASE IspFlush(b, lck)
  <2>1. WriteAsync /\ MustFlush /\ UNCHANGED <<area, addr, ispData, image>>
    BY <1>1, <1>2 DEF IspFlush, hostVars
  <2>2. ispData # <<>>
    <3>1. ASSUME Overflows PROVE ispData # <<>>
      <4>1. Request.data \in Seq(Data) /\ Len(Request.data) <= BufferSize
        BY <1>1, <3>1 DEF BufferInv, SegInv, Fits, Overflows, Request
      <4>2. Len(Request.data) \in Nat /\ Len(<<>>) = 0
        BY <4>1
      <4>3. Len(ispData) + Len(Request.data) > BufferSize
        BY <3>1 DEF Overflows
      <4> QED BY <4>1, <4>2, <4>3, SizeAssumption
    <3> QED BY <2>1, <3>1 DEF MustFlush
  <2> QED BY <1>1, <2>1, <2>2, WriteBegins
<1>3. CASE IspShort(b, lck) \/ IspReadDone(b, lck) \/ IspInvalid(b, lck)
  <2>1. UNCHANGED <<memVars, area, addr, ispData, image>>
    BY <1>3 DEF IspShort, IspReadDone, IspInvalid, hostVars
  <2> QED BY <2>1, StoreStill
<1>4. CASE IspMemSelect(b, lck) \/ IspAddr(b, lck) \/ IspReadPart(b, lck)
  <2>1. ispData = <<>> /\ ispData' = <<>> /\ UNCHANGED <<memVars, image>>
    BY <1>4 DEF IspMemSelect, IspAddr, IspReadPart, IspRequest, MustFlush, hostVars
  <2>2. area' \in Areas
    BY <1>1, <1>4 DEF IspMemSelect, IspAddr, IspReadPart, AreaOf, Areas
  <2>3. addr' \in Nat
    BY IspWithBuffer DEF BufferInv
  <2> QED BY <1>1, <2>1, <2>2, <2>3, MovesStore
<1>5. CASE IspFullErase(b, lck)
  <2>1. /\ ispData = <<>> /\ EraseAsync /\ UNCHANGED <<area, addr, ispData>>
        /\ image' = [image EXCEPT ![area] = [i \in DOMAIN @ |-> NoPromise]]
    BY <1>1, <1>5 DEF IspFullErase, IspRequest, MustFlush
  <2> QED BY <1>1, <2>1, EraseBegins
<1>6. CASE IspWrite(b, lck)
  <2>1. seg[cur.key].act = "WRITE" /\ UNCHANGED <<memVars, area, addr>>
    BY <1>6 DEF IspWrite, IspRequest, Request
  <2>2. PICK d : d = Request.data
    OBVIOUS
  <2>3. d \in Seq(Data)
    BY <1>1, <2>1, <2>2 DEF BufferInv, SegInv, Fits, Request
  <2>4. RoomAt(Len(d))
    BY <1>1, <2>1, <2>2 DEF CareInv, Writing, Ins, Request
  <2>5. /\ ispData' = ispData \o d
        /\ image' = [image EXCEPT ![area] = [i \in DOMAIN @ |->
                       LET n == i - addr - Len(ispData)
                       IN  IF n \in 0..(Len(d) - 1) THEN d[n + 1] ELSE @[i]]]
    BY <1>6, <2>2, Zenon DEF IspWrite
  <2> QED BY <1>1, <2>1, <2>3, <2>4, <2>5, BytesAdded
<1> QED BY <1>2, <1>3, <1>4, <1>5, <1>6 DEF IspWith

LEMMA InitMemory == Init => MemoryInv
<1> SUFFICES ASSUME Init PROVE MemoryInv
  OBVIOUS
<1>1. /\ flash = [a \in 0..(FlashSize - 1) |-> Garbage] /\ page = [i \in 0..(PageSize - 1) |-> Blank]
      /\ eeprom = [a \in 0..(EepromSize - 1) |-> Garbage]
      /\ spm = NoFlashJob /\ ee = NoEepromJob
      /\ area = "FLASH" /\ addr = 0 /\ ispData = <<>>
      /\ image = [a \in Areas |-> [i \in 0..(Sizes(a) - 1) |-> NoPromise]]
  BY DEF Init, MemInit
<1>2. spm.cb = "none" /\ ee.cb = "none"
  BY <1>1 DEF NoFlashJob, NoEepromJob
<1>3. Sizes("FLASH") = FlashSize /\ Sizes("EEPROM") = EepromSize
  BY DEF Sizes
<1>4. StoreTypes
  BY <1>1, <1>3 DEF StoreTypes, Areas, Cells
<1>5. \A a \in Areas : \A i \in Cells(a) : Found(a, i)
  BY <1>1 DEF Found, Promised, Cells
<1> QED BY <1>1, <1>2, <1>4, <1>5, NoJobs DEF MemoryInv, BufferOrdered, KeptInv, Areas

LEMMA NextMemory ==
  ASSUME OwnInv, BufferInv, JobInv, MemoryInv, CareInv, [Next]_vars
  PROVE  MemoryInv'
<1>1. CASE \E b \in Keys : IspWith(b, IF ispBuffer = None THEN locked \union {b} ELSE locked)
  BY <1>1, IspWithMemory
<1>2. CASE IspCloseFlush
  <2>1. ispData # <<>> /\ ~inProgress /\ WriteAsync /\ UNCHANGED <<area, addr, ispData, image>>
    BY <1>2 DEF IspCloseFlush, hostVars
  <2> QED BY <2>1, WriteBegins
<1>3. CASE \/ Pop \/ ReceiveCanPhy \/ ReceiveId \/ HostGivesUp \/ UNCHANGED vars
           \/ (\E r \in Requests : HostRequests(r))
           \/ IspDelay \/ IspNoBuffer \/ IspCloseWait \/ IspClosed \/ IspOther
  <2>1. UNCHANGED <<memVars, area, addr, ispData, image>>
    BY <1>3 DEF Pop, ReceiveCanPhy, CanPhyOut, CanPhyEnableFilter, CanPhyApplStart, CanPhyOther, ReceiveId, IdClosed,
         IdApplStart, IdOwn, IdEmpty, IdDelay, IdSelectOpen, IdSelectClose, IdForward, IdTrash,
         IdFilterEnabled, IdOther, HostGivesUp, HostRequests, CanIrqReceive, FrameDuringReceive, vars, IspDelay, IspNoBuffer,
         IspCloseWait, IspClosed, IspOther, ispVars, hostVars
  <2> QED BY <2>1, StoreStill
<1>4. CASE Interrupt
  <2>1. CASE SpmInterrupt
    <3>1. SpmStep /\ UNCHANGED <<area, addr, ispData, image>>
      BY <2>1 DEF SpmInterrupt, ispVars, hostVars
    <3> QED BY <3>1, SpmStore
  <2>2. CASE EeInterrupt
    <3>1. EeStep /\ UNCHANGED <<area, addr, ispData, image>>
      BY <2>2 DEF EeInterrupt, ispVars, hostVars
    <3> QED BY <3>1, EepromStep
  <2> QED BY <1>4, <2>1, <2>2, FlashEnds, EepromEnds DEF Interrupt
<1> QED BY <1>1, <1>2, <1>3, <1>4 DEF Next, Receive, ReceiveIsp

-----------------------------------------------------------------------------
(* The room for a write on its way. *)

\* The place where the next bytes go, and what flash looks like from there on.
RoomKept ==
  /\ Position' = Position /\ area' = area /\ image' = image
  /\ area = "FLASH" /\ (spm.cb = "erase" \/ BlankAbove(Position)) => spm'.cb = "erase" \/ BlankAbove(Position)'

LEMMA CareStep ==
  ASSUME CareInv, Inherited, RoomKept
  PROVE  CareInv'
<1>1. \A n : RoomAt(n) => RoomAt(n)'
  <2> TAKE n
  <2>1. LowerThan(Position) => LowerThan(Position)'
    BY DEF RoomKept, LowerThan, Promised, Cells, Sizes
  <2> QED BY <2>1 DEF RoomKept, RoomAt, Sizes
<1> SUFFICES ASSUME NEW m \in Flight', Writing(m, seg') PROVE RoomAt(Len(seg[m.key].data))'
  BY DEF CareInv
<1>2. PICK n \in Flight : seg'[m.key] = seg[n.key] /\ n.sig \in Ins
  BY DEF Inherited, Descends, Silent, Writing
<1>3. RoomAt(Len(seg[n.key].data))
  BY <1>2 DEF CareInv, Writing
<1>4. PICK x : x = Len(seg[n.key].data)
  OBVIOUS
<1>5. RoomAt(x)' /\ Len(seg'[m.key].data) = x
  BY <1>1, <1>2, <1>3, <1>4
<1> QED BY <1>5 DEF RoomAt

\* Nothing that writes is on its way.
LEMMA CareVacuous ==
  ASSUME Inherited, \A n \in Flight : ~Writing(n, seg)
  PROVE  CareInv'
<1> SUFFICES ASSUME NEW m \in Flight', Writing(m, seg') PROVE FALSE
  BY DEF CareInv
<1>1. PICK n \in Flight : seg'[m.key] = seg[n.key] /\ n.sig \in Ins
  BY DEF Inherited, Descends, Silent, Writing
<1> QED BY <1>1 DEF Writing

\* Steps that leave the memories alone, but for the start of a job.
LEMMA RoomStays ==
  ASSUME UNCHANGED <<flash, area, addr, ispData, image>>, spm' = spm \/ spm.cb # "erase"
  PROVE  RoomKept
<1>1. Position' = Position /\ (BlankAbove(Position) => BlankAbove(Position)')
  BY DEF Position, BlankAbove, Cells, Sizes, Start, PageOf
<1> QED BY <1>1 DEF RoomKept

LEMMA WriteAsyncRoom ==
  ASSUME JobInv, ~inProgress, WriteAsync, UNCHANGED <<area, addr, ispData, image>>
  PROVE  RoomKept
<1>1. flash' = flash /\ spm.cb = "none"
  BY AtRest DEF WriteAsync, FlashWriteAsync, EepromWriteAsync
<1> QED BY <1>1, RoomStays

\* The flash job writes the page it has loaded bytes of, which begins below the next place.
LEMMA SpmRoom ==
  ASSUME JobInv, BufferInv, MemoryInv, SpmStep, UNCHANGED <<area, addr, ispData, image>>
  PROVE  RoomKept
<1>1. spm.cb # "none" /\ spm.cb \in Jobs /\ DOMAIN spm = SpmFields
  BY DEF JobInv, SpmStep, SpmErase, SpmLoadWord, SpmPageLoaded, SpmWrite, SpmAllWritten, FlashBusy
<1>2. spm'.cb = spm.cb
  BY <1>1 DEF SpmStep, SpmErase, SpmLoadWord, SpmPageLoaded, SpmWrite, SpmAllWritten, WritePage, SpmFields
<1>3. CASE spm.cb = "erase"
  BY <1>2, <1>3 DEF RoomKept, Position
<1>4. CASE flash' = flash
  <2>1. Position' = Position /\ (BlankAbove(Position) => BlankAbove(Position)')
    BY <1>4 DEF Position, BlankAbove, Cells, Sizes, Start, PageOf
  <2> QED BY <1>2, <2>1 DEF RoomKept
<1>5. CASE spm.cb = "write" /\ flash' # flash
  <2>1. /\ spm.handler # "exit" /\ spm.fill = PageSize
        /\ \A b \in DOMAIN flash : b \notin OnPage(spm.dest) => flash'[b] = flash[b]
    <3>1. SpmPageLoaded \/ SpmWrite
      <4>1. ~SpmErase
        BY <1>5 DEF SpmErase, MemoryInv, FlashJobInv
      <4> QED BY <1>5, <4>1 DEF SpmStep, SpmLoadWord, SpmAllWritten
    <3>2. spm.fill = PageSize /\ spm.handler # "exit"
      BY <1>5, <3>1 DEF SpmPageLoaded, SpmWrite, MemoryInv, FlashJobInv
    <3>3. ErasePage(spm.dest) \/ WritePage(spm.dest)
      BY <3>1 DEF SpmPageLoaded, SpmWrite
    <3> QED BY <3>2, <3>3 DEF ErasePage, WritePage
  <2>2. /\ PageJob /\ Position \in Nat /\ PageStart \in Nat /\ Start(PageStart) = PageStart
        /\ spm.dest \in Nat /\ DOMAIN flash = Cells("FLASH")
    BY <1>5, <2>1, WriteIs
  <2>3. PageStart < Position /\ PageSize \in Nat /\ PageSize > 0
    BY <2>1, <2>2, PageFacts DEF PageJob
  <2>4. PageStart <= Start(Position) /\ Start(Position) \in Nat
    <3>1. PICK x, y \in Nat : x = PageStart /\ y = Position
      BY <2>2
    <3>2. Start(x) <= Start(y) /\ Start(y) \in Nat
      <4>1. x <= y => Start(x) <= Start(y)
        BY PageOrder
      <4>2. Start(y) \in Nat
        BY PageIs
      <4> QED BY <2>2, <2>3, <3>1, <4>1, <4>2
    <3> QED BY <2>2, <3>1, <3>2
  <2>5. \A i \in Cells("FLASH") : Start(Position) + PageSize <= i => flash'[i] = flash[i]
    <3> SUFFICES ASSUME NEW i \in Cells("FLASH"), Start(Position) + PageSize <= i PROVE flash'[i] = flash[i]
      OBVIOUS
    <3>1. i \in Nat
      BY PageFacts DEF Cells, Sizes
    <3>2. ~(i < PageStart + PageSize)
      BY <2>2, <2>3, <2>4, <3>1
    <3>3. i \notin OnPage(spm.dest)
      BY <2>2, <3>2, OnPageIs DEF PageStart
    <3> QED BY <2>1, <2>2, <3>3
  <2>6. Position' = Position
    BY DEF Position
  <2>7. BlankAbove(Position) => BlankAbove(Position)'
    BY <2>5, <2>6 DEF BlankAbove, Cells, Sizes, Start, PageOf
  <2> QED BY <1>2, <2>6, <2>7 DEF RoomKept
<1> QED BY <1>1, <1>3, <1>4, <1>5 DEF Jobs

\* The jobs' last calls.
LEMMA ExitRoom ==
  ASSUME JobInv, BufferInv, MemoryInv, SpmInterruptExit \/ EeInterruptExit
  PROVE  RoomKept
<1>1. addr \in Nat /\ Len(ispData) \in Nat /\ Position = addr + Len(ispData)
  BY DEF BufferInv, Fits, Position
<1>2. WriteComplete \/ EraseComplete
  BY DEF SpmInterruptExit, EeInterruptExit
<1>3. Position' = Position /\ area' = area /\ image' = image
  <2>1. CASE WriteComplete
    <3>1. Len(<<>>) = 0
      OBVIOUS
    <3> QED BY <1>1, <2>1, <3>1 DEF WriteComplete, hostVars, Position
  <2>2. CASE EraseComplete
    BY <2>2 DEF EraseComplete, hostVars, Position
  <2> QED BY <1>2, <2>1, <2>2
<1>4. flash' = flash /\ spm'.cb \in {"none", spm.cb}
  BY DEF SpmInterruptExit, EeInterruptExit, SpmExit, EeExit, JobInv, SpmFields
<1>5. BlankAbove(Position) => BlankAbove(Position)'
  BY <1>3, <1>4 DEF BlankAbove, Cells, Sizes, Start, PageOf
<1>6. CASE spm.cb = "erase" /\ spm'.cb # "erase"
  <2>1. spm.handler = "exit"
    BY <1>6 DEF SpmInterruptExit, EeInterruptExit, SpmExit, EeExit
  <2>2. \A i \in Cells("FLASH") : flash[i] = Blank
    BY <1>6, <2>1 DEF MemoryInv, EraseJobInv
  <2>3. BlankAbove(Position)'
    BY <1>4, <2>2 DEF BlankAbove, Cells, Sizes
  <2> QED BY <1>3, <2>3 DEF RoomKept
<1> QED BY <1>3, <1>5, <1>6 DEF RoomKept

\* The message in hand is the only one that can write.
LEMMA OneWrites ==
  ASSUME OwnInv, FlowInv, cur # NoMsg, cur.sig = "ID_IN"
  PROVE  \A m \in In(mq) : m.sig \notin Ins
<1> SUFFICES ASSUME NEW m \in In(mq), m.sig \in Ins PROVE FALSE
  OBVIOUS
<1>1. cur \in Flight /\ m \in Flight /\ m # cur
  BY HandApart
<1>2. Token(cur, seg) /\ Token(m, seg)
  BY DEF Token, Ins, Asking
<1> QED BY <1>1, <1>2 DEF FlowInv

LEMMA IspWithCare ==
  ASSUME OwnInv, BufferInv, JobInv, FlowInv, MemoryInv, CareInv, NEW b, NEW lck, IspWith(b, lck)
  PROVE  CareInv'
<1>1. /\ cur # NoMsg /\ cur.sig = "ID_IN" /\ ~inProgress /\ cur \in Flight /\ ~DriverBusy
      /\ mq \in Seq(Msg) /\ KeysIn(mq) \subseteq lck
      /\ \A m \in In(mq) : m.sig \notin Ins
  BY IspWithIs, DriverReady, OneWrites
<1>2. Flight = In(mq) \union {cur}
  BY <1>1, HandApart
<1>3. CASE IspFlush(b, lck)
  <2>1. WriteAsync /\ UNCHANGED <<area, addr, ispData, image>>
    BY <1>1, <1>3 DEF IspFlush, hostVars
  <2>2. ~IspReadPart(b, lck)
    BY <1>3 DEF IspFlush, IspReadPart
  <2> QED BY <1>1, <2>1, <2>2, WriteAsyncRoom, IspWithInherits, CareStep
<1>4. CASE IspShort(b, lck) \/ IspReadDone(b, lck) \/ IspInvalid(b, lck)
  <2>1. UNCHANGED <<memVars, area, addr, ispData, image>>
    BY <1>4 DEF IspShort, IspReadDone, IspInvalid, hostVars
  <2>2. RoomKept
    BY <2>1, RoomStays DEF memVars
  <2>3. ~IspReadPart(b, lck)
    <3>1. Request.arg \in Int /\ addr \in Int
      BY IspWithIs, NoArgType DEF BufferInv, SegInv, Request
    <3>2. IspReadDone(b, lck) => ~(Request.arg > addr)
      BY <3>1 DEF IspReadDone
    <3> QED BY <1>4, <3>2 DEF IspShort, IspInvalid, IspReadPart, IspRequest
  <2> QED BY <2>2, <2>3, IspWithInherits, CareStep
<1>5. CASE IspMemSelect(b, lck) \/ IspAddr(b, lck) \/ IspFullErase(b, lck)
  <2>1. Request.act # "WRITE" /\ ~IspReadPart(b, lck)
    BY <1>5 DEF IspMemSelect, IspAddr, IspFullErase, IspReadPart, IspRequest
  <2>2. \A m \in Flight : ~Writing(m, seg)
    BY <1>1, <1>2, <2>1 DEF Writing, Request
  <2> QED BY <2>1, <2>2, IspWithInherits, CareVacuous
<1>6. CASE IspWrite(b, lck)
  <2>1. PICK ack, after : ack = IspAck("OK") /\ after = <<>>
    OBVIOUS
  <2>2. Acknowledges(lck, ack, after, {cur.key}) /\ ack.sig = "ISP_OUT"
    BY <1>6, <2>1 DEF IspWrite, IspAck
  <2>3. PICK a : a.sig = "ISP_OUT" /\ Flight' \subseteq In(mq) \union ({a} \union {})
    BY <1>1, <2>1, <2>2, AckFlight
  <2>4. \A m \in Flight' : m.sig \notin Ins
    BY <1>1, <2>3 DEF Ins
  <2> QED BY <2>4 DEF CareInv, Writing
<1>7. CASE IspReadPart(b, lck)
  <2>1. PICK p : /\ p.sig = "ISP_OUT" /\ Flight' \subseteq In(mq) \union {p, cur}
                 /\ \A m \in In(mq) \union {cur} : seg'[m.key] = seg[m.key]
    BY <1>7, PartSent
  <2>2. seg[cur.key].act # "WRITE"
    BY <1>7 DEF IspReadPart, IspRequest, Request
  <2>3. \A m \in Flight' : ~Writing(m, seg')
    BY <1>1, <2>1, <2>2 DEF Writing, Ins
  <2> QED BY <2>3 DEF CareInv
<1> QED BY <1>3, <1>4, <1>5, <1>6, <1>7 DEF IspWith

\* A careful host asks for a write only where there is room for it.
LEMMA HostCare ==
  ASSUME OwnInv, BufferInv, HostInv, FlowInv, MemoryInv, Window = 1, NEW r \in Requests, HostRequests(r)
  PROVE  CareInv'
<1>1. /\ Careful(r) /\ CanIrqReceive(r) /\ waiting = <<>>
      /\ UNCHANGED <<cur, flash, spm, area, addr, ispData, image>>
  BY SilentHost DEF HostRequests, CanIrqReceive, memVars, ispVars
<1>2. \A m \in Flight : m.sig \notin Ins
  BY <1>1 DEF FlowInv, Token, Asking, Ins
<1>3. addr \in Nat /\ Position \in Nat /\ Position' = Position
  BY <1>1 DEF BufferInv, Fits, Position
<1>4. r.act = "WRITE" => RoomAt(Len(r.data))
  <2> SUFFICES ASSUME r.act = "WRITE" PROVE RoomAt(Len(r.data))
    OBVIOUS
  <2>1. Position + Len(r.data) <= Sizes(area) /\ CarefulWrite(r)
    BY <1>1 DEF Careful
  <2>2. DOMAIN image["FLASH"] = Cells("FLASH") /\ DOMAIN flash = Cells("FLASH")
    BY DEF MemoryInv, StoreTypes, Areas
  <2>3. CASE area = "FLASH"
    <3>1. LowerThan(Position)
      BY <2>1, <2>2, <2>3 DEF CarefulWrite, LowerThan, Promised
    <3>2. spm.cb = "erase" \/ BlankAbove(Position)
      <4> SUFFICES ASSUME spm.cb # "erase" PROVE BlankAbove(Position)
        OBVIOUS
      <4>1. \A i \in Cells("FLASH") : PageOf(i) > PageOf(Position) => flash[i] = Blank
        BY <2>1, <2>2, <2>3 DEF CarefulWrite
      <4>2. \A i \in Cells("FLASH") : i \in Nat
        BY PageFacts DEF Cells, Sizes
      <4> QED BY <1>3, <4>1, <4>2, PageOrder DEF BlankAbove
    <3> QED BY <2>1, <3>1, <3>2 DEF RoomAt
  <2> QED BY <2>1, <2>3 DEF RoomAt
<1>5. CASE UNCHANGED <<mq, locked, seg>>
  <2>1. Flight' = Flight
    BY <1>1, <1>5 DEF Flight
  <2> QED BY <1>2, <2>1 DEF CareInv, Writing
<1>6. ASSUME NEW k \in Keys \ locked, seg' = [seg EXCEPT ![k] = Content(r.act, r.arg, "NONE", r.data)],
             mq' = Push(mq, Message("PHY_IN", k, CanPhy, "UP"))
      PROVE  CareInv'
  <2>1. PICK p : p = Message("PHY_IN", k, CanPhy, "UP")
    OBVIOUS
  <2>2. p.key = k
    BY <2>1 DEF Message
  <2>3. Flight' \subseteq Flight \union {p}
    <3>1. mq \in Seq(Msg)
      BY DEF OwnInv, Owns
    <3>2. In(Push(mq, p)) \subseteq In(mq) \union {p}
      BY <3>1, PushIn
    <3> QED BY <1>1, <1>6, <2>1, <3>2 DEF Flight
  <2>4. seg'[k].act = r.act /\ seg'[k].data = r.data
    <3>1. k \in DOMAIN seg
      BY DEF BufferInv, SegInv
    <3>2. seg'[k] = Content(r.act, r.arg, "NONE", r.data)
      BY <1>6, <3>1
    <3> QED BY <3>2 DEF Content
  <2> SUFFICES ASSUME NEW m \in Flight', Writing(m, seg') PROVE RoomAt(Len(seg[m.key].data))'
    BY DEF CareInv
  <2>5. m = p
    BY <1>2, <2>3 DEF Writing
  <2>6. RoomAt(Len(r.data))
    BY <1>4, <2>2, <2>4, <2>5 DEF Writing
  <2>7. (LowerThan(Position) => LowerThan(Position)') /\ (BlankAbove(Position) => BlankAbove(Position)')
    BY <1>1, <1>3 DEF LowerThan, BlankAbove, Promised, Cells, Sizes, Start, PageOf
  <2>8. seg'[m.key].data = r.data
    BY <2>2, <2>4, <2>5
  <2> QED BY <1>1, <1>3, <2>6, <2>7, <2>8 DEF RoomAt, Sizes
<1> QED BY <1>1, <1>5, <1>6 DEF CanIrqReceive

LEMMA InitCare == Init => CareInv
<1> SUFFICES ASSUME Init PROVE CareInv
  OBVIOUS
<1>1. Flight = {}
  BY DEF Init, Flight, In
<1> QED BY <1>1 DEF CareInv

LEMMA NextCare ==
  ASSUME Window = 1, OwnInv, BufferInv, JobInv, HostInv, FlowInv, MemoryInv, CareInv, [Next]_vars
  PROVE  CareInv'
<1>1. CASE \E b \in Keys : IspWith(b, IF ispBuffer = None THEN locked \union {b} ELSE locked)
  BY <1>1, IspWithCare
<1>2. CASE IspCloseFlush
  <2>1. ~inProgress /\ WriteAsync /\ UNCHANGED <<area, addr, ispData, image>>
    BY <1>2 DEF IspCloseFlush, hostVars
  <2> QED BY <1>2, <2>1, WriteAsyncRoom, IspRestInherits, CareStep
<1>3. CASE \/ Pop \/ ReceiveCanPhy \/ ReceiveId \/ UNCHANGED vars
           \/ IspDelay \/ IspNoBuffer \/ IspCloseWait \/ IspClosed \/ IspOther
  <2>1. UNCHANGED <<memVars, area, addr, ispData, image>>
    BY <1>3 DEF Pop, ReceiveCanPhy, CanPhyOut, CanPhyEnableFilter, CanPhyApplStart, CanPhyOther, ReceiveId, IdClosed,
         IdApplStart, IdOwn, IdEmpty, IdDelay, IdSelectOpen, IdSelectClose, IdForward, IdTrash,
         IdFilterEnabled, IdOther, vars, IspDelay, IspNoBuffer,
         IspCloseWait, IspClosed, IspOther, ispVars, hostVars
  <2>2. Inherited
    <3>1. CASE UNCHANGED vars
      <4>1. Flight' \subseteq Flight /\ seg' = seg
        BY <3>1 DEF vars, ipcVars, Flight
      <4> QED BY <4>1, StaysInherits
    <3> QED BY <1>3, <3>1, PopInherits, OthersInherit, IspRestInherits
  <2>3. RoomKept
    BY <2>1, RoomStays DEF memVars
  <2> QED BY <2>2, <2>3, CareStep
<1>4. CASE Interrupt
  <2>1. Inherited
    <3>1. UNCHANGED <<mq, cur, seg>>
      BY <1>4 DEF Interrupt, SpmInterrupt, SpmInterruptExit, EeInterrupt, EeInterruptExit, WriteComplete,
                  EraseComplete, ipcVars
    <3>2. Flight' \subseteq Flight
      BY <3>1 DEF Flight
    <3> QED BY <3>1, <3>2, StaysInherits
  <2>2. CASE SpmInterrupt
    BY <2>1, <2>2, SpmRoom, CareStep DEF SpmInterrupt, ispVars, hostVars
  <2>3. CASE EeInterrupt
    <3>1. UNCHANGED <<flash, spm, area, addr, ispData, image>>
      BY <2>3 DEF EeInterrupt, EeStep, ispVars, hostVars
    <3> QED BY <2>1, <3>1, RoomStays, CareStep
  <2> QED BY <1>4, <2>1, <2>2, <2>3, ExitRoom, CareStep DEF Interrupt
<1>5. ASSUME NEW r \in Requests, HostRequests(r) PROVE CareInv'
  BY <1>5, HostCare
<1>6. CASE HostGivesUp
  <2>1. mq' = <<>> /\ cur' = NoMsg
    BY <1>6 DEF HostGivesUp, Idle, ipcVars
  <2>2. Flight' = {}
    BY <2>1 DEF Flight, In
  <2> QED BY <2>2 DEF CareInv
<1> QED BY <1>1, <1>2, <1>3, <1>4, <1>5, <1>6 DEF Next, Receive, ReceiveIsp

-----------------------------------------------------------------------------
(* The bytes on their way to the host. *)

LEMMA PartStep ==
  ASSUME PartInv, Inherited, area' = area, image' = image
  PROVE  PartInv'
<1> SUFFICES ASSUME NEW m \in Flight', Bytes(m, seg')
             PROVE  m.sig = "ISP_OUT" /\ seg'[m.key].act = "READ" /\ AsPromised(seg[m.key])'
  BY DEF PartInv
<1>1. PICK n \in Flight : seg'[m.key] = seg[n.key] /\ n.sig = m.sig
  BY DEF Inherited, Descends, Silent, Bytes
<1>2. n.sig = "ISP_OUT" /\ seg[n.key].act = "READ" /\ AsPromised(seg[n.key])
  BY <1>1 DEF PartInv, Bytes
<1>3. PICK c : c = seg[n.key]
  OBVIOUS
<1>4. AsPromised(c)'
  BY <1>2, <1>3 DEF AsPromised, Cells, Sizes
<1> QED BY <1>1, <1>2, <1>3, <1>4 DEF AsPromised

\* No bytes are on their way.
LEMMA PartVacuous ==
  ASSUME Inherited, \A n \in Flight : ~Bytes(n, seg)
  PROVE  PartInv'
<1> SUFFICES ASSUME NEW m \in Flight', Bytes(m, seg') PROVE FALSE
  BY DEF PartInv
<1>1. PICK n \in Flight : seg'[m.key] = seg[n.key] /\ n.sig = m.sig
  BY DEF Inherited, Descends, Silent, Bytes
<1> QED BY <1>1 DEF Bytes

LEMMA IspWithPart ==
  ASSUME OwnInv, BufferInv, JobInv, MemoryInv, AnswerInv, PartInv, NEW b, NEW lck, IspWith(b, lck)
  PROVE  PartInv'
<1>1. /\ cur # NoMsg /\ cur.sig = "ID_IN" /\ ~inProgress /\ cur \in Flight /\ ~DriverBusy
      /\ area \in Areas /\ addr \in Nat
  BY IspWithIs, DriverReady DEF MemoryInv, StoreTypes, BufferInv
<1>2. Flight = In(mq) \union {cur}
  BY <1>1, HandApart
<1>3. Request.act # "READ" => \A m \in Flight : ~Bytes(m, seg)
  <2> SUFFICES ASSUME NEW m \in Flight, Bytes(m, seg) PROVE Request.act = "READ"
    OBVIOUS
  <2>1. m.sig = "ISP_OUT" /\ seg[m.key].act = "READ"
    BY DEF PartInv
  <2>2. seg[m.key].act = Served.act /\ seg[cur.key].act = Served.act
    BY <1>1, <2>1 DEF AnswerInv, Carries
  <2> QED BY <2>1, <2>2 DEF Request
<1>4. CASE IspMemSelect(b, lck) \/ IspFullErase(b, lck) \/ IspWrite(b, lck)
  <2>1. Request.act # "READ" /\ ~IspReadPart(b, lck)
    BY <1>4 DEF IspMemSelect, IspFullErase, IspWrite, IspReadPart, IspRequest
  <2> QED BY <1>3, <2>1, IspWithInherits, PartVacuous
<1>5. CASE ~IspReadPart(b, lck) /\ ~IspMemSelect(b, lck) /\ ~IspFullErase(b, lck) /\ ~IspWrite(b, lck)
  <2>1. area' = area /\ image' = image
    BY <1>1, <1>5 DEF IspWith, IspFlush, IspShort, IspAddr, IspReadDone, IspInvalid, hostVars
  <2> QED BY <1>5, <2>1, IspWithInherits, PartStep
<1>6. CASE IspReadPart(b, lck)
  <2>1. PICK p, d :
          /\ p.sig = "ISP_OUT" /\ p.key = b /\ Flight' \subseteq In(mq) \union {p, cur}
          /\ \A m \in In(mq) \union {cur} : seg'[m.key] = seg[m.key]
          /\ seg'[b].act = "READ" /\ seg'[b].arg = addr /\ seg'[b].data = d
          /\ \A i \in DOMAIN d :
               /\ i \in Nat
               /\ d[i] = IF area = "FLASH" THEN flash[(addr + i - 1) % FlashSize]
                                           ELSE eeprom[(addr + i - 1) % EepromSize]
    BY <1>6, PartSent
  <2>2. ispData = <<>> /\ UNCHANGED <<area, image>>
    BY <1>6 DEF IspReadPart, IspRequest, MustFlush, hostVars
  <2>3. \A i \in Cells(area) : image[area][i] \in {NoPromise, Memory[area][i]}
    BY <1>1, <2>2, KeptAtRest, EmptyBuffer DEF BufferInv, Found, Promised
  <2>4. ASSUME NEW i \in DOMAIN d, addr + i - 1 \in Cells(area)
        PROVE  image[area][addr + i - 1] \in {NoPromise, d[i]}
    <3>1. PICK x : x = addr + i - 1
      OBVIOUS
    <3>2. x \in Cells(area) /\ image[area][x] \in {NoPromise, Memory[area][x]}
      BY <2>3, <2>4, <3>1
    <3>3. CASE area = "FLASH"
      <4>1. x % FlashSize = x
        BY <3>2, <3>3, PageFacts DEF Cells, Sizes
      <4>2. d[i] = flash[x]
        BY <2>1, <3>1, <3>3, <4>1
      <4> QED BY <3>1, <3>2, <3>3, <4>2 DEF Memory
    <3>4. CASE area = "EEPROM"
      <4>1. x % EepromSize = x
        BY <3>2, <3>4, PageFacts DEF Cells, Sizes
      <4>2. d[i] = eeprom[x]
        BY <2>1, <3>1, <3>4, <4>1
      <4> QED BY <3>1, <3>2, <3>4, <4>2 DEF Memory
    <3> QED BY <1>1, <3>3, <3>4 DEF Areas
  <2> SUFFICES ASSUME NEW m \in Flight', Bytes(m, seg')
               PROVE  m.sig = "ISP_OUT" /\ seg'[m.key].act = "READ" /\ AsPromised(seg[m.key])'
    BY DEF PartInv
  <2>5. CASE m = p
    <3>1. PICK c : c = seg'[b]
      OBVIOUS
    <3>2. c.arg = addr /\ c.data = d
      BY <2>1, <3>1
    <3>3. \A i \in DOMAIN c.data :
            c.arg + i - 1 \in Cells(area) => image[area][c.arg + i - 1] \in {NoPromise, c.data[i]}
      BY <2>4, <3>2
    <3>4. seg'[m.key] = c
      BY <2>1, <2>5, <3>1
    <3> QED BY <2>1, <2>2, <2>5, <3>1, <3>3, <3>4 DEF AsPromised, Cells, Sizes
  <2>6. CASE m \in In(mq)
    <3>1. m \in Flight /\ seg'[m.key] = seg[m.key]
      BY <1>2, <2>1, <2>6
    <3>2. m.sig = "ISP_OUT" /\ seg[m.key].act = "READ" /\ AsPromised(seg[m.key])
      BY <3>1 DEF PartInv, Bytes
    <3> QED BY <2>2, <3>1, <3>2 DEF AsPromised, Cells, Sizes
  <2>7. m # cur
    BY <1>1 DEF Bytes, Outs
  <2> QED BY <2>1, <2>5, <2>6, <2>7
<1> QED BY <1>4, <1>5, <1>6

\* A host that asks has nothing on its way.
LEMMA HostPart ==
  ASSUME OwnInv, BufferInv, HostInv, FlowInv, AnswerInv, Window = 1, NEW r \in Requests, HostRequests(r)
  PROVE  PartInv'
<1>1. CanIrqReceive(r) /\ cur' = cur /\ waiting = <<>>
  BY SilentHost DEF HostRequests, CanIrqReceive
<1>2. \A m \in Flight : ~Token(m, seg) /\ ~Part(m, seg)
  BY <1>1 DEF FlowInv, AnswerInv, Carries
<1>3. \A m \in Flight : m.sig \notin Outs
  BY <1>2 DEF Token, Part, Outs
<1>4. CASE UNCHANGED <<mq, locked, seg>>
  <2>1. Flight' = Flight
    BY <1>1, <1>4 DEF Flight
  <2> QED BY <1>3, <2>1 DEF PartInv, Bytes
<1>5. ASSUME NEW k, mq' = Push(mq, Message("PHY_IN", k, CanPhy, "UP"))
      PROVE  PartInv'
  <2>1. PICK p : p = Message("PHY_IN", k, CanPhy, "UP")
    OBVIOUS
  <2>2. p.sig \notin Outs
    BY <2>1 DEF Message, Outs
  <2>3. Flight' \subseteq Flight \union {p}
    <3>1. mq \in Seq(Msg)
      BY DEF OwnInv, Owns
    <3>2. In(Push(mq, p)) \subseteq In(mq) \union {p}
      BY <3>1, PushIn
    <3> QED BY <1>1, <1>5, <2>1, <3>2 DEF Flight
  <2> QED BY <1>3, <2>2, <2>3 DEF PartInv, Bytes
<1> QED BY <1>1, <1>4, <1>5 DEF CanIrqReceive

LEMMA InitPart == Init => PartInv
<1> SUFFICES ASSUME Init PROVE PartInv
  OBVIOUS
<1>1. Flight = {}
  BY DEF Init, Flight, In
<1> QED BY <1>1 DEF PartInv

LEMMA NextPart ==
  ASSUME Window = 1, OwnInv, BufferInv, JobInv, HostInv, FlowInv, AnswerInv, MemoryInv, PartInv,
         [Next]_vars
  PROVE  PartInv'
<1>1. CASE \E b \in Keys : IspWith(b, IF ispBuffer = None THEN locked \union {b} ELSE locked)
  BY <1>1, IspWithPart
<1>2. CASE \/ Pop \/ ReceiveCanPhy \/ ReceiveId \/ UNCHANGED vars \/ Interrupt
           \/ IspDelay \/ IspNoBuffer \/ IspCloseFlush \/ IspCloseWait \/ IspClosed \/ IspOther
  <2>1. UNCHANGED <<area, image>>
    BY <1>2 DEF Pop, ReceiveCanPhy, CanPhyOut, CanPhyEnableFilter, CanPhyApplStart, CanPhyOther, ReceiveId, IdClosed,
         IdApplStart, IdOwn, IdEmpty, IdDelay, IdSelectOpen, IdSelectClose, IdForward, IdTrash,
         IdFilterEnabled, IdOther, vars, IspDelay, IspNoBuffer, IspCloseFlush,
         IspCloseWait, IspClosed, IspOther, ispVars, hostVars,
         Interrupt, SpmInterrupt, SpmInterruptExit, EeInterrupt, EeInterruptExit, WriteComplete, EraseComplete
  <2>2. Inherited
    <3>1. CASE UNCHANGED vars \/ Interrupt
      <4>1. UNCHANGED <<mq, cur, seg>>
        BY <3>1 DEF vars, Interrupt, SpmInterrupt, SpmInterruptExit, EeInterrupt, EeInterruptExit, WriteComplete,
                    EraseComplete, ipcVars
      <4>2. Flight' \subseteq Flight
        BY <4>1 DEF Flight
      <4> QED BY <4>1, <4>2, StaysInherits
    <3> QED BY <1>2, <3>1, PopInherits, OthersInherit, IspRestInherits
  <2> QED BY <2>1, <2>2, PartStep
<1>3. ASSUME NEW r \in Requests, HostRequests(r) PROVE PartInv'
  BY <1>3, HostPart
<1>4. CASE HostGivesUp
  <2>1. mq' = <<>> /\ cur' = NoMsg
    BY <1>4 DEF HostGivesUp, Idle, ipcVars
  <2>2. Flight' = {}
    BY <2>1 DEF Flight, In
  <2> QED BY <2>2 DEF PartInv
<1> QED BY <1>1, <1>2, <1>3, <1>4 DEF Next, Receive, ReceiveIsp

\* A host that programs flash from low to high addresses, one request under way at a time, finds
\* every acknowledged byte in the memories once no job runs and the buffer is empty, for any size
\* of page, segment and memory, whatever jobs and pages the bytes came through (flash.cpp:
\* irq_handler_load() to irq_handler_exit(); eeprom.cpp; S_Isp.cpp: _write_buffer(),
\* write_complete()).
THEOREM MemoriesHoldWhatWasWritten == ASSUME Window = 1 PROVE Spec => []WrittenAsOrdered
<1> DEFINE IInv == OwnInv /\ BufferInv /\ JobInv /\ HostInv /\ FlowInv /\ MemoryInv /\ CareInv
<1>1. Init => IInv
  BY InitOwns, InitBuffer, InitJobs, InitFlow, InitMemory, InitCare
<1>2. IInv /\ [Next]_vars => IInv'
  BY NextOwns, NextBuffer, NextJobs, NextHost, NextFlow, NextMemory, NextCare
<1>3. IInv => WrittenAsOrdered
  <2> SUFFICES ASSUME IInv, ~inProgress, ispData = <<>>, NEW a \in Areas, NEW i \in DOMAIN image[a]
               PROVE  image[a][i] \in {NoPromise, Memory[a][i]}
    BY DEF WrittenAsOrdered
  <2>1. i \in Cells(a)
    BY DEF MemoryInv, StoreTypes
  <2> QED BY <2>1, KeptAtRest, EmptyBuffer DEF BufferInv, Found, Promised
<1> HIDE DEF IInv
<1> QED BY <1>1, <1>2, <1>3, PTL DEF Spec

\* What such a host reads back is what it has written and had acknowledged, wherever the bytes
\* were when the read arrived: in the memory, on their way to it or still in the buffer, which
\* is written out first (S_Isp.cpp, _init_isp(), _read()).  The bytes in an answer stay true
\* until it is out, because nothing is served between the request and the end of its answer.
THEOREM HostReadsWhatItWrote == ASSUME Window = 1, Segments >= 4 PROVE Spec => []ReadAsWritten
<1> DEFINE IInv == /\ OwnInv /\ BufferInv /\ JobInv /\ HostInv /\ FlowInv /\ AnswerInv
                   /\ MemoryInv /\ CareInv /\ PartInv
<1>1. Init => IInv
  BY InitOwns, InitBuffer, InitJobs, InitFlow, InitAnswer, InitMemory, InitCare, InitPart
<1>2. IInv /\ [Next]_vars => IInv'
  BY NextOwns, NextBuffer, NextJobs, NextHost, NextFlow, NextAnswer, NextMemory, NextCare, NextPart
<1>3. IInv => ReadAsWritten
  <2> SUFFICES ASSUME IInv, Answering, seg[cur.key].data # <<>> PROVE AsPromised(seg[cur.key])
    <3>1. IInv => DOMAIN image[area] = Cells(area)
      BY DEF MemoryInv, StoreTypes
    <3> QED BY <3>1 DEF ReadAsWritten, AsPromised
  <2>1. cur \in Flight /\ cur.sig \in Outs
    BY HandApart DEF Answering, Outs
  <2> QED BY <2>1 DEF PartInv, Bytes
<1> HIDE DEF IInv
<1> QED BY <1>1, <1>2, <1>3, PTL DEF Spec
=============================================================================
