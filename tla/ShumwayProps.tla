---------------------------- MODULE ShumwayProps ----------------------------
(***************************************************************************)
(* What the Shumway node promises: to itself about its shared memory, and  *)
(* to the host about answers and about the memory it programs.             *)
(***************************************************************************)
EXTENDS Shumway

Dirs == {"UP", "DOWN", "UNKNOWN"}
KeysIn(q) == {q[i].key : i \in DOMAIN q}

(* Types of the kernel's queue, the shared memory and the programmer: every message carries
   a segment, and the programmer's buffer holds bytes only when there is one. *)
ShumwayTypeOK ==
  /\ \A i \in DOMAIN mq : mq[i].key \in Keys /\ mq[i].from \in Servers /\ mq[i].dir \in Dirs
  /\ cur = NoMsg \/ cur.key \in Keys
  /\ locked \subseteq Keys
  /\ ispBuffer \in Keys \union {None}
  /\ ispBuffer = None => ispData = <<>>
  /\ Len(ispData) <= BufferSize

(* Segments are neither leaked nor shared: a segment is locked exactly if one message under
   way or the programmer's buffer refers to it, and never two of them.  (Every path of the
   handlers that ends a message has to free, and none may free what it has passed on.)  It is
   claimed for a host that waits for its answers: ServedInSilence says why. *)
SegmentsOwned ==
  LET held == IF ispBuffer = None THEN {} ELSE {ispBuffer}
      inHand == IF cur = NoMsg THEN {} ELSE {cur.key}
  IN  /\ locked = KeysIn(mq) \union inHand \union held
      /\ \A i, j \in DOMAIN mq : mq[i].key = mq[j].key => i = j
      /\ inHand \cap KeysIn(mq) = {} /\ held \cap (KeysIn(mq) \union inHand) = {}

(* the signals of a message that carries a request through the servers *)
Asking == {"PHY_IN", "ID_IN", "ENABLE_ID_FILTER", "ID_FILTER_ENABLED", "COMM_CLOSE", "COMM_CLOSED"}

(* A host that waits for its answers is silent while a server works on a request: no message
   that asks is left behind by an answer.  So no frame comes into get(), between the two tests
   of COMM_CLOSE (S_Isp.cpp:290) or behind a free, where it would take a segment that main has
   found or is about to free. *)
ServedInSilence == Window = 1 /\ cur.sig \in Asking => Len(waiting) >= Window

Answering == ~started /\ cur # NoMsg /\ Target(cur) = CanPhy /\ cur.sig \in {"ID_OUT", "ISP_OUT"}
Refusable(r) == r.act = "MEM_SELECT" /\ r.arg \notin {1, 2}

(* What goes out on the bus answers the request the host waits for, carries its action, and is
   an error only for a memory that does not exist: nothing delayed, put back or buffered
   answers twice, in place of another, or with a failure. *)
AnswersFit ==
  Answering => /\ waiting # <<>>
               /\ seg[cur.key].act = Head(waiting).req.act
               /\ seg[cur.key].reply = "ERROR" => Refusable(Head(waiting).req)

(* The bytes of a read are the ones written and acknowledged before, also when they were still
   in the buffer or under way to the memory when the read arrived. *)
ReadAsWritten ==
  Answering /\ seg[cur.key].data # <<>> =>
    LET c == seg[cur.key]
    IN  \A i \in DOMAIN c.data :
          c.arg + i - 1 \in DOMAIN image[area] =>
            image[area][c.arg + i - 1] \in {NoPromise, c.data[i]}

Memory == [FLASH |-> flash, EEPROM |-> eeprom]
(* With no job under way and an empty buffer the memories hold every byte that was
   acknowledged, whatever job boundaries and pages it came through. *)
WrittenAsOrdered ==
  ~inProgress /\ ispData = <<>> =>
    \A a \in Areas : \A i \in DOMAIN image[a] : image[a][i] \in {NoPromise, Memory[a][i]}

(* The application is entered only when all acknowledged bytes are in memory, no job runs and
   its section is open for reading. *)
AppStartsIdle == started => ~FlashBusy /\ ~EepromBusy /\ readable /\ ispData = <<>>

Expects(w) ==
  CASE w.req.act = "SELECT_OPEN" -> ~w.wasOpen
    [] w.req.act \in {"MEM_SELECT", "ADDR", "READ"} -> w.wasOpen /\ w.req.arg # NoArg
    [] w.req.act \in {"SELECT_CLOSE", "WRITE", "FULL_ERASE"} -> w.wasOpen
    [] OTHER -> FALSE

(* Every request that has an answer gets it, although busy servers put it back again and again
   and the end of a session waits for a job. *)
EventuallyAnswered ==
  (waiting # <<>> /\ Expects(Head(waiting))) ~> (waiting = <<>>)

(* The node comes to rest: no message goes round for ever, although delayed requests are put
   back until an acknowledgement or a job is through, and segments run out meanwhile. *)
NodeSettles == []<>(Idle \/ started)

=============================================================================
