------------------------------ MODULE Shumway ------------------------------
(***************************************************************************)
(* The Shumway CAN boot loader: a kernel that passes messages between      *)
(* three servers through one bounded queue, the shared memory the messages *)
(* point to, and the memory drivers of ShumwayMemory.                      *)
(*                                                                         *)
(* The main loop is two steps, the kernel taking a message off the queue   *)
(* and a server's receive(); the CAN, SPM_READY and EE_READY interrupts    *)
(* come between any two of them, and a frame also between a free inside    *)
(* receive() and the get() behind it.  push(), pop() and get() are atomic  *)
(* here; SimpleQueue has the steps of push() and pop().                    *)
(*                                                                         *)
(* A host on the bus sends requests, at most Window of them unanswered.    *)
(***************************************************************************)
EXTENDS ShumwayMemory, FiniteSets

CONSTANTS Segments,     \* SHM_NUM: the number of segments of shared memory
          MaxSignals,   \* MAX_SIGNAL_NUM: the places in the kernel's queue
          BufferSize,   \* SHM_SIZE: the bytes of a segment
          HeaderSize,   \* sizeof(i_hdr_action_t), in front of the bytes of a read
          Requests,     \* what the host sends: records [act, arg, data]
          Window,       \* requests the host has under way at a time
          MaxRequests   \* bound: requests in a behaviour

NoArg == -1
None == -1

ASSUME SizeAssumption ==
  /\ Segments \in Nat \ {0} /\ MaxSignals \in Nat /\ Segments <= MaxSignals
  /\ HeaderSize \in Nat /\ BufferSize \in Nat /\ BufferSize > HeaderSize
  /\ Window \in Nat /\ MaxRequests \in Nat
(* an argument is an unsigned number; the bytes of a request come in one frame, into one segment *)
ASSUME RequestAssumption ==
  \A r \in Requests :
    r.arg \in Nat \union {NoArg} /\ (r.act = "WRITE" => r.data \in Seq(Data) /\ Len(r.data) <= BufferSize)

VARIABLES
  mq,          \* Kernel::_mq
  cur,         \* the message the kernel has popped, or NoMsg
  locked,      \* the locked segments
  seg,         \* what each segment holds
  rxOn,        \* is the receive MOb registered (unregister_rx)
  started,     \* appl_start() has been called
  open,        \* S_Id::_open
  ackAction,   \* S_Id::_ack_action
  area,        \* S_Isp::_isp_mem_area
  addr,        \* S_Isp::_isp_addr
  inProgress,  \* S_Isp::_isp_in_progress
  ispBuffer,   \* S_Isp::_isp_buffer: its segment, or None
  ispData,     \* what is in it (_isp_buffer_fill bytes)
  waiting,     \* host: the requests sent and not answered yet
  budget,      \* host: requests it may still send
  image        \* host: what it was promised to find in each memory

idVars   == <<open, ackAction>>
ispVars  == <<area, addr, inProgress, ispBuffer, ispData>>
hostVars == <<waiting, budget, image>>
ipcVars  == <<mq, cur, locked, seg>>
vars == <<memVars, ipcVars, rxOn, started, idVars, ispVars, hostVars>>

Keys == 0..(Segments - 1)

(* the servers in the order of servers.cpp, which is their number *)
CanPhy == 0
Id     == 1
Isp    == 2
Servers == {CanPhy, Id, Isp}

Message(sig, key, from, dir) == [sig |-> sig, key |-> key, from |-> from, dir |-> dir, visits |-> 0]
NoMsg == Message("INVALID", None, None, "UNKNOWN")

Toggled(dir) == CASE dir = "UP" -> "DOWN" [] dir = "DOWN" -> "UP" [] OTHER -> dir
Visited(m) == [m EXCEPT !.visits = @ + 1]
(* set_signal_id, set_sender_id (which resets the visits) and a direction *)
Resent(m, sig, from, dir) == Message(sig, m.key, from, dir)

(* Bounded_Simple_Queue::push(), as one step: a full queue drops the message *)
Push(q, m) == IF Len(q) < MaxSignals THEN Append(q, m) ELSE q

(* the server the kernel gives a message to; back to the sender when there is none *)
Target(m) ==
  LET visits == m.visits + 1
      next == CASE m.dir = "UP"   -> (m.from + visits) % 256
                [] m.dir = "DOWN" -> (m.from - visits) % 256
                [] OTHER -> IF m.visits = m.from THEN m.visits + 1 ELSE m.visits
  IN  IF next \in Servers THEN next ELSE m.from

(* Bounded_Shared_Memory::get() searches from the top; finding and locking are one step *)
IsNextFree(k, lck) == k \in Keys \ lck /\ \A j \in Keys \ lck : j <= k

(* what a segment holds: a request, an acknowledgement, or bytes read from an address on *)
Content(act, arg, reply, data) == [act |-> act, arg |-> arg, reply |-> reply, data |-> data]
Empty == Content("INVALID", NoArg, "NONE", <<>>)

-----------------------------------------------------------------------------
NoPromise == Garbage
Sizes(a) == IF a = "FLASH" THEN FlashSize ELSE EepromSize
Areas == {"FLASH", "EEPROM"}

Init ==
  /\ MemInit
  /\ mq = <<>> /\ cur = NoMsg
  /\ locked = {} /\ seg = [k \in Keys |-> Empty]
  /\ rxOn = TRUE /\ started = FALSE
  /\ open = FALSE /\ ackAction = "INVALID"
  /\ area = "FLASH" /\ addr = 0 /\ inProgress = FALSE
  /\ ispBuffer = None /\ ispData = <<>>
  /\ waiting = <<>> /\ budget = MaxRequests
  /\ image = [a \in Areas |-> [i \in 0..(Sizes(a) - 1) |-> NoPromise]]

(* Kernel::_run: while ( ! _mq.pop(__msg) ) *)
Pop ==
  /\ ~started /\ cur = NoMsg /\ mq # <<>>
  /\ cur' = Head(mq) /\ mq' = Tail(mq)
  /\ UNCHANGED <<memVars, locked, seg, rxOn, started, idVars, ispVars, hostVars>>

(* a server's receive() has the message: cur, with signal s *)
At(server, s) == ~started /\ cur # NoMsg /\ Target(cur) = server /\ cur.sig = s
AtAny(server, ss) == ~started /\ cur # NoMsg /\ Target(cur) = server /\ cur.sig \in ss

(* the handler sends m (or nothing) and lets go of the message it was given *)
Sends(m) == mq' = Push(mq, m) /\ cur' = NoMsg /\ UNCHANGED <<locked, seg>>
\* Mutant of Frees: the message ends and its segment stays locked.
FreesNot == cur' = NoMsg /\ UNCHANGED <<mq, locked, seg>>
Frees == locked' = locked \ {cur.key} /\ cur' = NoMsg /\ UNCHANGED <<mq, seg>>

(* Server::S_acknowledge() with the segments lck locked, then the messages after are sent and
   the segments freed are unlocked.  Without a free segment there is no acknowledgement. *)
Acknowledges(lck, ack, after, freed) ==
  /\ \/ /\ Keys \ lck = {}
        /\ locked' = lck \ freed
        /\ mq' = IF after = <<>> THEN mq ELSE Push(mq, Head(after))
        /\ UNCHANGED seg
     \/ \E k \in Keys \ lck :
          /\ IsNextFree(k, lck)
          /\ locked' = (lck \union {k}) \ freed
          /\ seg' = [seg EXCEPT ![k] = Content(ack.act, NoArg, ack.reply, <<>>)]
          /\ LET q == Push(mq, Message(ack.sig, k, ack.from, "UNKNOWN"))
             IN  mq' = IF after = <<>> THEN q ELSE Push(q, Head(after))
  /\ cur' = NoMsg
IdAck(reply)  == [act |-> ackAction, reply |-> reply, sig |-> "ID_OUT", from |-> Id]
IspAck(reply) == [act |-> seg[cur.key].act, reply |-> reply, sig |-> "ISP_OUT", from |-> Isp]

-----------------------------------------------------------------------------
(* S_Can_Phy *)

(* the CAN interrupt: a frame of the host, dropped when no segment is free *)
CanIrqReceive(r) ==
  /\ rxOn /\ ~started
  /\ \/ Keys \ locked = {} /\ UNCHANGED <<mq, locked, seg>>
     \/ \E k \in Keys \ locked :
          /\ IsNextFree(k, locked)
          /\ locked' = locked \union {k}
          /\ seg' = [seg EXCEPT ![k] = Content(r.act, r.arg, "NONE", r.data)]
          /\ mq' = Push(mq, Message("PHY_IN", k, CanPhy, "UP"))
  /\ UNCHANGED <<memVars, cur, rxOn, started, idVars, ispVars>>

(* an answer goes out on the bus; the bytes of a read are not the last frame of their answer *)
\* Mutant of CanPhyOut: no return behind the free, the message goes on to the next server.
CanPhyOutGoesOn ==
  /\ AtAny(CanPhy, {"ID_OUT", "ISP_OUT"})
  /\ locked' = locked \ {cur.key} /\ mq' = Push(mq, Visited(cur)) /\ cur' = NoMsg
  /\ waiting' = IF waiting # <<>> /\ seg[cur.key].data = <<>> THEN Tail(waiting) ELSE waiting
  /\ UNCHANGED <<seg, memVars, rxOn, started, idVars, ispVars, budget, image>>
CanPhyOut ==
  /\ AtAny(CanPhy, {"ID_OUT", "ISP_OUT"})
  /\ Frees
  /\ waiting' = IF waiting # <<>> /\ seg[cur.key].data = <<>> THEN Tail(waiting) ELSE waiting
  /\ UNCHANGED <<memVars, rxOn, started, idVars, ispVars, budget, image>>

CanPhyEnableFilter ==
  /\ At(CanPhy, "ENABLE_ID_FILTER")
  /\ IF cur.key \in locked
     THEN Sends(Resent(cur, "ID_FILTER_ENABLED", CanPhy, Toggled(cur.dir)))
     ELSE Frees
  /\ UNCHANGED <<memVars, rxOn, started, idVars, ispVars, hostVars>>

CanPhyApplStart ==
  /\ At(CanPhy, "APPL_START")
  /\ Sends(Visited(cur))
  /\ rxOn' = FALSE
  /\ UNCHANGED <<memVars, started, idVars, ispVars, hostVars>>

(* its own messages end here, all others go on *)
CanPhyOther ==
  /\ ~started /\ cur # NoMsg /\ Target(cur) = CanPhy
  /\ cur.sig \notin {"ID_OUT", "ISP_OUT", "ENABLE_ID_FILTER", "APPL_START"}
  /\ IF cur.from = CanPhy THEN Frees ELSE Sends(Visited(cur))
  /\ UNCHANGED <<memVars, rxOn, started, idVars, ispVars, hostVars>>

-----------------------------------------------------------------------------
(* S_Id *)

FromOther == cur.from # Id
\* Mutant of AckDone: _ack_action is not cleared.
AckDoneNot == UNCHANGED ackAction
AckDone == ackAction' = "INVALID"
ToAppl(m) == Resent(m, "APPL_START", Id, "UNKNOWN")

(* the end of a session: the last action is acknowledged and the application is to be started;
   COMM_CLOSE comes back unheard when there is no programmer *)
IdClosed ==
  /\ \/ At(Id, "COMM_CLOSE") /\ ~FromOther
     \/ At(Id, "COMM_CLOSED") /\ FromOther
  /\ Acknowledges(locked, IdAck("OK"), <<ToAppl(cur)>>, {})
  /\ AckDone
  /\ UNCHANGED <<memVars, rxOn, started, open, ispVars, hostVars>>

(* every other server has seen the message: the application is entered and never returns *)
IdApplStart ==
  /\ At(Id, "APPL_START") /\ ~FromOther
  /\ started' = TRUE
  /\ UNCHANGED <<memVars, ipcVars, rxOn, idVars, ispVars, hostVars>>

(* any other message of its own that nobody wanted *)
IdOwn ==
  /\ ~started /\ cur # NoMsg /\ Target(cur) = Id /\ ~FromOther
  /\ cur.sig \notin {"COMM_CLOSE", "APPL_START"}
  /\ IF ackAction # "INVALID"
     THEN Acknowledges(locked, IdAck("ERROR"), <<>>, {cur.key}) /\ AckDone
     ELSE Frees /\ UNCHANGED ackAction
  /\ UNCHANGED <<memVars, rxOn, started, open, ispVars, hostVars>>

(* a frame without payload *)
IdEmpty ==
  /\ At(Id, "PHY_IN") /\ FromOther /\ seg[cur.key].act = "EMPTY"
  /\ Frees
  /\ UNCHANGED <<memVars, rxOn, started, idVars, ispVars, hostVars>>

(* PHY_IN while an action waits for its acknowledgement: to the end of the queue *)
IdDelay ==
  /\ At(Id, "PHY_IN") /\ FromOther /\ ackAction # "INVALID" /\ seg[cur.key].act # "EMPTY"
  /\ Sends(cur)
  /\ UNCHANGED <<memVars, rxOn, started, idVars, ispVars, hostVars>>

IdRequest(act) == At(Id, "PHY_IN") /\ FromOther /\ ackAction = "INVALID" /\ seg[cur.key].act = act

IdSelectOpen ==
  /\ IdRequest("SELECT_OPEN") /\ ~open
  /\ Sends(Resent(cur, "ENABLE_ID_FILTER", Id, Toggled(cur.dir)))
  /\ ackAction' = "SELECT_OPEN"
  /\ UNCHANGED <<memVars, rxOn, started, open, ispVars, hostVars>>

IdSelectClose ==
  /\ IdRequest("SELECT_CLOSE") /\ open
  /\ Sends(Resent(cur, "COMM_CLOSE", Id, "UP"))
  /\ ackAction' = "SELECT_CLOSE"
  /\ UNCHANGED <<memVars, rxOn, started, open, ispVars, hostVars>>

(* everything else is for the programmer, once the session is open *)
IdForward ==
  /\ IdRequest(seg[cur.key].act) /\ open
  /\ seg[cur.key].act \notin {"SELECT_OPEN", "SELECT_CLOSE", "EMPTY"}
  /\ Sends(Resent(cur, "ID_IN", Id, cur.dir))
  /\ UNCHANGED <<memVars, rxOn, started, idVars, ispVars, hostVars>>

(* "all else is trash" *)
IdTrash ==
  /\ IdRequest(seg[cur.key].act) /\ seg[cur.key].act # "EMPTY"
  /\ open <=> seg[cur.key].act = "SELECT_OPEN"
  /\ Frees
  /\ UNCHANGED <<memVars, rxOn, started, idVars, ispVars, hostVars>>

(* two messages: the segment goes on with the first, the second is the acknowledgement *)
IdFilterEnabled ==
  /\ At(Id, "ID_FILTER_ENABLED") /\ FromOther
  /\ open' = TRUE
  /\ LET q == Push(mq, Message("DISABLE_APPL_START", cur.key, Id, "UNKNOWN"))
     IN  \/ Keys \ locked = {} /\ mq' = q /\ UNCHANGED <<locked, seg>>
         \/ \E k \in Keys \ locked :
              /\ IsNextFree(k, locked)
              /\ locked' = locked \union {k}
              /\ seg' = [seg EXCEPT ![k] = Content(ackAction, NoArg, "OK", <<>>)]
              /\ mq' = Push(q, Message("ID_OUT", k, Id, "UNKNOWN"))
  /\ cur' = NoMsg
  /\ AckDone
  /\ UNCHANGED <<memVars, rxOn, started, ispVars, hostVars>>

IdOther ==
  /\ ~started /\ cur # NoMsg /\ Target(cur) = Id /\ FromOther
  /\ cur.sig \notin {"PHY_IN", "COMM_CLOSED", "ID_FILTER_ENABLED"}
  /\ Sends(Visited(cur))
  /\ UNCHANGED <<memVars, rxOn, started, idVars, ispVars, hostVars>>

-----------------------------------------------------------------------------
(* S_Isp *)

Request == seg[cur.key]

(* ID_IN while a job runs: to the end of the queue *)
IspDelay ==
  /\ At(Isp, "ID_IN") /\ inProgress
  /\ Sends(cur)
  /\ UNCHANGED <<memVars, rxOn, started, idVars, ispVars, hostVars>>

(* no segment for the buffer: the request is freed first, so its acknowledgement finds one,
   unless a frame takes it in between (FrameInNoBuffer) *)
IspNoBuffer ==
  /\ At(Isp, "ID_IN") /\ ~inProgress /\ ispBuffer = None /\ Keys \ locked = {}
  /\ Acknowledges(locked \ {cur.key}, IspAck("ERROR"), <<>>, {})
  /\ UNCHANGED <<memVars, rxOn, started, idVars, ispVars, hostVars>>

(* a request of the given kind, with the buffer b and the segments lck locked then: the buffer
   that is there, or one taken now *)
WithBuffer(b, lck) ==
  /\ ~inProgress
  /\ \/ ispBuffer # None /\ b = ispBuffer /\ lck = locked
     \/ ispBuffer = None /\ IsNextFree(b, locked) /\ lck = locked \union {b}
IspRequest(act, b, lck) == At(Isp, "ID_IN") /\ WithBuffer(b, lck) /\ Request.act = act

Overflows == Request.act = "WRITE" /\ Len(ispData) + Len(Request.data) > BufferSize
\* Mutant of MustFlush: only a full buffer is written out.
MustFlushFull == Overflows
MustFlush == (ispData # <<>> /\ Request.act # "WRITE") \/ Overflows

DriverBusy == IF area = "FLASH" THEN FlashBusy ELSE EepromBusy
WriteAsync == IF area = "FLASH" THEN FlashWriteAsync(addr, ispData) ELSE EepromWriteAsync(addr, ispData)
EraseAsync == IF area = "FLASH" THEN FlashEraseAsync ELSE EepromEraseAsync

(* _init_isp() hands the buffer to the driver and the request waits for the end of the job.
   A driver that refuses is an error; a WRITE keeps its segment until that is acknowledged.
   (A driver is never busy while _isp_in_progress is not set: ShumwayProofs, JobInv.) *)
IspFlush(b, lck) ==
  /\ At(Isp, "ID_IN") /\ WithBuffer(b, lck) /\ MustFlush
  /\ ispBuffer' = b
  /\ \/ /\ ~DriverBusy
        /\ WriteAsync /\ inProgress' = TRUE
        /\ locked' = lck /\ mq' = Push(mq, cur) /\ cur' = NoMsg /\ UNCHANGED seg
     \/ /\ DriverBusy
        /\ IF Overflows THEN Acknowledges(lck, IspAck("ERROR"), <<>>, {cur.key})
                        ELSE Acknowledges(lck \ {cur.key}, IspAck("ERROR"), <<>>, {})
        /\ UNCHANGED <<memVars, inProgress>>
  /\ UNCHANGED <<rxOn, started, idVars, area, addr, ispData, hostVars>>

(* a request too short for its argument is freed without an answer *)
IspShort(b, lck) ==
  /\ \E act \in {"MEM_SELECT", "ADDR", "READ"} : IspRequest(act, b, lck)
  /\ ~MustFlush /\ Request.arg = NoArg
  /\ locked' = lck \ {cur.key} /\ cur' = NoMsg /\ UNCHANGED <<mq, seg>>
  /\ ispBuffer' = b
  /\ UNCHANGED <<memVars, rxOn, started, idVars, area, addr, inProgress, ispData, hostVars>>

AreaOf(arg) == CASE arg = 1 -> "FLASH" [] arg = 2 -> "EEPROM" [] OTHER -> area
IspMemSelect(b, lck) ==
  /\ IspRequest("MEM_SELECT", b, lck) /\ ~MustFlush /\ Request.arg # NoArg
  /\ area' = AreaOf(Request.arg)
  /\ Acknowledges(lck, IspAck(IF Request.arg \in {1, 2} THEN "OK" ELSE "ERROR"), <<>>, {cur.key})
  /\ ispBuffer' = b
  /\ UNCHANGED <<memVars, rxOn, started, idVars, addr, inProgress, ispData, hostVars>>

IspAddr(b, lck) ==
  /\ IspRequest("ADDR", b, lck) /\ ~MustFlush /\ Request.arg # NoArg
  /\ addr' = Request.arg
  /\ Acknowledges(lck, IspAck("OK"), <<>>, {cur.key})
  /\ ispBuffer' = b
  /\ UNCHANGED <<memVars, rxOn, started, idVars, area, inProgress, ispData, hostVars>>

(* acknowledged as soon as the erase has begun *)
IspFullErase(b, lck) ==
  /\ IspRequest("FULL_ERASE", b, lck) /\ ~MustFlush
  /\ inProgress' = ~DriverBusy
  /\ IF DriverBusy THEN UNCHANGED <<memVars, image>>
     ELSE EraseAsync /\ image' = [image EXCEPT ![area] = [i \in DOMAIN @ |-> NoPromise]]
  /\ Acknowledges(lck, IspAck(IF DriverBusy THEN "ERROR" ELSE "OK"), <<>>, {cur.key})
  /\ ispBuffer' = b
  /\ UNCHANGED <<rxOn, started, idVars, area, addr, ispData, waiting, budget>>

(* acknowledged as soon as the bytes are in the buffer *)
IspWrite(b, lck) ==
  /\ IspRequest("WRITE", b, lck) /\ ~MustFlush
  /\ ispData' = ispData \o Request.data
  /\ image' = [image EXCEPT ![area] = [i \in DOMAIN @ |->
                  LET n == i - addr - Len(ispData)
                  IN  IF n \in 0..(Len(Request.data) - 1) THEN Request.data[n + 1] ELSE @[i]]]
  /\ Acknowledges(lck, IspAck("OK"), <<>>, {cur.key})
  /\ ispBuffer' = b
  /\ UNCHANGED <<memVars, rxOn, started, idVars, area, addr, inProgress, waiting, budget>>

(* a part of a read: the buffer goes out with the bytes, the request comes round again *)
ChunkSize(diff) ==
  LET most == BufferSize - HeaderSize
      low == diff % 256
  IN  IF low = 0 \/ low > most THEN most ELSE low
IspReadPart(b, lck) ==
  /\ IspRequest("READ", b, lck) /\ ~MustFlush /\ Request.arg # NoArg /\ Request.arg > addr
  /\ LET size == ChunkSize(Request.arg - addr)
         Byte(i) == IF area = "FLASH" THEN flash[(addr + i - 1) % FlashSize]
                                      ELSE eeprom[(addr + i - 1) % EepromSize]
     IN  /\ seg' = [seg EXCEPT ![b] = Content("READ", addr, "NONE", [i \in 1..size |-> Byte(i)])]
         /\ addr' = addr + size
  /\ mq' = Push(Push(mq, Message("ISP_OUT", b, Isp, "DOWN")), cur)
  /\ cur' = NoMsg /\ locked' = lck /\ ispBuffer' = None
  /\ UNCHANGED <<memVars, rxOn, started, idVars, area, inProgress, ispData, hostVars>>

(* the read is complete; the request is freed before its acknowledgement takes a segment, and
   a frame may come in between (FrameInReadDone) *)
IspReadDone(b, lck) ==
  /\ IspRequest("READ", b, lck) /\ ~MustFlush /\ Request.arg # NoArg /\ Request.arg <= addr
  /\ Acknowledges(lck \ {cur.key}, IspAck("OK"), <<>>, {})
  /\ ispBuffer' = b
  /\ UNCHANGED <<memVars, rxOn, started, idVars, area, addr, inProgress, ispData, hostVars>>

IspInvalid(b, lck) ==
  /\ At(Isp, "ID_IN") /\ WithBuffer(b, lck) /\ ~MustFlush
  /\ Request.act \notin {"MEM_SELECT", "FULL_ERASE", "ADDR", "WRITE", "READ"}
  /\ locked' = lck \ {cur.key} /\ cur' = NoMsg /\ UNCHANGED <<mq, seg>>
  /\ ispBuffer' = b
  /\ UNCHANGED <<memVars, rxOn, started, idVars, area, addr, inProgress, ispData, hostVars>>

(* the end of the session: as long as bytes are in the buffer the message comes round again.
   The buffer is tested before _isp_in_progress.  A job that ends between the two tests makes
   _init_isp() start one for no bytes, which its interrupts end before the next message: what
   is left is that of IspCloseWait and the end of the job.  (Not so when a frame comes before
   the empty job ends: its end frees the segment of the buffer once more.) *)
IspCloseFlush ==
  /\ At(Isp, "COMM_CLOSE") /\ ispData # <<>> /\ ~inProgress /\ ~DriverBusy
  /\ WriteAsync /\ inProgress' = TRUE
  /\ Sends(cur)
  /\ UNCHANGED <<rxOn, started, idVars, area, addr, ispBuffer, ispData, hostVars>>
IspCloseWait ==
  /\ At(Isp, "COMM_CLOSE") /\ ispData # <<>> /\ (inProgress \/ DriverBusy)
  /\ Sends(cur)
  /\ UNCHANGED <<memVars, rxOn, started, idVars, ispVars, hostVars>>
\* Mutant of IspClosed: it does not look at the buffer.
IspClosedAtOnce ==
  /\ At(Isp, "COMM_CLOSE")
  /\ Sends(Resent(cur, "COMM_CLOSED", Isp, Toggled(cur.dir)))
  /\ UNCHANGED <<memVars, rxOn, started, idVars, ispVars, hostVars>>
IspClosed ==
  /\ At(Isp, "COMM_CLOSE") /\ ispData = <<>>
  /\ Sends(Resent(cur, "COMM_CLOSED", Isp, Toggled(cur.dir)))
  /\ UNCHANGED <<memVars, rxOn, started, idVars, ispVars, hostVars>>

IspOther ==
  /\ ~started /\ cur # NoMsg /\ Target(cur) = Isp /\ cur.sig \notin {"ID_IN", "COMM_CLOSE"}
  /\ IF cur.from = Isp THEN Frees ELSE Sends(Visited(cur))
  /\ UNCHANGED <<memVars, rxOn, started, idVars, ispVars, hostVars>>

(* write_complete() and erase_complete(), called from the interrupt that ends the job *)
\* Mutants of WriteComplete: the fill is not reset; the job stays marked as running.
WriteCompleteFilled ==
  /\ addr' = addr + Len(ispData) /\ ispBuffer' = None /\ inProgress' = FALSE
  /\ locked' = locked \ {ispBuffer}
  /\ UNCHANGED <<mq, cur, seg, rxOn, started, idVars, area, ispData, hostVars>>
WriteCompleteBusy ==
  /\ addr' = addr + Len(ispData) /\ ispBuffer' = None /\ ispData' = <<>>
  /\ locked' = locked \ {ispBuffer}
  /\ UNCHANGED <<mq, cur, seg, rxOn, started, idVars, area, inProgress, hostVars>>
WriteComplete ==
  /\ addr' = addr + Len(ispData) /\ ispBuffer' = None /\ ispData' = <<>>
  /\ locked' = locked \ {ispBuffer}
  /\ inProgress' = FALSE
  /\ UNCHANGED <<mq, cur, seg, rxOn, started, idVars, area, hostVars>>
EraseComplete ==
  /\ inProgress' = FALSE
  /\ UNCHANGED <<ipcVars, rxOn, started, idVars, area, addr, ispBuffer, ispData, hostVars>>
SpmInterrupt ==
  /\ ~started
  /\ SpmStep
  /\ UNCHANGED <<ipcVars, rxOn, started, idVars, ispVars, hostVars>>
SpmInterruptExit ==
  /\ ~started
  /\ SpmExit
  /\ IF spm.cb = "write" THEN WriteComplete ELSE EraseComplete
EeInterrupt ==
  /\ ~started
  /\ EeStep
  /\ UNCHANGED <<ipcVars, rxOn, started, idVars, ispVars, hostVars>>
EeInterruptExit ==
  /\ ~started
  /\ EeExit
  /\ IF ee.cb = "write" THEN WriteComplete ELSE EraseComplete

-----------------------------------------------------------------------------
(* A frame r between the free of a request and the get() of its acknowledgement: it takes the
   top segment, and the acknowledgement the next one, if there is one.  The action is read
   after the free, perhaps from the frame that came into the segment.  A second frame takes
   longer to come than the handler to finish. *)
FrameAfterFree(r, lck, ack) ==
  \E k \in Keys \ lck :
    /\ IsNextFree(k, lck)
    /\ LET lckNow == lck \union {k}
           segNow == [seg EXCEPT ![k] = Content(r.act, r.arg, "NONE", r.data)]
           q == Push(mq, Message("PHY_IN", k, CanPhy, "UP"))
       IN  \/ Keys \ lckNow = {} /\ locked' = lckNow /\ seg' = segNow /\ mq' = q
           \/ \E n \in Keys \ lckNow, act \in {ack.act, segNow[cur.key].act} :
                /\ IsNextFree(n, lckNow)
                /\ locked' = lckNow \union {n}
                /\ seg' = [segNow EXCEPT ![n] = Content(act, NoArg, ack.reply, <<>>)]
                /\ mq' = Push(q, Message(ack.sig, n, ack.from, "UNKNOWN"))
    /\ cur' = NoMsg
FrameInNoBuffer(r) ==
  /\ At(Isp, "ID_IN") /\ ~inProgress /\ ispBuffer = None /\ Keys \ locked = {}
  /\ FrameAfterFree(r, locked \ {cur.key}, IspAck("ERROR"))
  /\ UNCHANGED ispBuffer
FrameInReadDone(r) ==
  \E b \in Keys :
    LET lck == IF ispBuffer = None THEN locked \union {b} ELSE locked
    IN  /\ IspRequest("READ", b, lck) /\ ~MustFlush /\ Request.arg # NoArg /\ Request.arg <= addr
        /\ FrameAfterFree(r, lck \ {cur.key}, IspAck("OK"))
        /\ ispBuffer' = b
FrameDuringReceive(r) ==
  /\ rxOn
  /\ FrameInNoBuffer(r) \/ FrameInReadDone(r)
  /\ UNCHANGED <<memVars, rxOn, started, idVars, area, addr, inProgress, ispData>>

-----------------------------------------------------------------------------
(* The host.  A careful one programs flash the way a programmer does: erased before, from low
   to high addresses, and it does not close the session while an erase runs, nor at once
   after opening it, while the last message about the opening is still on its way; once it
   has closed it, it is silent.  A host with several requests under way is not careful. *)
Position == addr + Len(ispData)
CarefulWrite(r) ==
  \/ area = "EEPROM"
  \/ /\ \A a \in DOMAIN image["FLASH"] : image["FLASH"][a] # NoPromise => a < Position
     /\ spm.cb = "erase" \/ \A a \in DOMAIN flash : PageOf(a) > PageOf(Position) => flash[a] = Blank
Travelling(sig) == sig \in {cur.sig} \union {mq[i].sig : i \in DOMAIN mq}
Careful(r) ==
  /\ ~Travelling("APPL_START")
  /\ r.act = "WRITE" => Position + Len(r.data) <= Sizes(area) /\ CarefulWrite(r)
  /\ r.act = "SELECT_CLOSE" => "erase" \notin {spm.cb, ee.cb} /\ ~Travelling("DISABLE_APPL_START")

Asked(r) == [req |-> r, wasOpen |-> open]
HostRequests(r) ==
  /\ budget > 0 /\ Len(waiting) < Window /\ (Window = 1 => Careful(r))
  /\ CanIrqReceive(r) \/ FrameDuringReceive(r)
  /\ waiting' = Append(waiting, Asked(r))
  /\ budget' = budget - 1 /\ UNCHANGED image

(* nothing moves in the node any more: the host's timeout *)
Idle == mq = <<>> /\ cur = NoMsg /\ ~inProgress
HostGivesUp ==
  /\ Idle /\ waiting # <<>> /\ ~started
  /\ waiting' = <<>>
  /\ UNCHANGED <<memVars, ipcVars, rxOn, started, idVars, ispVars, budget, image>>

Interrupt == SpmInterrupt \/ SpmInterruptExit \/ EeInterrupt \/ EeInterruptExit
ReceiveCanPhy == CanPhyOut \/ CanPhyEnableFilter \/ CanPhyApplStart \/ CanPhyOther
ReceiveId == \/ IdClosed \/ IdApplStart \/ IdOwn \/ IdEmpty \/ IdDelay \/ IdSelectOpen
             \/ IdSelectClose \/ IdForward \/ IdTrash \/ IdFilterEnabled \/ IdOther
IspWith(b, lck) ==
  \/ IspFlush(b, lck) \/ IspShort(b, lck) \/ IspMemSelect(b, lck)
  \/ IspAddr(b, lck) \/ IspFullErase(b, lck) \/ IspWrite(b, lck) \/ IspReadPart(b, lck)
  \/ IspReadDone(b, lck) \/ IspInvalid(b, lck)
ReceiveIsp ==
  \/ IspDelay \/ IspNoBuffer
  \/ \E b \in Keys : IspWith(b, IF ispBuffer = None THEN locked \union {b} ELSE locked)
  \/ IspCloseFlush \/ IspCloseWait \/ IspClosed \/ IspOther
Receive == ReceiveCanPhy \/ ReceiveId \/ ReceiveIsp

Next == Pop \/ Receive \/ Interrupt \/ (\E r \in Requests : HostRequests(r)) \/ HostGivesUp

(* the main loop never stops, and the interrupts of a job that has begun come *)
Fairness == WF_vars(Pop) /\ WF_vars(Receive) /\ WF_vars(Interrupt)
Spec == Init /\ [][Next]_vars /\ Fairness
=============================================================================
