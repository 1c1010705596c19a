------------------------------- MODULE Canary -------------------------------
(***************************************************************************)
(* The CAN driver Canary / CanNoInt of                                     *)
(* src/include/avr-halib/drivers/avr/not_ported/canary/ (can_base.h,       *)
(* can_handlers.h, can_interrupts.h, can_interruptBinder.h) over the       *)
(* message objects (MObs) of the AT90CAN controller.                       *)
(*                                                                         *)
(* Actors: main, which calls send(), recv(), setAutoReply(),               *)
(* stopAutoReply() and restart() with interrupts on, one step per access   *)
(* to what checkEvents() also touches; checkEvents(), run by the CAN       *)
(* interrupt (Canary) or called by main (CanNoInt), one step per MOb and   *)
(* per callback; and the controller with its bus.                          *)
(***************************************************************************)
EXTENDS Naturals, FiniteSets, FiniteSetsExt, Sequences

CONSTANTS NumMobs,        \* NUMMOBS
          MaxMsgs,        \* config::maxConcurrentMsgs
          SendMsgs, RecvMsgs, ReplyMsgs,  \* the application's messages, by the call it makes
          CyclicMsgs,     \* the RecvMsgs that are cyclic, or may be switched to it
          InvalidMsgs,    \* messages that may be given an id or length out of range
          UseInterrupts,  \* config::useInterrupts: Canary, else CanNoInt
          UseError,       \* config::useError
          CallbackOps,    \* the calls callbacks may make
          RearmRace,      \* selectMob() may read a MOb whose handler is about to start it again
          Errors,         \* the error flags the bus may raise
          MaxFrames,      \* bound: frames the bus completes per message
          MaxRestarts,    \* bound: calls of restart()
          NoMsg           \* a null pointer

Message == SendMsgs \cup RecvMsgs \cup ReplyMsgs
Mob     == 0 .. NumMobs - 1

\* canstmob, in the order getEvent() tests it.
ErrorOrder == <<"ackError", "formError", "crcError", "stuffError", "bitError">>
FlagOrder  == ErrorOrder \o <<"receiveOk", "transmitOk">>
ErrorFlag  == Range(ErrorOrder)
Flag       == Range(FlagOrder)

ASSUME CanaryAssumption ==
  /\ NumMobs \in Nat /\ MaxMsgs \in Nat /\ 0 < MaxMsgs /\ MaxMsgs < NumMobs
  /\ CyclicMsgs \subseteq RecvMsgs /\ InvalidMsgs \subseteq Message
  /\ SendMsgs \cap (RecvMsgs \cup ReplyMsgs) = {} /\ RecvMsgs \cap ReplyMsgs = {}
  /\ {UseInterrupts, UseError, RearmRace} \subseteq BOOLEAN
  /\ CallbackOps \subseteq {"send", "recv", "reply", "stopCyclic", "startCyclic"}
  /\ Errors \subseteq ErrorFlag
  /\ MaxFrames \in Nat /\ MaxRestarts \in Nat /\ NoMsg \notin Message

VARIABLES
  mob,        \* the MObs: config (with replyValid), ENMOB, status flags, loaded message
  curMObNum,  \* the page register: the MOb that mobConfig, mobStatus.. stand for
  intUsage,   \* MObsIntUsage (CANIE): the MObs that may interrupt
  gie,        \* generalInterruptEnable (CANGIE)
  msgPointers,\* the slots 0 .. MaxMsgs - 1, and the memory behind the array at MaxMsgs
  autoReply,  \* the messages whose autoReply is set
  cyclic,     \* the messages whose cyclic is set
  main,       \* the call main is in
  check,      \* the checkEvents() in progress
  restarts,   \* the calls of restart()
  open,       \* history: messages accepted with SUCCESS and not reported finished
  done,       \* history: frames the bus completed for a message
  told        \* history: RECEIVEOK and TRANSMITOK events stored in a message

hwVars   == <<mob, curMObNum, intUsage, gie>>
msgVars  == <<msgPointers, autoReply, cyclic>>
bookVars == <<open, done, told>>
vars     == <<hwVars, msgVars, main, check, restarts, bookVars>>

FreshMob == [config |-> "disabled", en |-> FALSE, flags |-> {}, msg |-> NoMsg]
Idle     == [pc |-> "idle", op |-> "none", msg |-> NoMsg, mob |-> 0, usage |-> {}]
Resting  == [pc |-> "idle", todo |-> {}, saved |-> 0, msg |-> NoMsg]

\* The events the constructor enables; enableInterrupts() adds "all".
Enabled == {"receive", "transmit"} \cup (IF UseError THEN {"error"} ELSE {})
                                   \cup (IF UseInterrupts THEN {"all"} ELSE {})

\* MObsIntUsage = 0xEF, one bit per MOb.
FirstUsage == {i \in 0 .. 7 \ {4} : i \in Mob}

Class(f) == IF f = "receiveOk" THEN "receive"
            ELSE IF f = "transmitOk" THEN "transmit" ELSE "error"

\* MObsIntActive: the MObs with an active interrupt.
MObsIntActive == {i \in intUsage : \E f \in mob[i].flags : Class(f) \in gie}

Interrupt == UseInterrupts /\ "all" \in gie /\ MObsIntActive # {}

-----------------------------------------------------------------------------
(* Helpers of the driver. *)

\* getEvent(): the first status flag set.
GetEvent(flags) ==
  IF flags = {} THEN "nothing"
  ELSE FlagOrder[Min({k \in DOMAIN FlagOrder : FlagOrder[k] \in flags})]

\* Mutant of Available: a MOb without an event is taken for a free one.
AvailableQuiet(i) == mob[i].flags = {}

\* selectMob(): MObsAvailability shows a MOb that is not enabled as free.
Available(i) == ~mob[i].en

\* What all of selectMob() finds with interrupts off: the first free MOb.
Selectable == {i \in Mob : Available(i)}

\* The interrupt of a MOb that the handler will start again is still pending.
Rearms(i) == Interrupt /\ mob[i].flags # {} /\ msgPointers[i] \in cyclic \cup autoReply

\* The test behind selectMob(): send() refuses the slot maxConcurrentMsgs,
\* recv() and setAutoReply() only those above it.
Accepts(op, i) == IF op = "send" THEN i < MaxMsgs ELSE i <= MaxMsgs

Config(op) == CASE op = "send" -> "tx" [] op = "recv" -> "rx" [] op = "reply" -> "reply"

\* startSend(), startRecv() and startAutoReply(), for the current MOb.
Started(m, c) == [m EXCEPT !.config = c, !.en = TRUE]

\* freeMob(): what the MOb is doing is completed before it goes off.
Freed(m) == [m EXCEPT !.config = "disabled"]

\* The flags raised when the bus is through with a message.
OkFlag(m) == IF m \in RecvMsgs THEN "receiveOk" ELSE "transmitOk"

-----------------------------------------------------------------------------
Init ==
  /\ mob         = [i \in Mob |-> FreshMob]
  /\ curMObNum   = NumMobs - 1
  /\ intUsage    = FirstUsage
  /\ gie         = Enabled
  /\ msgPointers = [i \in 0 .. MaxMsgs |-> NoMsg]
  /\ autoReply   = {}
  /\ cyclic      = CyclicMsgs
  /\ main        = Idle
  /\ check       = Resting
  /\ restarts    = 0
  /\ open        = {}
  /\ done        = [m \in Message |-> 0]
  /\ told        = [m \in Message |-> 0]

MainRuns(pc) == check.pc = "idle" /\ main.pc = pc

\* Main's accesses, but for selectMob()'s, read and write nothing that an event changes:
\* the pending interrupt may as well be taken first.
MainAt(pc) == MainRuns(pc) /\ ~Interrupt

MayUse(m) == m \notin open /\ done[m] < MaxFrames

Op(m) == IF m \in SendMsgs THEN "send" ELSE IF m \in RecvMsgs THEN "recv" ELSE "reply"

\* setWrite() and setRead() clear autoReply, setRTRValid() sets it.
AutoReplies(m) == IF Op(m) = "reply" THEN autoReply \cup {m} ELSE autoReply \ {m}

\* A call of send(), recv() or setAutoReply() begins.
Call(m) ==
  /\ MainAt("idle") /\ MayUse(m)
  /\ main' = [Idle EXCEPT !.pc = "search", !.op = Op(m), !.msg = m]
  /\ UNCHANGED <<hwVars, msgVars, check, restarts, bookVars>>

\* selectMob(), one read of MObsAvailability.  The instruction that reads may be the one
\* that the processor still executes between an event and its interrupt.
Probe ==
  /\ MainRuns("search") /\ (Rearms(main.mob) => RearmRace)
  /\ \/ Available(main.mob) /\ main' = [main EXCEPT !.pc = "page"]
     \/ /\ ~Available(main.mob) /\ main.mob + 1 \in Mob
        /\ main' = [main EXCEPT !.mob = @ + 1]
     \/ /\ ~Available(main.mob) /\ main.mob + 1 \notin Mob
        /\ main' = Idle
  /\ UNCHANGED <<hwVars, msgVars, check, restarts, bookVars>>

\* Its page write, and the caller's test of the slot.
TakePage ==
  /\ MainAt("page")
  /\ curMObNum' = main.mob
  /\ main' = IF Accepts(main.op, main.mob) THEN [main EXCEPT !.pc = "pointer"] ELSE Idle
  /\ UNCHANGED <<mob, intUsage, gie, msgVars, check, restarts, bookVars>>

\* Mutants of StorePointer and StoreUsage: the slot of the MOb below is taken;
\* the register is written back as it was read.
StorePointerBelow ==
  /\ MainAt("pointer")
  /\ msgPointers' = [msgPointers EXCEPT ![IF main.mob = 0 THEN 0 ELSE main.mob - 1] = main.msg]
  /\ main' = [main EXCEPT !.pc = "load"]
  /\ UNCHANGED <<hwVars, autoReply, cyclic, check, restarts, bookVars>>
StoreUsageStale ==
  /\ MainAt("store")
  /\ intUsage' = main.usage
  /\ main' = [main EXCEPT !.pc = "fill"]
  /\ UNCHANGED <<mob, curMObNum, gie, msgVars, check, restarts, bookVars>>

\* msgPointers[mob] = &msg.
StorePointer ==
  /\ MainAt("pointer")
  /\ msgPointers' = [msgPointers EXCEPT ![main.mob] = main.msg]
  /\ main' = [main EXCEPT !.pc = "load"]
  /\ UNCHANGED <<hwVars, autoReply, cyclic, check, restarts, bookVars>>

\* setInterrupt(mob): read MObsIntUsage, then write it back with the MOb.
LoadUsage ==
  /\ MainAt("load")
  /\ main' = [main EXCEPT !.pc = "store", !.usage = intUsage]
  /\ UNCHANGED <<hwVars, msgVars, check, restarts, bookVars>>
StoreUsage ==
  /\ MainAt("store")
  /\ intUsage' = main.usage \cup {main.mob}
  /\ main' = [main EXCEPT !.pc = "fill"]
  /\ UNCHANGED <<mob, curMObNum, gie, msgVars, check, restarts, bookVars>>

\* setWrite(), setRead() and setRTRValid() up to the start: id, mask and data
\* go to the current MOb.
Fill ==
  /\ MainAt("fill")
  /\ main' = [main EXCEPT !.pc = "start"]
  /\ autoReply' = AutoReplies(main.msg)
  /\ mob' = [mob EXCEPT ![curMObNum].msg = main.msg]
  /\ UNCHANGED <<curMObNum, intUsage, gie, msgPointers, cyclic, check, restarts, bookVars>>

\* The same with an id or a length out of range: the call ends.
\* setRTRValid() tests before it sets autoReply.
Refuse ==
  /\ MainAt("fill") /\ main.msg \in InvalidMsgs
  /\ main' = [main EXCEPT !.pc = "unload"]
  /\ autoReply' = IF main.op = "reply" THEN autoReply ELSE autoReply \ {main.msg}
  /\ UNCHANGED <<hwVars, msgPointers, cyclic, check, restarts, bookVars>>

\* The MOb is started and the call returns SUCCESS.
Start ==
  /\ MainAt("start")
  /\ mob'  = [mob EXCEPT ![curMObNum] = Started(@, Config(main.op))]
  /\ open' = open \cup {main.msg}
  /\ main' = Idle
  /\ UNCHANGED <<curMObNum, intUsage, gie, msgVars, check, restarts, done, told>>

\* removeInterrupt(mob) after a refused message, in its two halves.
UnloadUsage ==
  /\ MainAt("unload")
  /\ main' = [main EXCEPT !.pc = "unstore", !.usage = intUsage]
  /\ UNCHANGED <<hwVars, msgVars, check, restarts, bookVars>>
UnstoreUsage ==
  /\ MainAt("unstore")
  /\ intUsage' = main.usage \ {main.mob}
  /\ main' = Idle
  /\ UNCHANGED <<mob, curMObNum, gie, msgVars, check, restarts, bookVars>>

StopAutoReply(m) ==
  /\ MainAt("idle") /\ m \in autoReply
  /\ autoReply' = autoReply \ {m}
  /\ UNCHANGED <<hwVars, msgPointers, cyclic, main, check, restarts, bookVars>>

\* restart(): the controller is reset, every MOb freed and every interrupt
\* disabled.  The application starts over with its messages, and so do the
\* histories.
Restart ==
  /\ MainAt("idle") /\ restarts < MaxRestarts
  /\ mob' = [i \in Mob |-> FreshMob]
  /\ curMObNum' = NumMobs - 1
  /\ intUsage' = {} /\ gie' = {}
  /\ restarts' = restarts + 1
  /\ open' = {}
  /\ done' = [m \in Message |-> 0] /\ told' = [m \in Message |-> 0]
  /\ UNCHANGED <<msgVars, main, check>>

MainStep == Probe \/ TakePage \/ StorePointer \/ LoadUsage \/ StoreUsage
            \/ Fill \/ Refuse \/ Start \/ UnloadUsage \/ UnstoreUsage
MainNext == MainStep \/ Restart \/ \E m \in Message : Call(m) \/ StopAutoReply(m)

-----------------------------------------------------------------------------
(* checkEvents(): called by the interrupt, which main waits for, or by main. *)

\* The general interrupt flag is up: the page and the active MObs are saved.
CheckBegin ==
  /\ check.pc = "idle" /\ MObsIntActive # {}
  /\ IF UseInterrupts THEN Interrupt ELSE main.pc = "idle"
  /\ check' = [Resting EXCEPT !.pc = "scan", !.todo = MObsIntActive, !.saved = curMObNum]
  /\ UNCHANGED <<hwVars, msgVars, main, restarts, bookVars>>

\* The next MOb of the snapshot: its page, its flag cleared by getEvent().
At(event, i) ==
  /\ check.pc = "scan" /\ check.todo # {} /\ i = Min(check.todo)
  /\ event = GetEvent(mob[i].flags)
  /\ curMObNum' = i
\* Mutant of Taken: the flag is left standing.
TakenNot(i) == mob[i]
Taken(i) == [mob[i] EXCEPT !.flags = @ \ {GetEvent(@)}]
Scan(pc, i) == check' = [check EXCEPT !.pc = pc, !.todo = @ \ {i}, !.msg = msgPointers[i]]

\* A MOb that is finished with: freed, its interrupt removed.
Release(i) ==
  /\ mob'      = [mob EXCEPT ![i] = Freed(Taken(i))]
  /\ intUsage' = intUsage \ {i}
  /\ open'     = open \ {msgPointers[i]}

HandleReceive(i) ==
  /\ At("receiveOk", i)
  /\ told' = [told EXCEPT ![msgPointers[i]] = @ + 1]
  /\ IF msgPointers[i] \in cyclic
     THEN mob' = [mob EXCEPT ![i] = Taken(i)] /\ UNCHANGED <<intUsage, open>>
     ELSE Release(i)
  /\ Scan("received", i)
  /\ UNCHANGED <<gie, msgVars, main, restarts, done>>

HandleTransmit(i) ==
  /\ At("transmitOk", i)
  /\ told' = [told EXCEPT ![msgPointers[i]] = @ + 1]
  /\ IF msgPointers[i] \in autoReply
     THEN /\ mob' = [mob EXCEPT ![i] = Started(Taken(i), "reply")]
          /\ Scan("scan", i)
          /\ UNCHANGED <<intUsage, open>>
     ELSE Release(i) /\ Scan("callback", i)
  /\ UNCHANGED <<gie, msgVars, main, restarts, done>>

\* Every other event.  Without useError handleError() is empty.
HandleError(i) ==
  /\ \E e \in ErrorFlag \cup {"nothing"} : At(e, i)
  /\ IF UseError
     THEN Release(i) /\ Scan("callback", i)
     ELSE /\ mob' = [mob EXCEPT ![i] = Taken(i)]
          /\ Scan("scan", i)
          /\ UNCHANGED <<intUsage, open>>
  /\ UNCHANGED <<gie, msgVars, main, restarts, done, told>>

\* The callback returns without a call to the driver.  After a reception it
\* may also switch the message's cyclic off or on.
InCallback == check.pc \in {"received", "callback"}
Return == check' = [check EXCEPT !.pc = IF @ = "received" THEN "rearm" ELSE "scan"]
CallbackQuiet ==
  /\ InCallback /\ Return
  /\ UNCHANGED <<hwVars, msgVars, main, restarts, bookVars>>
CallbackStopCyclic ==
  /\ "stopCyclic" \in CallbackOps
  /\ check.pc = "received" /\ check.msg \in cyclic /\ Return
  /\ cyclic' = cyclic \ {check.msg}
  /\ open' = open \ {check.msg}
  /\ UNCHANGED <<hwVars, msgPointers, autoReply, main, restarts, done, told>>

CallbackStartCyclic ==
  /\ "startCyclic" \in CallbackOps
  /\ check.pc = "received" /\ check.msg \in CyclicMsgs \ cyclic /\ Return
  /\ cyclic' = cyclic \cup {check.msg}
  /\ open' = open \cup {check.msg}
  /\ UNCHANGED <<hwVars, msgPointers, autoReply, main, restarts, done, told>>

\* The callback calls send(), recv() or setAutoReply() with a valid message,
\* all of it with interrupts off.
CallbackCall(m) ==
  /\ Op(m) \in CallbackOps /\ InCallback /\ Return
  /\ MayUse(m) /\ main.msg # m
  /\ IF Selectable = {}
     THEN UNCHANGED <<curMObNum, msgPointers, intUsage, mob, autoReply, open>>
     ELSE LET i == Min(Selectable)
          IN  /\ curMObNum' = i
              /\ IF Accepts(Op(m), i)
                 THEN /\ msgPointers' = [msgPointers EXCEPT ![i] = m]
                      /\ intUsage' = intUsage \cup {i}
                      /\ mob' = [mob EXCEPT ![i] = Started([@ EXCEPT !.msg = m], Config(Op(m)))]
                      /\ autoReply' = AutoReplies(m)
                      /\ open' = open \cup {m}
                 ELSE UNCHANGED <<msgPointers, intUsage, mob, autoReply, open>>
  /\ UNCHANGED <<gie, cyclic, main, restarts, done, told>>

\* Mutants of Rearm: a cyclic message is not started again; every message is.
RearmNot ==
  /\ check.pc = "rearm"
  /\ check' = [check EXCEPT !.pc = "scan", !.msg = NoMsg]
  /\ UNCHANGED <<hwVars, msgVars, main, restarts, bookVars>>
RearmAlways ==
  /\ check.pc = "rearm"
  /\ mob' = [mob EXCEPT ![curMObNum] = Started(@, "rx")]
  /\ check' = [check EXCEPT !.pc = "scan", !.msg = NoMsg]
  /\ UNCHANGED <<curMObNum, intUsage, gie, msgVars, main, restarts, bookVars>>

\* The end of handleReceive(): startRecv(), on what is now the current MOb.
Rearm ==
  /\ check.pc = "rearm"
  /\ mob' = IF check.msg \in cyclic THEN [mob EXCEPT ![curMObNum] = Started(@, "rx")] ELSE mob
  /\ check' = [check EXCEPT !.pc = "scan", !.msg = NoMsg]
  /\ UNCHANGED <<curMObNum, intUsage, gie, msgVars, main, restarts, bookVars>>

\* Mutant of CheckEnd: the page of the caller is not restored.
CheckEndOnPage ==
  /\ check.pc = "scan" /\ check.todo = {}
  /\ check' = Resting
  /\ UNCHANGED <<hwVars, msgVars, main, restarts, bookVars>>
CheckEnd ==
  /\ check.pc = "scan" /\ check.todo = {}
  /\ curMObNum' = check.saved
  /\ check' = Resting
  /\ UNCHANGED <<mob, intUsage, gie, msgVars, main, restarts, bookVars>>

CheckStep ==
  \/ \E i \in Mob : HandleReceive(i) \/ HandleTransmit(i) \/ HandleError(i)
  \/ CallbackQuiet \/ Rearm \/ CheckEnd
CheckNext == CheckBegin \/ CheckStep \/ CallbackStopCyclic \/ CallbackStartCyclic
             \/ \E m \in Message : CallbackCall(m)

-----------------------------------------------------------------------------
(* The controller and its bus. *)

\* A MOb that was started without ever being loaded has no frame on the bus.
Finish(i) ==
  /\ mob[i].en /\ mob[i].msg # NoMsg /\ done[mob[i].msg] < MaxFrames
  /\ mob'  = [mob EXCEPT ![i].en = FALSE, ![i].flags = @ \cup {OkFlag(mob[i].msg)}]
  /\ done' = [done EXCEPT ![mob[i].msg] = @ + 1]
  /\ UNCHANGED <<curMObNum, intUsage, gie, msgVars, main, check, restarts, open, told>>

\* A frame is sent, received or answered.
BusComplete(i) == mob[i].config # "disabled" /\ Finish(i)

\* An error is flagged; the MOb stays enabled and the controller tries again.
\* Only a transmitter misses an acknowledgement.
BusError(i, e) ==
  /\ mob[i].en /\ mob[i].config # "disabled" /\ e \in Errors \ mob[i].flags
  /\ e = "ackError" => mob[i].config # "rx"
  /\ mob' = [mob EXCEPT ![i].flags = @ \cup {e}]
  /\ UNCHANGED <<curMObNum, intUsage, gie, msgVars, main, check, restarts, bookVars>>

\* A freed MOb goes off, with or without completing its frame.
MobOff(i) ==
  /\ mob[i].en /\ mob[i].config = "disabled"
  /\ \/ Finish(i)
     \/ /\ mob' = [mob EXCEPT ![i].en = FALSE]
        /\ UNCHANGED <<curMObNum, intUsage, gie, msgVars, main, check, restarts, bookVars>>

BusNext == \E i \in Mob : BusComplete(i) \/ MobOff(i) \/ \E e \in ErrorFlag : BusError(i, e)

Next == MainNext \/ CheckNext \/ BusNext
Spec == Init /\ [][Next]_vars

\* The interrupt is taken, or main's loop polls; what has begun runs on.
FairSpec == Spec /\ WF_vars(CheckBegin) /\ WF_vars(CheckStep) /\ WF_vars(MainStep)
=============================================================================
