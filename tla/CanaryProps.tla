---------------------------- MODULE CanaryProps ----------------------------
(***************************************************************************)
(* What Canary promises its application, and what keeps its message        *)
(* objects, its slots and its messages together.                           *)
(***************************************************************************)
EXTENDS Canary

\* Every variable keeps its type, and a handler never works on a null pointer:
\* the MOb whose event checkEvents() takes has a message in its slot
\* (can_handlers.h, msgPointers[i]).
CanTypeOK ==
  /\ mob \in [Mob -> [config : {"disabled", "tx", "rx", "reply"}, en : BOOLEAN,
                      flags : SUBSET Flag, msg : Message \cup {NoMsg}]]
  /\ curMObNum \in Mob /\ intUsage \subseteq Mob /\ gie \subseteq Enabled
  /\ msgPointers \in [0 .. MaxMsgs -> Message \cup {NoMsg}]
  /\ autoReply \subseteq Message /\ cyclic \subseteq CyclicMsgs /\ open \subseteq Message
  /\ main \in [pc : {"idle", "search", "page", "pointer", "load", "store", "fill", "start",
                    "unload", "unstore"},
               op : {"none", "send", "recv", "reply"}, msg : Message \cup {NoMsg},
               mob : Mob, usage : SUBSET Mob]
  /\ check \in [pc : {"idle", "scan", "received", "callback", "rearm"}, todo : SUBSET Mob,
                saved : Mob, msg : Message \cup {NoMsg}]
  /\ check.pc \in {"received", "callback", "rearm"} => check.msg \in Message
  /\ restarts \in 0 .. MaxRestarts
  /\ done \in [Message -> 0 .. MaxFrames] /\ told \in [Message -> Nat]

\* A message is served by a MOb that is loaded with it, whose slot points back
\* to it and that can still raise an interrupt, or has one up.
ServedBy(m, i) ==
  /\ mob[i].msg = m /\ i < MaxMsgs /\ msgPointers[i] = m /\ i \in intUsage
  /\ \/ mob[i].en /\ mob[i].config # "disabled"
     \/ \E f \in mob[i].flags : Class(f) \in gie

\* A message that send(), recv() or setAutoReply() took with SUCCESS is never
\* stranded: until its last event it has a MOb of its own that will come back
\* to it, whatever the interrupt does between the steps of another call and
\* whatever a callback does before a cyclic message is started again.
NoMessageStranded ==
  \A m \in open : (\E i \in Mob : ServedBy(m, i))
                  \/ (check.pc \in {"received", "rearm"} /\ check.msg = m)

\* No event is lost, invented or given to another message: each frame the bus completed
\* has been told to the message it belongs to, or stands in the flags of a MOb
\* whose slot still points to that message.
EveryFrameAccounted ==
  \A m \in Message :
    done[m] = told[m] + Cardinality({i \in Mob : /\ mob[i].msg = m
                                                 /\ OkFlag(m) \in mob[i].flags
                                                 /\ i < MaxMsgs /\ msgPointers[i] = m})

\* Main has a MOb of its own: selectMob() has returned it.
Prepares == main.pc \notin {"idle", "search", "page"}

\* A call of main that selected a MOb finds its page again when the interrupt
\* has returned: id, data and the start go to the MOb whose slot it took
\* (checkEvents saves and restores curMObNum).
MainKeepsPage ==
  Prepares /\ check.pc = "idle" => curMObNum = main.mob

\* Two calls never hold one MOb: the MOb that main prepares serves no message
\* that was already accepted, although selectMob() read MObsAvailability while the
\* event of that MOb may not have been collected yet.
PreparedMobIsFree ==
  Prepares => \A m \in open : ~ServedBy(m, main.mob)

\* With no more messages than maxConcurrentMsgs no call writes behind the array
\* msgPointers, although recv() and setAutoReply() would take one slot more than
\* it has (mob > maxConcurrentMsgs): a MOb is given up with its message.
SlotsStayInside == msgPointers[MaxMsgs] = NoMsg

\* A frame the bus completed is eventually told to its message (send's and
\* recv's documentation; the interrupt, or a main that polls).
EventuallyTold == \A m \in Message : done[m] > told[m] ~> done[m] = told[m]
=============================================================================
