---------------------------- MODULE CanaryProofs ----------------------------
(***************************************************************************)
(* Proofs about Canary, for every number of MObs and slots, every set of   *)
(* messages, with or without interrupts, errors and calls in callbacks.    *)
(***************************************************************************)
EXTENDS CanaryProps, Integers, FiniteSetTheorems, SequenceTheorems, TLAPS

\* The calls in progress are records of their fields.
MainShape == main = [pc |-> main.pc, op |-> main.op, msg |-> main.msg,
                     mob |-> main.mob, usage |-> main.usage]
CheckShape == check = [pc |-> check.pc, todo |-> check.todo,
                       saved |-> check.saved, msg |-> check.msg]
Calls == MainShape /\ CheckShape

\* While checkEvents() is on other pages, main's page is the one it saved.
SavedPage == Prepares /\ check.pc # "idle" => check.saved = main.mob

PageInv == Calls /\ MainKeepsPage /\ SavedPage

\* The constructor leaves no call in progress.
LEMMA PageInit == Init => PageInv
BY DEF Init, PageInv, Calls, MainShape, CheckShape, MainKeepsPage, SavedPage, Prepares, Idle, Resting

\* A step of main finds its page, and leaves it alone until it is idle.
LEMMA PageMain == PageInv /\ MainNext => PageInv'
<1> SUFFICES ASSUME PageInv, MainNext PROVE PageInv'
  OBVIOUS
<1> USE DEF PageInv, Calls, MainShape, CheckShape, MainKeepsPage, SavedPage, Prepares, MainAt, MainRuns, Idle
<1>1. CASE StorePointer
  BY <1>1 DEF StorePointer, hwVars
<1>2. CASE LoadUsage
  BY <1>2 DEF LoadUsage, hwVars
<1>3. CASE StoreUsage
  BY <1>3 DEF StoreUsage
<1>4. CASE Fill
  BY <1>4 DEF Fill
<1>5. CASE Refuse
  BY <1>5 DEF Refuse, hwVars
<1>6. CASE Start
  BY <1>6 DEF Start
<1>7. CASE UnloadUsage
  BY <1>7 DEF UnloadUsage, hwVars
<1>8. CASE UnstoreUsage
  BY <1>8 DEF UnstoreUsage
<1>9. CASE Restart
  BY <1>9 DEF Restart
<1>10. ASSUME NEW m \in Message, Call(m) PROVE PageInv'
  BY <1>10 DEF Call, hwVars
<1>11. ASSUME NEW m \in Message, StopAutoReply(m) PROVE PageInv'
  BY <1>11 DEF StopAutoReply, hwVars
<1>12. CASE Probe
  BY <1>12 DEF Probe, hwVars
<1>13. CASE TakePage
  BY <1>13 DEF TakePage
<1> QED BY <1>1, <1>2, <1>3, <1>4, <1>5, <1>6, <1>7, <1>8, <1>9, <1>10, <1>11, <1>12, <1>13
        DEF MainNext, MainStep

\* checkEvents() saves main's page when it begins and restores it at its end;
\* in between it, and the callbacks it makes, leave the saved page alone.
LEMMA PageCheck == PageInv /\ CheckNext => PageInv'
<1> SUFFICES ASSUME PageInv, CheckNext PROVE PageInv'
  OBVIOUS
<1> USE DEF PageInv, Calls, MainShape, CheckShape, MainKeepsPage, SavedPage, Prepares
<1>1. CASE CheckBegin
  BY <1>1 DEF CheckBegin, Resting, hwVars
<1>2. ASSUME NEW i \in Mob, HandleReceive(i) PROVE PageInv'
  BY <1>2 DEF HandleReceive, At, Scan
<1>3. ASSUME NEW i \in Mob, HandleTransmit(i) PROVE PageInv'
  BY <1>3 DEF HandleTransmit, At, Scan
<1>4. ASSUME NEW i \in Mob, HandleError(i) PROVE PageInv'
  BY <1>4 DEF HandleError, At, Scan
<1>5. CASE CallbackQuiet
  BY <1>5 DEF CallbackQuiet, InCallback, Return
<1>6. CASE CallbackStopCyclic \/ CallbackStartCyclic
  BY <1>6 DEF CallbackStopCyclic, CallbackStartCyclic, Return
<1>7. ASSUME NEW m \in Message, CallbackCall(m) PROVE PageInv'
  BY <1>7 DEF CallbackCall, InCallback, Return
<1>8. CASE Rearm
  BY <1>8 DEF Rearm
<1>9. CASE CheckEnd
  BY <1>9 DEF CheckEnd, Resting
<1> QED BY <1>1, <1>2, <1>3, <1>4, <1>5, <1>6, <1>7, <1>8, <1>9 DEF CheckNext, CheckStep

\* The controller touches neither the page nor the calls.
LEMMA PageBus == PageInv /\ BusNext => PageInv'
BY DEF PageInv, Calls, MainShape, CheckShape, MainKeepsPage, SavedPage, Prepares,
       BusNext, BusComplete, MobOff, BusError, Finish

LEMMA PageNext == PageInv /\ [Next]_vars => PageInv'
<1>1. PageInv /\ UNCHANGED vars => PageInv'
  BY DEF PageInv, Calls, MainShape, CheckShape, MainKeepsPage, SavedPage, Prepares, vars, hwVars
<1> QED BY <1>1, PageMain, PageCheck, PageBus DEF Next

\* A call of main that selected a MOb finds its page again after every
\* interrupt, whatever the callbacks do in it (can_handlers.h, checkEvents).
THEOREM PageIsKept == Spec => []MainKeepsPage
<1>1. PageInv => MainKeepsPage
  BY DEF PageInv
<1> QED BY PageInit, PageNext, <1>1, PTL DEF Spec

-----------------------------------------------------------------------------
(* The MObs, their flags and the order in which selectMob() and             *)
(* checkEvents() take them.                                                 *)

MobRecord == [config : {"disabled", "tx", "rx", "reply"}, en : BOOLEAN,
              flags : SUBSET Flag, msg : Message \cup {NoMsg}]

\* A MOb that is on, or has something to tell.
Busy(i) == mob[i].en \/ mob[i].flags # {}

\* A non-empty set of naturals has a least element: otherwise the intervals
\* up to its elements would descend for ever.
LEMMA LeastElement ==
  ASSUME NEW S \in SUBSET Nat, S # {}
  PROVE  \E n \in S : \A m \in S : n <= m
<1> DEFINE R == StrictSubsetOrdering(Nat)
           T == {0 .. n : n \in S}
<1>1. IsWellFoundedOn(R, FiniteSubsetsOf(Nat))
  BY FS_StrictSubsetOrderingWellFounded
<1>2. T \subseteq FiniteSubsetsOf(Nat)
  <2>1. ASSUME NEW n \in S PROVE 0 .. n \in FiniteSubsetsOf(Nat)
    <3>1. IsFiniteSet(0 .. n)
      BY FS_Interval
    <3> QED BY <3>1 DEF FiniteSubsetsOf
  <2> QED BY <2>1
<1>3. T # {}
  OBVIOUS
<1>4. \E x \in T : \A y \in T : ~(<<y, x>> \in R)
  <2> HIDE DEF R, T
  <2> QED BY <1>1, <1>2, <1>3, WFMin
<1>5. PICK x \in S : \A y \in T : ~(<<y, 0 .. x>> \in R)
  BY <1>4
<1>6. ASSUME NEW m \in S, ~(x <= m) PROVE FALSE
  <2>1. 0 .. m \in SUBSET Nat /\ 0 .. x \in SUBSET Nat
    OBVIOUS
  <2>2. 0 .. m \subseteq 0 .. x /\ 0 .. m # 0 .. x
    <3>1. x \in 0 .. x /\ x \notin 0 .. m
      BY <1>6
    <3> QED BY <1>6, <3>1
  <2>3. <<0 .. m, 0 .. x>> \in R
    BY <2>1, <2>2 DEF StrictSubsetOrdering
  <2> QED BY <1>5, <2>3
<1> QED BY <1>6

LEMMA MinIs ==
  ASSUME NEW S \in SUBSET Nat, S # {}
  PROVE  Min(S) \in S /\ \A n \in S : Min(S) <= n
BY LeastElement DEF Min

LEMMA MobFacts ==
  /\ NumMobs \in Nat /\ MaxMsgs \in Nat /\ 0 < MaxMsgs /\ MaxMsgs < NumMobs
  /\ Mob \subseteq Nat /\ 0 .. MaxMsgs \subseteq Mob /\ NumMobs - 1 \in Mob
  /\ \A i \in Mob : i \in Nat
  /\ NoMsg \notin Message
BY CanaryAssumption DEF Mob

LEMMA FlagFacts ==
  /\ DOMAIN FlagOrder = 1 .. 7 /\ FlagOrder[6] = "receiveOk" /\ FlagOrder[7] = "transmitOk"
  /\ \A k \in 1 .. 5 : FlagOrder[k] \in ErrorFlag
  /\ Flag = {"ackError", "formError", "crcError", "stuffError", "bitError",
             "receiveOk", "transmitOk"}
  /\ ErrorFlag = {"ackError", "formError", "crcError", "stuffError", "bitError"}
  /\ \A m \in Message : OkFlag(m) \in Flag
<1> DEFINE T == <<"receiveOk", "transmitOk">>
           S == {"ackError", "formError", "crcError", "stuffError", "bitError",
                 "receiveOk", "transmitOk"}
<1>1. ErrorOrder \in Seq(S) /\ Len(ErrorOrder) = 5
  BY DEF ErrorOrder
<1>2. T \in Seq(S) /\ Len(T) = 2
  OBVIOUS
<1>3. /\ Len(FlagOrder) = 7 /\ FlagOrder \in Seq(S)
      /\ \A k \in 1 .. 7 : FlagOrder[k] = IF k <= 5 THEN ErrorOrder[k] ELSE T[k - 5]
  <2>1. FlagOrder = ErrorOrder \o T
    BY DEF FlagOrder
  <2> HIDE DEF S, T
  <2>2. /\ FlagOrder \in Seq(S) /\ Len(FlagOrder) = Len(ErrorOrder) + Len(T)
        /\ \A k \in 1 .. Len(ErrorOrder) + Len(T) :
             FlagOrder[k] = IF k <= Len(ErrorOrder) THEN ErrorOrder[k] ELSE T[k - Len(ErrorOrder)]
    BY <1>1, <1>2, <2>1, ConcatProperties
  <2> QED BY <1>1, <1>2, <2>2
<1>0. DOMAIN FlagOrder = 1 .. 7 /\ DOMAIN ErrorOrder = 1 .. 5
  BY <1>1, <1>3
<1>11. Flag = {FlagOrder[k] : k \in 1 .. 7} /\ ErrorFlag = {ErrorOrder[k] : k \in 1 .. 5}
  BY <1>0 DEF Flag, ErrorFlag, Range
<1>4. 1 .. 7 = {1, 2, 3, 4, 5, 6, 7} /\ 1 .. 5 = {1, 2, 3, 4, 5}
  OBVIOUS
<1>5. /\ ErrorOrder[1] = "ackError" /\ ErrorOrder[2] = "formError" /\ ErrorOrder[3] = "crcError"
      /\ ErrorOrder[4] = "stuffError" /\ ErrorOrder[5] = "bitError"
      /\ T[1] = "receiveOk" /\ T[2] = "transmitOk"
  BY DEF ErrorOrder
<1>6. /\ \A k \in 1 .. 5 : FlagOrder[k] = ErrorOrder[k]
      /\ FlagOrder[6] = "receiveOk" /\ FlagOrder[7] = "transmitOk"
  <2> HIDE DEF T
  <2>1. \A k \in 1 .. 5 : k \in 1 .. 7 /\ k <= 5
    OBVIOUS
  <2> QED BY <1>3, <1>5, <2>1
<1>7. Flag = {"ackError", "formError", "crcError", "stuffError", "bitError",
              "receiveOk", "transmitOk"}
  BY <1>11, <1>4, <1>5, <1>6
<1>8. ErrorFlag = {"ackError", "formError", "crcError", "stuffError", "bitError"}
  BY <1>11, <1>4, <1>5
<1>9. \A k \in 1 .. 5 : FlagOrder[k] \in ErrorFlag
  BY <1>11, <1>6, <1>4
<1>10. \A m \in Message : OkFlag(m) \in Flag
  BY <1>7 DEF OkFlag
<1> QED BY <1>0, <1>6, <1>7, <1>8, <1>9, <1>10

\* A start switches the MOb on, the end of a frame off.
LEMMA StartedIs ==
  ASSUME NEW r \in MobRecord, NEW c
  PROVE  Started(r, c) = [config |-> c, en |-> TRUE, flags |-> r.flags, msg |-> r.msg]
<1>1. r = [config |-> r.config, en |-> r.en, flags |-> r.flags, msg |-> r.msg]
  BY DEF MobRecord
<1> DEFINE a == r.config
           b == r.flags
           d == r.msg
           e == r.en
<1>2. r = [config |-> a, en |-> e, flags |-> b, msg |-> d]
  BY <1>1
<1> HIDE DEF a, b, d, e
<1>3. [r EXCEPT !.config = c] = [config |-> c, en |-> e, flags |-> b, msg |-> d]
  BY <1>2
<1>4. Started(r, c) = [[r EXCEPT !.config = c] EXCEPT !.en = TRUE]
  BY DEF Started
<1>5. Started(r, c) = [config |-> c, en |-> TRUE, flags |-> b, msg |-> d]
  BY <1>3, <1>4
<1> QED BY <1>5 DEF b, d

LEMMA StartedType ==
  ASSUME NEW r \in MobRecord, NEW c \in {"tx", "rx", "reply"}
  PROVE  /\ Started(r, c) \in MobRecord
         /\ Started(r, c).config = c /\ Started(r, c).en = TRUE
         /\ Started(r, c).flags = r.flags /\ Started(r, c).msg = r.msg
<1> DEFINE b == r.flags
           d == r.msg
<1>1. Started(r, c) = [config |-> c, en |-> TRUE, flags |-> b, msg |-> d]
  BY StartedIs
<1>2. b \in SUBSET Flag /\ d \in Message \cup {NoMsg} /\ c \in {"disabled", "tx", "rx", "reply"}
  BY DEF MobRecord
<1> HIDE DEF b, d
<1> DEFINE q == [config |-> c, en |-> TRUE, flags |-> b, msg |-> d]
<1>3. q \in MobRecord /\ q.config = c /\ q.en = TRUE /\ q.flags = b /\ q.msg = d
  BY <1>2 DEF MobRecord
<1>4. q = Started(r, c)
  BY <1>1
<1> HIDE DEF q
<1> QED BY <1>3, <1>4 DEF b, d

\* The same for the message of a callback's send().
LEMMA LoadedType ==
  ASSUME NEW r \in MobRecord, NEW m \in Message
  PROVE  /\ [r EXCEPT !.msg = m] \in MobRecord
         /\ [r EXCEPT !.msg = m].flags = r.flags /\ [r EXCEPT !.msg = m].msg = m
         /\ [r EXCEPT !.msg = m].en = r.en
BY DEF MobRecord

FinishedMob(r) ==
  [config |-> r.config, en |-> FALSE, flags |-> r.flags \cup {OkFlag(r.msg)}, msg |-> r.msg]

LEMMA FinishIs ==
  ASSUME mob \in [Mob -> MobRecord], NEW i \in Mob, Finish(i)
  PROVE  mob' = [mob EXCEPT ![i] = FinishedMob(mob[i])]
<1> DEFINE r == mob[i]
           new == FinishedMob(r)
<1>1. r \in MobRecord
  OBVIOUS
<1>2. mob' = [mob EXCEPT ![i].en = FALSE, ![i].flags = @ \cup {OkFlag(r.msg)}]
  BY DEF Finish
<1>3. DOMAIN mob' = Mob /\ \A j \in Mob : j # i => mob'[j] = mob[j]
  BY <1>2
<1>4. mob'[i] = [[r EXCEPT !.en = FALSE] EXCEPT !.flags = @ \cup {OkFlag(r.msg)}]
  BY <1>2
<1>5. mob'[i] = new
  <2> HIDE DEF r
  <2>1. r = [config |-> r.config, en |-> r.en, flags |-> r.flags, msg |-> r.msg]
    BY <1>1 DEF MobRecord
  <2> DEFINE a == r.config
             b == r.flags
             d == r.msg
             e == r.en
  <2>2. r = [config |-> a, en |-> e, flags |-> b, msg |-> d]
    BY <2>1
  <2> HIDE DEF a, b, d, e
  <2>3. mob'[i] = [config |-> a, en |-> FALSE, flags |-> b \cup {OkFlag(r.msg)}, msg |-> d]
    BY <1>4, <2>2
  <2> QED BY <2>3 DEF FinishedMob, a, b, d
<1>6. DOMAIN mob' = DOMAIN [mob EXCEPT ![i] = new]
  BY <1>3
<1> HIDE DEF new
<1>7. mob' = [j \in Mob |-> mob'[j]]
  BY <1>2
<1> QED BY <1>3, <1>5, <1>7 DEF new

-----------------------------------------------------------------------------
(* Types. handleReceive() starts "the current MOb" again, which is any MOb   *)
(* when its callback has selected one: with cyclic receptions callbacks must *)
(* not send, receive or set up replies.                                      *)

SafeCallbacks == CyclicMsgs = {} \/ {"send", "recv", "reply"} \cap CallbackOps = {}

MobsTyped  == mob \in [Mob -> MobRecord]
PageTyped  == curMObNum \in Mob /\ intUsage \subseteq Mob /\ gie \subseteq Enabled
SlotsTyped == msgPointers \in [0 .. MaxMsgs -> Message \cup {NoMsg}]
BookTyped  == /\ autoReply \subseteq Message /\ cyclic \subseteq CyclicMsgs /\ open \subseteq Message
              /\ restarts \in 0 .. MaxRestarts
              /\ done \in [Message -> 0 .. MaxFrames] /\ told \in [Message -> Nat]
MainTyped  == main \in [pc : {"idle", "search", "page", "pointer", "load", "store", "fill", "start",
                              "unload", "unstore"},
                        op : {"none", "send", "recv", "reply"}, msg : Message \cup {NoMsg},
                        mob : Mob, usage : SUBSET Mob]
CheckTyped == check \in [pc : {"idle", "scan", "received", "callback", "rearm"}, todo : SUBSET Mob,
                         saved : Mob, msg : Message \cup {NoMsg}]

\* No MOb without a slot, or the one behind the array, is ever used.
BusyBounded == \A i \in Mob : Busy(i) => i <= MaxMsgs /\ mob[i].msg \in Message
MainBounded ==
  /\ main.pc # "idle" => main.msg \in Message /\ main.op = Op(main.msg)
  /\ Prepares => main.mob <= MaxMsgs
  /\ Prepares /\ main.pc # "pointer" => msgPointers[main.mob] \in Message
  /\ main.pc = "start" => mob[main.mob].msg \in Message

\* A MOb is loaded only after its slot was stored; the MObs still to be looked at are loaded.
SlotsLoaded == \A i \in 0 .. MaxMsgs : mob[i].msg \in Message => msgPointers[i] \in Message
TodoBounded ==
  /\ check.pc = "idle" => check.todo = {}
  /\ \A i \in check.todo : i <= MaxMsgs /\ mob[i].msg \in Message
HandlerTyped == check.pc \in {"received", "callback", "rearm"} => check.msg \in Message
RearmBounded ==
  check.pc \in {"received", "rearm"} /\ CyclicMsgs # {} =>
    curMObNum <= MaxMsgs /\ mob[curMObNum].msg \in Message

TypeInv ==
  /\ MobsTyped /\ PageTyped /\ SlotsTyped /\ BookTyped /\ MainTyped /\ CheckTyped
  /\ BusyBounded /\ MainBounded /\ SlotsLoaded /\ TodoBounded /\ HandlerTyped /\ RearmBounded

LEMMA TypeInvIsType == TypeInv => CanTypeOK
BY DEF TypeInv, CanTypeOK, MobsTyped, PageTyped, SlotsTyped, BookTyped, MainTyped, CheckTyped,
       HandlerTyped, MobRecord

\* The fields of the calls in progress.
LEMMA CallFields ==
  ASSUME MainTyped, CheckTyped
  PROVE  /\ main.pc \in {"idle", "search", "page", "pointer", "load", "store", "fill", "start",
                          "unload", "unstore"}
         /\ main.op \in {"none", "send", "recv", "reply"} /\ main.msg \in Message \cup {NoMsg}
         /\ main.mob \in Mob /\ main.usage \subseteq Mob
         /\ check.todo \subseteq Mob /\ check.saved \in Mob /\ check.msg \in Message \cup {NoMsg}
BY DEF MainTyped, CheckTyped

LEMMA OpIs == \A m \in Message : Op(m) \in {"send", "recv", "reply"}
BY DEF Op

\* One MOb changes.
LEMMA OneMob ==
  ASSUME MobsTyped, BusyBounded, NEW i \in Mob, NEW r \in MobRecord,
         mob' = [mob EXCEPT ![i] = r],
         r.en \/ r.flags # {} => i <= MaxMsgs /\ r.msg \in Message
  PROVE  MobsTyped' /\ BusyBounded'
BY DEF MobsTyped, BusyBounded, Busy

LEMMA TypeInit == Init => TypeInv
<1> SUFFICES ASSUME Init PROVE TypeInv
  OBVIOUS
<1> USE MobFacts DEF Init
<1>1. FreshMob \in MobRecord /\ FreshMob.en = FALSE /\ FreshMob.flags = {}
  BY DEF FreshMob, MobRecord
<1>2. MobsTyped /\ BusyBounded
  BY <1>1 DEF MobsTyped, BusyBounded, Busy
<1>3. PageTyped /\ SlotsTyped
  BY DEF PageTyped, SlotsTyped, FirstUsage
<1>4. 0 \in Mob
  BY DEF Mob
<1>5. MainTyped /\ CheckTyped /\ MainBounded /\ TodoBounded /\ HandlerTyped /\ RearmBounded
  BY <1>4 DEF MainTyped, CheckTyped, MainBounded, TodoBounded, HandlerTyped, RearmBounded, Idle, Resting, Prepares
<1>7. SlotsLoaded
  BY DEF SlotsLoaded, FreshMob
<1>6. BookTyped
  BY CanaryAssumption DEF BookTyped
<1> QED BY <1>2, <1>3, <1>5, <1>6, <1>7 DEF TypeInv

LEMMA TypeMain == TypeInv /\ PageInv /\ MainNext => TypeInv'
<1> SUFFICES ASSUME TypeInv, PageInv, MainNext PROVE TypeInv'
  OBVIOUS
<1> USE CallFields, MobFacts DEF TypeInv, MainAt, MainRuns, Prepares, HandlerTyped
<1>0. Prepares /\ check.pc = "idle" => curMObNum = main.mob
  BY DEF PageInv, MainKeepsPage
<1>1. CASE StorePointer
  <2>0. main.mob \in 0 .. MaxMsgs /\ main.msg \in Message
    BY <1>1 DEF StorePointer, MainBounded
  <2>1. SlotsTyped' /\ MainTyped' /\ MainBounded' /\ SlotsLoaded'
    BY <1>1, <2>0 DEF StorePointer, SlotsTyped, MainTyped, MainBounded, SlotsLoaded, hwVars
  <2> QED BY <1>1, <2>1 DEF StorePointer, hwVars, bookVars, MobsTyped, PageTyped, BookTyped, CheckTyped,
                         BusyBounded, Busy, SlotsLoaded, TodoBounded, RearmBounded
<1>2. CASE LoadUsage \/ UnloadUsage
  <2>1. MainTyped' /\ MainBounded'
    BY <1>2 DEF LoadUsage, UnloadUsage, MainTyped, MainBounded, PageTyped, hwVars, msgVars
  <2> QED BY <1>2, <2>1 DEF LoadUsage, UnloadUsage, hwVars, msgVars, bookVars, MobsTyped, PageTyped, BookTyped,
                         SlotsTyped, CheckTyped, BusyBounded, Busy, SlotsLoaded, TodoBounded, RearmBounded
<1>3. CASE StoreUsage \/ UnstoreUsage
  <2>1. MainTyped' /\ MainBounded'
    BY <1>3 DEF StoreUsage, UnstoreUsage, MainTyped, MainBounded, Idle, Mob, msgVars
  <2>2. PageTyped'
    BY <1>3 DEF StoreUsage, UnstoreUsage, PageTyped
  <2> QED BY <1>3, <2>1, <2>2 DEF StoreUsage, UnstoreUsage, msgVars, bookVars, MobsTyped, BookTyped,
                         SlotsTyped, CheckTyped, BusyBounded, Busy, SlotsLoaded, TodoBounded, RearmBounded
<1>4. CASE Fill
  <2> DEFINE r == [mob[curMObNum] EXCEPT !.msg = main.msg]
  <2>1. /\ r \in MobRecord /\ r.en = mob[curMObNum].en /\ r.flags = mob[curMObNum].flags
        /\ r.msg = main.msg /\ main.msg \in Message /\ curMObNum = main.mob
    BY <1>0, <1>4 DEF Fill, MobsTyped, PageTyped, MobRecord, MainBounded
  <2>2. mob' = [mob EXCEPT ![curMObNum] = r] /\ curMObNum \in Mob /\ mob'[main.mob].msg = main.msg
    BY <1>4, <2>1 DEF Fill, PageTyped, MobsTyped
  <2>3. MobsTyped' /\ BusyBounded'
    <3> HIDE DEF r
    <3>1. r.en \/ r.flags # {} => curMObNum <= MaxMsgs /\ r.msg \in Message
      BY <1>4, <2>1 DEF Fill, MainBounded
    <3> QED BY <2>1, <2>2, <3>1, OneMob
  <2>4. MainTyped' /\ MainBounded'
    BY <1>4, <2>1, <2>2 DEF Fill, MainTyped, MainBounded
  <2>5. BookTyped'
    BY <1>4, <2>1 DEF Fill, AutoReplies, BookTyped, bookVars
  <2>6. PageTyped' /\ SlotsTyped' /\ CheckTyped' /\ TodoBounded' /\ HandlerTyped' /\ RearmBounded'
    <3>1. \A i \in Mob : mob'[i].msg \in Message \/ mob'[i] = mob[i]
      BY <2>1, <2>2 DEF MobsTyped
    <3> QED BY <1>4, <3>1 DEF Fill, PageTyped, SlotsTyped, CheckTyped, TodoBounded, RearmBounded
  <2>7. SlotsLoaded'
    <3>1. msgPointers[main.mob] \in Message
      BY <1>4 DEF Fill, MainBounded
    <3>2. \A i \in Mob : i # main.mob => mob'[i] = mob[i]
      BY <2>1, <2>2 DEF MobsTyped
    <3> QED BY <1>4, <3>1, <3>2 DEF Fill, SlotsLoaded
  <2> HIDE DEF HandlerTyped
  <2> QED BY <2>3, <2>4, <2>5, <2>6, <2>7
<1>5. CASE Refuse
  <2>1. MainTyped' /\ MainBounded'
    BY <1>5 DEF Refuse, MainTyped, MainBounded, hwVars
  <2> QED BY <1>5, <2>1 DEF Refuse, hwVars, bookVars, MobsTyped, PageTyped, BookTyped,
                         SlotsTyped, CheckTyped, BusyBounded, Busy, SlotsLoaded, TodoBounded, RearmBounded
<1>6. CASE Start
  <2> DEFINE c == Config(main.op)
             r == Started(mob[curMObNum], c)
  <2>1. c \in {"tx", "rx", "reply"}
    BY <1>6, OpIs DEF Start, MainBounded, Config
  <2>2. mob[curMObNum] \in MobRecord /\ curMObNum \in Mob /\ curMObNum = main.mob
        /\ curMObNum <= MaxMsgs /\ mob[curMObNum].msg \in Message
    BY <1>0, <1>6 DEF Start, MobsTyped, PageTyped, MainBounded
  <2>3. r = [config |-> c, en |-> TRUE, flags |-> mob[curMObNum].flags, msg |-> mob[curMObNum].msg]
    BY <2>2, StartedIs
  <2> HIDE DEF c
  <2>4. r \in MobRecord /\ r.msg \in Message
    BY <2>1, <2>2, <2>3 DEF MobRecord
  <2>5. mob' = [mob EXCEPT ![curMObNum] = r]
    BY <1>6 DEF Start, c
  <2>6. MobsTyped' /\ BusyBounded'
    <3> HIDE DEF r
    <3> QED BY <2>2, <2>4, <2>5, OneMob
  <2>7. MainTyped' /\ MainBounded' /\ BookTyped'
    BY <1>6 DEF Start, MainTyped, MainBounded, Idle, Mob, BookTyped, msgVars
  <2>8. \A i \in Mob : mob'[i].msg = mob[i].msg
    BY <2>2, <2>3, <2>5 DEF MobsTyped
  <2>9. SlotsLoaded' /\ TodoBounded' /\ RearmBounded'
    BY <1>6, <2>8 DEF Start, msgVars, SlotsLoaded, TodoBounded, RearmBounded
  <2> QED BY <1>6, <2>6, <2>7, <2>9 DEF Start, msgVars, PageTyped, SlotsTyped, CheckTyped
<1>7. CASE Restart
  <2>1. FreshMob \in MobRecord /\ FreshMob.en = FALSE /\ FreshMob.flags = {} /\ FreshMob.msg = NoMsg
    BY DEF FreshMob, MobRecord
  <2>2. MobsTyped' /\ BusyBounded' /\ SlotsLoaded'
    BY <1>7, <2>1 DEF Restart, MobsTyped, BusyBounded, Busy, SlotsLoaded
  <2>3. PageTyped' /\ BookTyped'
    BY <1>7, CanaryAssumption DEF Restart, PageTyped, BookTyped, msgVars
  <2>4. /\ MainTyped' /\ MainBounded' /\ CheckTyped' /\ TodoBounded' /\ HandlerTyped'
        /\ RearmBounded' /\ SlotsTyped'
    BY <1>7 DEF Restart, MainTyped, MainBounded, CheckTyped, TodoBounded, RearmBounded, SlotsTyped, msgVars
  <2> HIDE DEF HandlerTyped
  <2> QED BY <2>2, <2>3, <2>4
<1>8. ASSUME NEW m \in Message, Call(m) PROVE TypeInv'
  <2>1. main' = [pc |-> "search", op |-> Op(m), msg |-> m, mob |-> 0, usage |-> {}]
    BY <1>8 DEF Call, Idle
  <2>2. 0 \in Mob
    BY DEF Mob
  <2>3. MainTyped' /\ MainBounded'
    BY <2>1, <2>2, OpIs DEF MainTyped, MainBounded
  <2> QED BY <1>8, <2>3 DEF Call, hwVars, msgVars, bookVars, MobsTyped, PageTyped, BookTyped, SlotsTyped,
                 CheckTyped, BusyBounded, Busy, SlotsLoaded, TodoBounded, RearmBounded
<1>10. CASE Probe
  <2>1. main.pc = "search" /\ UNCHANGED <<hwVars, msgVars, check, restarts, bookVars>>
    BY <1>10 DEF Probe
  <2>2. \/ main' = [main EXCEPT !.pc = "page"]
        \/ main.mob + 1 \in Mob /\ main' = [main EXCEPT !.mob = @ + 1]
        \/ main' = Idle
    BY <1>10 DEF Probe
  <2>3. 0 \in Mob
    BY DEF Mob
  <2>4. MainTyped'
    BY <2>2, <2>3 DEF MainTyped, Idle
  <2>5. MainBounded'
    BY <2>1, <2>2 DEF MainBounded, MainTyped, Idle
  <2> QED BY <2>1, <2>4, <2>5 DEF hwVars, msgVars, bookVars, MobsTyped, PageTyped, BookTyped, SlotsTyped,
                 CheckTyped, BusyBounded, Busy, SlotsLoaded, TodoBounded, RearmBounded
<1>11. CASE TakePage
  <2>1. /\ main.pc = "page" /\ curMObNum' = main.mob
        /\ UNCHANGED <<mob, intUsage, gie, msgVars, check, restarts, bookVars>>
    BY <1>11 DEF TakePage
  <2>2. check.pc = "idle"
    BY <1>11 DEF TakePage
  <2>3. \/ main' = [main EXCEPT !.pc = "pointer"] /\ main.mob <= MaxMsgs
        \/ main' = Idle
    BY <1>11 DEF TakePage, Accepts
  <2>4. 0 \in Mob
    BY DEF Mob
  <2>5. MainTyped' /\ MainBounded'
    BY <2>1, <2>3, <2>4 DEF MainTyped, MainBounded, Idle
  <2>6. PageTyped' /\ RearmBounded'
    BY <2>1, <2>2 DEF PageTyped, RearmBounded
  <2> QED BY <2>1, <2>5, <2>6 DEF msgVars, bookVars, MobsTyped, BookTyped, SlotsTyped,
                 CheckTyped, BusyBounded, Busy, SlotsLoaded, TodoBounded
<1>9. ASSUME NEW m \in Message, StopAutoReply(m) PROVE TypeInv'
  BY <1>9 DEF StopAutoReply, hwVars, bookVars, MobsTyped, PageTyped, BookTyped, MainTyped, MainBounded,
              SlotsTyped, CheckTyped, BusyBounded, Busy, SlotsLoaded, TodoBounded, RearmBounded
<1> QED BY <1>1, <1>2, <1>3, <1>4, <1>5, <1>6, <1>7, <1>8, <1>9, <1>10, <1>11
        DEF MainNext, MainStep

\* checkEvents() and the bus leave main alone; what is loaded stays loaded.
LEMMA TypeKept ==
  ASSUME TypeInv, MobsTyped', SlotsTyped', main' = main,
         \A i \in Mob : mob[i].msg \in Message => mob'[i].msg \in Message,
         \A i \in 0 .. MaxMsgs : msgPointers[i] \in Message => msgPointers'[i] \in Message,
         \A i \in 0 .. MaxMsgs : mob'[i].msg \in Message => mob[i].msg \in Message \/ msgPointers'[i] \in Message
  PROVE  MainTyped' /\ MainBounded' /\ SlotsLoaded'
<1>1. main.mob \in Mob /\ (Prepares => main.mob \in 0 .. MaxMsgs)
  <2>1. main.mob \in Mob /\ main.mob \in Nat /\ MaxMsgs \in Nat
    BY MobFacts DEF TypeInv, MainTyped
  <2> QED BY <2>1 DEF TypeInv, MainBounded
<1>2. MainTyped' /\ MainBounded'
  BY <1>1 DEF TypeInv, MainTyped, MainBounded, Prepares
<1>3. SlotsLoaded'
  BY DEF TypeInv, SlotsLoaded
<1> QED BY <1>2, <1>3

\* A MOb that an event is taken from, and is perhaps freed.
LEMMA TakenIs ==
  ASSUME MobsTyped, NEW i \in Mob
  PROVE  /\ Taken(i) \in MobRecord /\ Freed(Taken(i)) \in MobRecord
         /\ Taken(i).en = mob[i].en /\ Taken(i).flags = mob[i].flags \ {GetEvent(mob[i].flags)}
         /\ Taken(i).msg = mob[i].msg
         /\ Freed(Taken(i)).en = mob[i].en /\ Freed(Taken(i)).flags = Taken(i).flags
         /\ Freed(Taken(i)).msg = mob[i].msg
<1> DEFINE left == mob[i].flags \ {GetEvent(mob[i].flags)}
           a == mob[i].config
           b == mob[i].en
           d == mob[i].msg
<1>1. mob[i] \in MobRecord
  BY DEF MobsTyped
<1>2. /\ a \in {"disabled", "tx", "rx", "reply"} /\ b \in BOOLEAN /\ left \in SUBSET Flag
      /\ d \in Message \cup {NoMsg}
  BY <1>1 DEF MobRecord
<1>3. Taken(i) = [mob[i] EXCEPT !.flags = left]
  BY DEF Taken
<1>4. mob[i] = [config |-> a, en |-> b, flags |-> mob[i].flags, msg |-> d]
  BY <1>1 DEF MobRecord
<1> HIDE DEF left, a, b, d
<1>5. Taken(i) = [config |-> a, en |-> b, flags |-> left, msg |-> d]
  BY <1>3, <1>4
<1>6. Freed(Taken(i)) = [config |-> "disabled", en |-> b, flags |-> left, msg |-> d]
  BY <1>5 DEF Freed
<1>7. Taken(i) \in MobRecord /\ Freed(Taken(i)) \in MobRecord
  BY <1>2, <1>5, <1>6 DEF MobRecord
<1>8. /\ Taken(i).en = b /\ Taken(i).flags = left /\ Taken(i).msg = d
      /\ Freed(Taken(i)).en = b /\ Freed(Taken(i)).flags = left /\ Freed(Taken(i)).msg = d
  BY <1>5, <1>6
<1> QED BY <1>7, <1>8 DEF left, b, d

\* An event is handled: the MOb is taken on, freed or started again.
LEMMA TypeHandled ==
  ASSUME TypeInv, NEW i \in Mob, NEW pc \in {"scan", "received", "callback"},
         \E event : At(event, i),
         \/ mob' = [mob EXCEPT ![i] = Taken(i)]
         \/ mob' = [mob EXCEPT ![i] = Freed(Taken(i))]
         \/ mob' = [mob EXCEPT ![i] = Started(Taken(i), "reply")] /\ mob[i].msg \in Message,
         Scan(pc, i), main' = main, intUsage' \subseteq intUsage, gie' = gie, msgPointers' = msgPointers,
         BookTyped'
  PROVE  TypeInv'
<1> USE CallFields, MobFacts DEF TypeInv
<1>1. i \in check.todo /\ curMObNum' = i /\ check.todo \in SUBSET Nat
  <2>1. check.todo \in SUBSET Nat /\ check.todo # {} /\ i = Min(check.todo) /\ curMObNum' = i
    BY DEF At
  <2> QED BY <2>1, MinIs
<1>2. i <= MaxMsgs /\ mob[i].msg \in Message /\ i \in 0 .. MaxMsgs
  BY <1>1 DEF TodoBounded
<1>3. mob[i] \in MobRecord
  BY DEF MobsTyped
<1>4. PICK r \in MobRecord : /\ mob' = [mob EXCEPT ![i] = r]
                             /\ r.msg = mob[i].msg
                             /\ r.en \/ r.flags # {} => mob[i].msg \in Message
  <2> DEFINE Good(r) == r.msg = mob[i].msg /\ (r.en \/ r.flags # {} => mob[i].msg \in Message)
  <2>1. mob[i].en \/ mob[i].flags # {} => mob[i].msg \in Message
    BY DEF BusyBounded, Busy
  <2>2. Taken(i) \in MobRecord /\ Good(Taken(i)) /\ Freed(Taken(i)) \in MobRecord /\ Good(Freed(Taken(i)))
    BY <2>1, TakenIs
  <2>3. mob[i].msg \in Message =>
          Started(Taken(i), "reply") \in MobRecord /\ Good(Started(Taken(i), "reply"))
    BY <2>2, StartedType
  <2>4. \E r \in MobRecord : mob' = [mob EXCEPT ![i] = r] /\ Good(r)
    <3> HIDE DEF Good
    <3> QED BY <2>2, <2>3
  <2> QED BY <2>4
<1>5. MobsTyped' /\ BusyBounded'
  BY <1>2, <1>4, OneMob
<1>11. \A j \in Mob : mob'[j].msg = mob[j].msg
  BY <1>4 DEF MobsTyped
<1>7. PageTyped' /\ SlotsTyped'
  BY <1>1 DEF PageTyped, SlotsTyped
<1>6. MainTyped' /\ MainBounded' /\ SlotsLoaded'
  BY <1>5, <1>7, <1>11, TypeKept
<1>8. msgPointers[i] \in Message
  BY <1>2 DEF SlotsLoaded
<1>9. check' = [pc |-> pc, todo |-> check.todo \ {i}, saved |-> check.saved, msg |-> msgPointers[i]]
  BY DEF Scan, CheckTyped
<1>10. CheckTyped' /\ TodoBounded' /\ HandlerTyped'
  BY <1>8, <1>9, <1>11 DEF CheckTyped, TodoBounded, HandlerTyped
<1>12. RearmBounded'
  BY <1>1, <1>2, <1>9, <1>11 DEF RearmBounded
<1> QED BY <1>5, <1>6, <1>7, <1>10, <1>12

LEMMA ToldType ==
  ASSUME NEW f \in [Message -> Nat], NEW m
  PROVE  [f EXCEPT ![m] = @ + 1] \in [Message -> Nat]
<1>1. CASE m \in Message
  BY <1>1
<1>2. CASE m \notin Message
  <2> DEFINE y == f[m] + 1
  <2> HIDE DEF y
  <2>1. [f EXCEPT ![m] = y] = f
    BY <1>2
  <2> QED BY <2>1 DEF y
<1> QED BY <1>1, <1>2

LEMMA TypeCheck == ASSUME SafeCallbacks PROVE TypeInv /\ PageInv /\ CheckNext => TypeInv'
<1> SUFFICES ASSUME TypeInv, PageInv, CheckNext PROVE TypeInv'
  OBVIOUS
<1> USE CallFields, MobFacts DEF TypeInv
<1>1. CASE CheckBegin
  <2>1. MObsIntActive \subseteq intUsage /\ \A i \in MObsIntActive : Busy(i)
    BY DEF MObsIntActive, Busy, PageTyped
  <2>2. check' = [pc |-> "scan", todo |-> MObsIntActive, saved |-> curMObNum, msg |-> NoMsg]
    BY <1>1 DEF CheckBegin, Resting
  <2>4. UNCHANGED <<hwVars, msgVars, main, restarts, bookVars>>
    BY <1>1 DEF CheckBegin
  <2>3. CheckTyped' /\ TodoBounded' /\ HandlerTyped' /\ RearmBounded'
    BY <2>1, <2>2, <2>4 DEF CheckTyped, TodoBounded, HandlerTyped, RearmBounded, PageTyped, BusyBounded, hwVars
  <2> QED BY <2>3, <2>4 DEF hwVars, msgVars, bookVars, MobsTyped, PageTyped, BookTyped, MainTyped,
                 MainBounded, Prepares, SlotsTyped, SlotsLoaded, BusyBounded, Busy
<1>2. ASSUME NEW i \in Mob, HandleReceive(i) PROVE TypeInv'
  <2>1. /\ At("receiveOk", i) /\ Scan("received", i) /\ UNCHANGED <<main, gie, msgPointers>>
        /\ told' = [told EXCEPT ![msgPointers[i]] = @ + 1]
        /\ (mob' = [mob EXCEPT ![i] = Taken(i)] /\ UNCHANGED <<intUsage, open>>) \/ Release(i)
        /\ UNCHANGED <<autoReply, cyclic, restarts, done>>
    BY <1>2 DEF HandleReceive, msgVars
  <2>2. intUsage' \subseteq intUsage /\ open' \subseteq open
    BY <2>1 DEF Release
  <2>3. BookTyped'
    <3>1. told' \in [Message -> Nat]
      BY <2>1, ToldType DEF BookTyped
    <3> QED BY <2>1, <2>2, <3>1 DEF BookTyped
  <2> QED BY <2>1, <2>2, <2>3, TypeHandled DEF Release
<1>3. ASSUME NEW i \in Mob, HandleTransmit(i) PROVE TypeInv'
  <2>1. /\ At("transmitOk", i) /\ UNCHANGED <<main, gie, msgPointers>>
        /\ told' = [told EXCEPT ![msgPointers[i]] = @ + 1]
        /\ \/ mob' = [mob EXCEPT ![i] = Started(Taken(i), "reply")] /\ Scan("scan", i) /\ UNCHANGED <<intUsage, open>>
           \/ Release(i) /\ Scan("callback", i)
        /\ UNCHANGED <<autoReply, cyclic, restarts, done>>
    BY <1>3 DEF HandleTransmit, msgVars
  <2>2. intUsage' \subseteq intUsage /\ open' \subseteq open
    BY <2>1 DEF Release
  <2>3. BookTyped'
    <3>1. told' \in [Message -> Nat]
      BY <2>1, ToldType DEF BookTyped
    <3> QED BY <2>1, <2>2, <3>1 DEF BookTyped
  <2>4. i \in check.todo /\ mob[i].msg \in Message
    <3>1. check.todo \in SUBSET Nat /\ check.todo # {} /\ i = Min(check.todo)
      BY <2>1 DEF At
    <3>2. i \in check.todo
      BY <3>1, MinIs
    <3> QED BY <3>2 DEF TodoBounded
  <2> QED BY <2>1, <2>2, <2>3, <2>4, TypeHandled DEF Release
<1>4. ASSUME NEW i \in Mob, HandleError(i) PROVE TypeInv'
  <2>1. /\ \E e : At(e, i)
        /\ UNCHANGED <<main, gie, msgPointers>>
        /\ \/ mob' = [mob EXCEPT ![i] = Taken(i)] /\ Scan("scan", i) /\ UNCHANGED <<intUsage, open>>
           \/ Release(i) /\ Scan("callback", i)
        /\ UNCHANGED <<autoReply, cyclic, restarts, done, told>>
    BY <1>4 DEF HandleError, msgVars
  <2>2. intUsage' \subseteq intUsage /\ open' \subseteq open
    BY <2>1 DEF Release
  <2>3. BookTyped'
    BY <2>1, <2>2 DEF BookTyped
  <2> QED BY <2>1, <2>2, <2>3, TypeHandled DEF Release
<1>5. CASE CallbackQuiet \/ CallbackStopCyclic \/ CallbackStartCyclic
  <2>1. /\ check.pc \in {"received", "callback"}
        /\ check' = [check EXCEPT !.pc = IF @ = "received" THEN "rearm" ELSE "scan"]
    BY <1>5 DEF CallbackQuiet, CallbackStopCyclic, CallbackStartCyclic, InCallback, Return
  <2>3. /\ UNCHANGED <<hwVars, msgPointers, autoReply, main, restarts, done, told>>
        /\ cyclic' \subseteq CyclicMsgs /\ open' \subseteq open \cup {check.msg}
    BY <1>5 DEF CallbackQuiet, CallbackStopCyclic, CallbackStartCyclic, hwVars, msgVars, bookVars, BookTyped
  <2>2. CheckTyped' /\ TodoBounded' /\ HandlerTyped'
    BY <2>1, <2>3 DEF CheckTyped, TodoBounded, HandlerTyped, hwVars
  <2>4. RearmBounded'
    BY <2>1, <2>3 DEF RearmBounded, CheckTyped, hwVars
  <2>5. BookTyped'
    BY <2>1, <2>3 DEF BookTyped, HandlerTyped
  <2> QED BY <2>2, <2>3, <2>4, <2>5 DEF hwVars, MobsTyped, PageTyped, MainTyped, MainBounded, Prepares, SlotsTyped,
                 SlotsLoaded, BusyBounded, Busy
<1>6. ASSUME NEW m \in Message, CallbackCall(m) PROVE TypeInv'
  <2> DEFINE i == Min(Selectable)
             r == Started([mob[i] EXCEPT !.msg = m], Config(Op(m)))
  <2>1. /\ check.pc \in {"received", "callback"}
        /\ Op(m) \in CallbackOps /\ UNCHANGED <<gie, cyclic, main, restarts, done, told>>
        /\ check' = [check EXCEPT !.pc = IF @ = "received" THEN "rearm" ELSE "scan"]
    BY <1>6 DEF CallbackCall, InCallback, Return
  <2>2. CyclicMsgs = {}
    BY <2>1, SafeCallbacks, OpIs DEF SafeCallbacks
  <2>3. CheckTyped' /\ HandlerTyped' /\ RearmBounded'
    BY <2>1, <2>2 DEF CheckTyped, HandlerTyped, RearmBounded
  <2>4. CASE Selectable # {} /\ Accepts(Op(m), i)
    <3>0. Selectable \in SUBSET Nat /\ Selectable \subseteq Mob
      BY DEF Selectable
    <3>9. i \in Mob /\ i \in Nat
      BY <2>4, <3>0, MinIs
    <3>1. /\ msgPointers' = [msgPointers EXCEPT ![i] = m] /\ intUsage' = intUsage \cup {i}
          /\ mob' = [mob EXCEPT ![i] = r] /\ curMObNum' = i
          /\ autoReply' = AutoReplies(m) /\ open' = open \cup {m}
      BY <1>6, <2>4 DEF CallbackCall
    <3>2. mob[i] \in MobRecord
      BY <3>9 DEF MobsTyped
    <3>5. r \in MobRecord /\ r.msg = m
      <4> DEFINE q == [mob[i] EXCEPT !.msg = m]
                 c == Config(Op(m))
      <4>1. q \in MobRecord /\ q.msg = m
        BY <3>2, LoadedType
      <4>3. c \in {"tx", "rx", "reply"}
        BY OpIs DEF Config
      <4> HIDE DEF q, c
      <4>2. Started(q, c) \in MobRecord /\ Started(q, c).msg = m
        BY <4>1, <4>3, StartedType
      <4> QED BY <4>2 DEF q, c
    <3>4. i <= MaxMsgs /\ i \in 0 .. MaxMsgs
      BY <2>4, <3>9 DEF Accepts
    <3> HIDE DEF r, i
    <3>6. MobsTyped' /\ BusyBounded'
      BY <3>1, <3>4, <3>5, <3>9, OneMob
    <3>8. PageTyped' /\ SlotsTyped' /\ BookTyped'
      BY <2>1, <3>1, <3>9 DEF PageTyped, SlotsTyped, BookTyped, AutoReplies
    <3>10. /\ \A j \in Mob : mob'[j].msg = IF j = i THEN m ELSE mob[j].msg
           /\ \A j \in 0 .. MaxMsgs : msgPointers'[j] = IF j = i THEN m ELSE msgPointers[j]
      BY <3>1, <3>5 DEF MobsTyped, SlotsTyped
    <3>7. MainTyped' /\ MainBounded' /\ SlotsLoaded'
      BY <2>1, <3>6, <3>8, <3>10, TypeKept
    <3>11. TodoBounded'
      BY <2>1, <3>10 DEF TodoBounded, CheckTyped
    <3> QED BY <2>3, <3>6, <3>7, <3>8, <3>11
  <2>5. CASE ~(Selectable # {} /\ Accepts(Op(m), i))
    <3>1. UNCHANGED <<msgPointers, intUsage, mob, autoReply, open>>
      BY <1>6, <2>5 DEF CallbackCall
    <3>2. curMObNum' \in Mob
      <4>1. CASE Selectable = {}
        BY <1>6, <4>1 DEF CallbackCall, PageTyped
      <4>2. CASE Selectable # {}
        <5>1. Selectable \in SUBSET Nat /\ Selectable \subseteq Mob /\ curMObNum' = i
          BY <1>6, <4>2 DEF CallbackCall, Selectable
        <5> QED BY <4>2, <5>1, MinIs
      <4> QED BY <4>1, <4>2
    <3> HIDE DEF i
    <3> QED BY <2>1, <2>3, <3>1, <3>2 DEF MobsTyped, PageTyped, BookTyped, MainTyped, MainBounded, Prepares,
                  SlotsTyped, SlotsLoaded, TodoBounded, CheckTyped, BusyBounded, Busy
  <2> QED BY <2>4, <2>5
<1>7. CASE Rearm
  <2>1. /\ check.pc = "rearm"
        /\ check' = [pc |-> "scan", todo |-> check.todo, saved |-> check.saved, msg |-> NoMsg]
    BY <1>7 DEF Rearm, CheckTyped
  <2>2. CheckTyped' /\ HandlerTyped' /\ RearmBounded'
    BY <2>1 DEF CheckTyped, HandlerTyped, RearmBounded
  <2>3. UNCHANGED <<curMObNum, intUsage, gie, msgVars, main, restarts, bookVars>>
    BY <1>7 DEF Rearm
  <2>4. CASE check.msg \in cyclic
    <3> DEFINE r == Started(mob[curMObNum], "rx")
    <3>1. /\ mob' = [mob EXCEPT ![curMObNum] = r] /\ CyclicMsgs # {}
      BY <1>7, <2>4 DEF Rearm, BookTyped
    <3>2. /\ mob[curMObNum] \in MobRecord /\ curMObNum \in Mob /\ curMObNum <= MaxMsgs
          /\ mob[curMObNum].msg \in Message
      BY <2>1, <3>1 DEF RearmBounded, PageTyped, MobsTyped
    <3>4. r \in MobRecord /\ r.msg = mob[curMObNum].msg
      BY <3>2, StartedType
    <3> HIDE DEF r
    <3>5. MobsTyped' /\ BusyBounded'
      BY <3>1, <3>2, <3>4, OneMob
    <3>6. \A i \in Mob : mob'[i].msg = mob[i].msg
      BY <3>1, <3>2, <3>4 DEF MobsTyped
    <3>7. SlotsTyped' /\ PageTyped' /\ BookTyped'
      BY <2>3 DEF msgVars, bookVars, PageTyped, SlotsTyped, BookTyped
    <3>8. MainTyped' /\ MainBounded' /\ SlotsLoaded'
      BY <2>3, <3>5, <3>6, <3>7, TypeKept DEF msgVars
    <3>9. TodoBounded'
      BY <2>1, <3>6 DEF TodoBounded, CheckTyped
    <3> QED BY <2>2, <3>5, <3>7, <3>8, <3>9
  <2>5. CASE check.msg \notin cyclic
    <3>1. mob' = mob
      BY <1>7, <2>5 DEF Rearm
    <3> QED BY <2>1, <2>2, <2>3, <3>1 DEF msgVars, bookVars, MobsTyped, PageTyped, BookTyped, MainTyped, MainBounded,
                  Prepares, SlotsTyped, SlotsLoaded, TodoBounded, BusyBounded, Busy
  <2> QED BY <2>4, <2>5
<1>8. CASE CheckEnd
  <2>1. CheckTyped' /\ TodoBounded' /\ HandlerTyped' /\ RearmBounded'
    BY <1>8 DEF CheckEnd, Resting, CheckTyped, TodoBounded, HandlerTyped, RearmBounded, Mob
  <2>2. PageTyped'
    BY <1>8 DEF CheckEnd, PageTyped
  <2> QED BY <1>8, <2>1, <2>2 DEF CheckEnd, msgVars, bookVars, MobsTyped, BookTyped, MainTyped, MainBounded,
                                  Prepares, SlotsTyped, SlotsLoaded, BusyBounded, Busy
<1> QED BY <1>1, <1>2, <1>3, <1>4, <1>5, <1>6, <1>7, <1>8 DEF CheckNext, CheckStep

LEMMA TypeBus == TypeInv /\ BusNext => TypeInv'
<1> SUFFICES ASSUME TypeInv, NEW i \in Mob,
                    \/ BusComplete(i) \/ MobOff(i)
                    \/ \E e \in ErrorFlag : BusError(i, e)
             PROVE  TypeInv'
  BY DEF BusNext
<1> USE CallFields, MobFacts DEF TypeInv
<1>1. /\ UNCHANGED <<curMObNum, intUsage, gie, msgVars, main, check, restarts, open, told>>
      /\ mob[i] \in MobRecord /\ mob[i].en
  BY DEF BusComplete, MobOff, BusError, Finish, bookVars, MobsTyped
<1>2. mob[i].msg \in Message /\ i <= MaxMsgs
  BY <1>1 DEF BusyBounded, Busy
<1>3. PICK r \in MobRecord : mob' = [mob EXCEPT ![i] = r] /\ r.msg = mob[i].msg
  <2>1. CASE Finish(i)
    <3>1. OkFlag(mob[i].msg) \in Flag
      BY <1>2, FlagFacts
    <3>2. mob' = [mob EXCEPT ![i] = FinishedMob(mob[i])]
      BY <2>1, FinishIs DEF MobsTyped
    <3>3. FinishedMob(mob[i]) \in MobRecord /\ FinishedMob(mob[i]).msg = mob[i].msg
      BY <1>1, <3>1 DEF FinishedMob, MobRecord
    <3> QED BY <3>2, <3>3
  <2>2. CASE mob' = [mob EXCEPT ![i].en = FALSE]
    <3> DEFINE r == [mob[i] EXCEPT !.en = FALSE]
    <3>1. r \in MobRecord /\ r.msg = mob[i].msg
      BY <1>1 DEF MobRecord
    <3>2. mob' = [mob EXCEPT ![i] = r]
      BY <2>2 DEF MobsTyped
    <3> QED BY <3>1, <3>2
  <2>3. ASSUME NEW e \in ErrorFlag, mob' = [mob EXCEPT ![i].flags = @ \cup {e}]
        PROVE  \E r \in MobRecord : mob' = [mob EXCEPT ![i] = r] /\ r.msg = mob[i].msg
    <3>1. e \in Flag
      BY FlagFacts
    <3> DEFINE r == [mob[i] EXCEPT !.flags = @ \cup {e}]
    <3>2. r \in MobRecord /\ r.msg = mob[i].msg
      BY <1>1, <3>1 DEF MobRecord
    <3>3. mob' = [mob EXCEPT ![i] = r]
      BY <2>3 DEF MobsTyped
    <3> QED BY <3>2, <3>3
  <2> QED BY <2>1, <2>2, <2>3 DEF BusComplete, MobOff, BusError
<1>4. MobsTyped' /\ BusyBounded'
  BY <1>2, <1>3, OneMob
<1>7. \A j \in Mob : mob'[j].msg = mob[j].msg
  BY <1>3 DEF MobsTyped
<1>8. SlotsTyped' /\ PageTyped'
  BY <1>1 DEF msgVars, SlotsTyped, PageTyped
<1>5. MainTyped' /\ MainBounded' /\ SlotsLoaded' /\ RearmBounded' /\ TodoBounded'
  <2>1. MainTyped' /\ MainBounded' /\ SlotsLoaded'
    BY <1>1, <1>4, <1>7, <1>8, TypeKept DEF msgVars
  <2>2. RearmBounded' /\ TodoBounded'
    BY <1>1, <1>7 DEF RearmBounded, PageTyped, TodoBounded, CheckTyped
  <2> QED BY <2>1, <2>2
<1>6. done' \in [Message -> 0 .. MaxFrames]
  <2>1. CASE done' = done
    BY <2>1 DEF BookTyped
  <2>2. CASE Finish(i)
    <3>1. done[mob[i].msg] < MaxFrames /\ done[mob[i].msg] \in 0 .. MaxFrames
      BY <1>2, <2>2 DEF Finish, BookTyped
    <3>2. done[mob[i].msg] + 1 \in 0 .. MaxFrames
      BY <3>1, CanaryAssumption
    <3> QED BY <1>2, <2>2, <3>2 DEF Finish, BookTyped
  <2> QED BY <2>1, <2>2 DEF BusComplete, MobOff, BusError, bookVars
<1> QED BY <1>1, <1>4, <1>5, <1>6, <1>8 DEF msgVars, BookTyped, CheckTyped, HandlerTyped

LEMMA TypeNext == ASSUME SafeCallbacks PROVE TypeInv /\ PageInv /\ [Next]_vars => TypeInv'
<1>1. TypeInv /\ UNCHANGED vars => TypeInv'
  BY DEF vars, hwVars, msgVars, bookVars, TypeInv, MobsTyped, PageTyped, BookTyped, MainTyped, MainBounded,
         Prepares, SlotsTyped, SlotsLoaded, CheckTyped, BusyBounded, Busy, TodoBounded, HandlerTyped, RearmBounded
<1> QED BY SafeCallbacks, <1>1, TypeMain, TypeCheck, TypeBus DEF Next

\* Types; and checkEvents() always finds a stored message for the MOb whose event it takes,
\* through errors, restarts and calls in callbacks: no MOb above maxConcurrentMsgs comes into
\* use, and none is loaded before its slot was stored (can_handlers.h, msgPointers[i]).
THEOREM CanTypes == ASSUME SafeCallbacks PROVE Spec => []CanTypeOK
<1>1. Spec => [](TypeInv /\ PageInv)
  BY SafeCallbacks, PageInit, PageNext, TypeInit, TypeNext, PTL DEF Spec
<1> QED BY <1>1, TypeInvIsType, PTL

-----------------------------------------------------------------------------
(* Messages and their MObs. The driver is used as its documentation has it:  *)
(* by interrupt, with no more messages than slots. Further restart(), calls  *)
(* in callbacks other than setCyclic(false), errors on the bus, and a        *)
(* selectMob() that reads a MOb between its event and the handler that       *)
(* starts it again, are excluded: each of these breaks what follows.         *)

Documented ==
  /\ UseInterrupts /\ Errors = {} /\ MaxRestarts = 0 /\ ~RearmRace
  /\ CallbackOps \subseteq {"stopCyclic"}
  /\ IsFiniteSet(Message) /\ Cardinality(Message) <= MaxMsgs

Rearming == check.pc \in {"received", "rearm"}

\* A MOb tells of the end of its own frame only, and is off by then.
FlagsInv ==
  \A i \in Mob : /\ mob[i].flags \subseteq {OkFlag(mob[i].msg)}
                 /\ mob[i].flags # {} => ~mob[i].en
                 /\ mob[i].en => mob[i].config # "disabled"

\* A MOb in use has the slot of its message, its interrupt, and the message to itself.
OwnInv ==
  \A i \in Mob : Busy(i) => /\ i < MaxMsgs /\ mob[i].msg \in open
                            /\ msgPointers[i] = mob[i].msg /\ i \in intUsage
UniqueInv == \A i, j \in Mob : Busy(i) /\ Busy(j) /\ mob[i].msg = mob[j].msg => i = j

\* An open message has its MOb, or is between its reception and the next start.
OpenInv == \A m \in open : (\E i \in Mob : Busy(i) /\ mob[i].msg = m) \/ (Rearming /\ check.msg = m)

\* Between a reception and the next start the MOb waits, with its slot and its message.
RearmInv ==
  Rearming =>
    /\ ~Busy(curMObNum) /\ curMObNum < MaxMsgs
    /\ mob[curMObNum].msg = check.msg /\ msgPointers[curMObNum] = check.msg
    /\ check.msg \in Message /\ (check.msg \in open <=> check.msg \in cyclic)
    /\ check.msg \in cyclic => curMObNum \in intUsage
    /\ \A j \in Mob : Busy(j) => mob[j].msg # check.msg
    /\ Prepares => curMObNum # main.mob
    /\ main.pc = "page" /\ check.msg \in cyclic => curMObNum # main.mob

TodoInv == \A i \in check.todo : mob[i].flags # {}

\* A call of main prepares a free MOb for a message that is not open; what it read of
\* MObsIntUsage is not too little.
MainInv ==
  /\ main.pc # "idle" => main.msg \notin open
  /\ Prepares => main.mob < MaxMsgs /\ ~Busy(main.mob)
  /\ main.pc \in {"load", "store", "fill", "start"} => msgPointers[main.mob] = main.msg
  /\ main.pc \in {"store", "unstore"} => intUsage \subseteq main.usage
  /\ main.pc \in {"fill", "start"} => main.mob \in intUsage
  /\ main.pc = "start" => mob[main.mob].msg = main.msg

\* selectMob() saw each MOb it passed at work for another message, no two for one; a
\* message among them that is still open is there still.
Searches == main.pc \in {"search", "page"}
Passed   == 0 .. (main.mob - 1)
SearchInv ==
  Searches =>
    /\ \A j \in Passed : /\ mob[j].msg \in Message \ {main.msg}
                         /\ mob[j].msg \in open => Busy(j) \/ (Rearming /\ curMObNum = j)
    /\ \A j, k \in Passed : mob[j].msg = mob[k].msg => j = k

\* The MOb that selectMob() saw off is off for good; its handler may still be due.
FoundInv ==
  main.pc = "page" => /\ ~mob[main.mob].en
                      /\ mob[main.mob].flags # {} => msgPointers[main.mob] \notin cyclic \cup autoReply

\* At most the last frame of a message has not been told yet.
Flagged(m) == \E i \in Mob : mob[i].flags # {} /\ mob[i].msg = m
FramesInv == \A m \in Message : done[m] = IF Flagged(m) THEN told[m] + 1 ELSE told[m]

GieInv == gie = Enabled

ServeInv ==
  /\ FlagsInv /\ OwnInv /\ UniqueInv /\ OpenInv /\ RearmInv /\ TodoInv /\ FramesInv /\ GieInv
  /\ MainInv /\ SearchInv /\ FoundInv /\ SlotsStayInside

LEMMA ServeInit == Init => ServeInv
<1> SUFFICES ASSUME Init PROVE ServeInv
  OBVIOUS
<1> USE DEF Init
<1>1. \A i \in Mob : ~mob[i].en /\ mob[i].flags = {}
  BY DEF FreshMob
<1>2. \A i \in Mob : ~Busy(i)
  BY <1>1 DEF Busy
<1>3. main.pc = "idle" /\ check.pc = "idle" /\ check.todo = {}
  BY DEF Idle, Resting
<1>4. FramesInv
  BY <1>1 DEF FramesInv, Flagged
<1>5. SlotsStayInside
  BY MobFacts DEF SlotsStayInside
<1> QED BY <1>1, <1>2, <1>3, <1>4, <1>5 DEF ServeInv, FlagsInv, OwnInv, UniqueInv, OpenInv, RearmInv, Rearming,
                 TodoInv, MainInv, Prepares, SearchInv, Searches, FoundInv, GieInv

\* What a MOb tells is enabled: while no interrupt is up, no MOb has anything to tell.
LEMMA FlagsInterrupt ==
  ASSUME Documented, TypeInv, ServeInv, NEW i \in Mob, mob[i].flags # {}
  PROVE  /\ i \in MObsIntActive /\ Interrupt
         /\ OkFlag(mob[i].msg) \in mob[i].flags /\ Class(OkFlag(mob[i].msg)) \in gie
<1>1. i \in intUsage /\ Busy(i)
  BY DEF ServeInv, OwnInv, Busy
<1>2. OkFlag(mob[i].msg) \in mob[i].flags
  BY DEF ServeInv, FlagsInv
<1>3. Class(OkFlag(mob[i].msg)) \in gie
  BY DEF Class, OkFlag, ServeInv, GieInv, Enabled
<1>4. i \in MObsIntActive
  BY <1>1, <1>2, <1>3 DEF MObsIntActive
<1>5. "all" \in gie
  BY DEF ServeInv, GieInv, Enabled, Documented
<1> QED BY <1>2, <1>3, <1>4, <1>5 DEF Interrupt, Documented

\* selectMob() does not come behind the slots: it has passed fewer MObs than there are messages.
LEMMA SlotLeft ==
  ASSUME Documented, MainTyped, MainBounded, SearchInv, Searches
  PROVE  main.mob < MaxMsgs
<1> DEFINE S == 0 .. (main.mob - 1)
           T == Message \ {main.msg}
           f == [j \in S |-> mob[j].msg]
<1>1. main.mob \in Nat /\ main.msg \in Message
  BY MobFacts DEF MainTyped, MainBounded, Searches
<1>2. f \in [S -> T] /\ \A x, y \in S : f[x] = f[y] => x = y
  BY DEF SearchInv, Passed
<1>3. IsFiniteSet(T) /\ Cardinality(T) = Cardinality(Message) - 1 /\ Cardinality(Message) \in Nat
  BY <1>1, FS_RemoveElement, FS_CardinalityType DEF Documented
<1>4. IsFiniteSet(S) /\ Cardinality(S) = main.mob
  <2> DEFINE n == main.mob
  <2>1. n \in Nat
    BY <1>1
  <2> HIDE DEF n
  <2>2. IsFiniteSet(0 .. (n - 1)) /\ Cardinality(0 .. (n - 1)) = n
    BY <2>1, FS_Interval
  <2> QED BY <2>2 DEF n
<1>5. ~(Cardinality(T) < Cardinality(S))
  <2> HIDE DEF S, T, f
  <2> QED BY <1>2, <1>3, <1>4, FS_PigeonHole
<1> QED BY <1>1, <1>3, <1>4, <1>5, MobFacts DEF Documented

\* What selectMob() saw stays true when no MOb is loaded and no message opened.
LEMMA SearchKept ==
  ASSUME SearchInv, main' = main, MainTyped, open' \subseteq open,
         \A j \in Mob : mob'[j].msg = mob[j].msg,
         \A j \in Mob : mob[j].msg \in open' /\ (Busy(j) \/ (Rearming /\ curMObNum = j))
                         => Busy(j)' \/ (Rearming /\ curMObNum = j)'
  PROVE  SearchInv'
<1>1. Passed' = Passed /\ (Searches' <=> Searches)
  BY DEF Passed, Searches
<1>2. \A j \in Passed : j \in Mob
  <2>1. main.mob \in Mob /\ main.mob \in Nat /\ NumMobs \in Nat
    BY MobFacts DEF MainTyped
  <2> QED BY <2>1 DEF Passed, Mob
<1> QED BY <1>1, <1>2 DEF SearchInv

LEMMA ServeMain ==
  ASSUME Documented, TypeInv, PageInv, ServeInv, MainNext
  PROVE  ServeInv'
<1> USE CallFields, MobFacts DEF MainAt, MainRuns, Prepares, Searches
<1>0. Prepares /\ check.pc = "idle" => curMObNum = main.mob
  BY DEF PageInv, MainKeepsPage
<1>13. Prepares' \/ main'.pc = "idle" => SearchInv' /\ FoundInv'
  BY DEF SearchInv, FoundInv
<1>1. MainTyped /\ CheckTyped /\ MobsTyped /\ SlotsTyped /\ PageTyped
  BY DEF TypeInv
<1>2. CASE StorePointer
  <2>1. /\ check.pc = "idle" /\ main.pc = "pointer" /\ UNCHANGED <<hwVars, check, bookVars>>
        /\ msgPointers' = [msgPointers EXCEPT ![main.mob] = main.msg]
        /\ main'.pc = "load" /\ main'.msg = main.msg /\ main'.mob = main.mob
    BY <1>1, <1>2 DEF StorePointer, MainTyped
  <2>2. main.mob < MaxMsgs /\ ~Busy(main.mob) /\ main.msg \notin open
    BY <2>1 DEF ServeInv, MainInv
  <2>3. main.mob \in 0 .. MaxMsgs
    <3>1. main.mob \in Nat
      BY <1>1
    <3> QED BY <2>2, <3>1
  <2>4. OwnInv'
    <3>1. ASSUME NEW i \in Mob, Busy(i) PROVE msgPointers'[i] = msgPointers[i]
      <4>1. i \in Nat /\ i < MaxMsgs /\ i # main.mob
        BY <2>2, <3>1 DEF ServeInv, OwnInv
      <4>2. i \in 0 .. MaxMsgs
        BY <4>1
      <4> QED BY <1>1, <2>1, <4>1, <4>2 DEF SlotsTyped
    <3> QED BY <2>1, <3>1 DEF ServeInv, OwnInv, Busy, hwVars, bookVars
  <2>5. MainInv'
    BY <1>1, <2>1, <2>2, <2>3 DEF MainInv, Busy, hwVars, bookVars, SlotsTyped
  <2>6. SlotsStayInside'
    BY <1>1, <2>1, <2>2, <2>3 DEF ServeInv, SlotsStayInside, SlotsTyped
  <2> QED BY <1>13, <2>1, <2>4, <2>5, <2>6 DEF ServeInv, FlagsInv, UniqueInv, OpenInv, RearmInv, Rearming, TodoInv,
                 FramesInv, Flagged, GieInv, Busy, hwVars, bookVars
<1>3. CASE LoadUsage \/ UnloadUsage \/ Refuse
  <2>1. /\ check.pc = "idle" /\ main.pc # "idle" /\ UNCHANGED <<hwVars, msgPointers, check, bookVars>>
        /\ main'.msg = main.msg /\ main'.mob = main.mob
        /\ \/ main.pc = "load" /\ main'.pc = "store" /\ main'.usage = intUsage
           \/ main.pc = "unload" /\ main'.pc = "unstore" /\ main'.usage = intUsage
           \/ main.pc = "fill" /\ main'.pc = "unload"
    BY <1>1, <1>3 DEF LoadUsage, UnloadUsage, Refuse, MainTyped, msgVars
  <2>2. MainInv'
    BY <2>1 DEF ServeInv, MainInv, Busy, hwVars, bookVars
  <2> QED BY <1>13, <2>1, <2>2 DEF ServeInv, FlagsInv, OwnInv, UniqueInv, OpenInv, RearmInv, Rearming, TodoInv,
                 FramesInv, Flagged, GieInv, Busy, SlotsStayInside, hwVars, bookVars
<1>4. CASE StoreUsage \/ UnstoreUsage
  <2>1. /\ check.pc = "idle" /\ main.pc # "idle" /\ UNCHANGED <<mob, curMObNum, gie, msgPointers, check, bookVars>>
        /\ \/ /\ main.pc = "store" /\ intUsage' = main.usage \cup {main.mob}
              /\ main'.pc = "fill" /\ main'.msg = main.msg /\ main'.mob = main.mob
           \/ /\ main.pc = "unstore" /\ intUsage' = main.usage \ {main.mob} /\ main'.pc = "idle"
    BY <1>1, <1>4 DEF StoreUsage, UnstoreUsage, MainTyped, msgVars, Idle
  <2>2. \A i \in intUsage : i # main.mob => i \in intUsage'
    BY <2>1 DEF ServeInv, MainInv
  <2>3. ~Busy(main.mob)
    BY <2>1 DEF ServeInv, MainInv
  <2>4. OwnInv'
    BY <2>1, <2>2, <2>3 DEF ServeInv, OwnInv, Busy, bookVars
  <2>5. MainInv'
    <3>1. /\ main.msg \notin open /\ main.mob < MaxMsgs
          /\ main.pc = "store" => msgPointers[main.mob] = main.msg
      BY <2>1 DEF ServeInv, MainInv
    <3>2. UNCHANGED <<mob, msgPointers, open>>
      BY <2>1 DEF bookVars
    <3>3. CASE main'.pc = "idle"
      BY <3>3 DEF MainInv
    <3>4. CASE /\ main.pc = "store" /\ intUsage' = main.usage \cup {main.mob}
               /\ main'.pc = "fill" /\ main'.msg = main.msg /\ main'.mob = main.mob
      <4>1. main.msg \notin open' /\ ~Busy(main.mob)' /\ msgPointers'[main.mob] = main.msg
        BY <2>3, <3>1, <3>2, <3>4 DEF Busy
      <4>2. main'.mob < MaxMsgs /\ ~Busy(main.mob)' /\ main'.mob = main.mob /\ mob' = mob
        BY <3>1, <3>2, <3>4, <4>1
      <4>3. ~(mob'[main'.mob].en \/ mob'[main'.mob].flags # {})
        BY <2>3, <3>2, <3>4 DEF Busy
      <4>4. (~Busy(main.mob))'
        BY <4>3 DEF Busy
      <4>5. main.mob \in intUsage' /\ main'.pc = "fill" /\ main'.msg \notin open' /\ msgPointers'[main'.mob] = main'.msg
        BY <3>4, <4>1
      <4>6. main'.mob \in intUsage'
        BY <4>2, <4>5
      <4>7. (main.mob < MaxMsgs)'
        BY <4>2
      <4> QED BY <4>4, <4>5, <4>6, <4>7 DEF MainInv
    <3> QED BY <2>1, <3>3, <3>4
  <2>6. UNCHANGED <<mob, gie, check, open, done, told>>
    BY <2>1 DEF bookVars
  <2>7. FlagsInv' /\ UniqueInv' /\ OpenInv' /\ TodoInv' /\ FramesInv' /\ GieInv'
    <3>1. FlagsInv' /\ TodoInv' /\ GieInv'
      BY <2>6 DEF ServeInv, FlagsInv, TodoInv, GieInv
    <3>2. UniqueInv'
      BY <2>6 DEF ServeInv, UniqueInv, Busy
    <3>3. OpenInv'
      BY <2>6 DEF ServeInv, OpenInv, Rearming, Busy
    <3>4. FramesInv'
      BY <2>6 DEF ServeInv, FramesInv, Flagged
    <3> QED BY <3>1, <3>2, <3>3, <3>4
  <2>8. RearmInv'
    BY <2>1 DEF RearmInv, Rearming
  <2>9. SlotsStayInside'
    BY <2>1 DEF ServeInv, SlotsStayInside
  <2> QED BY <1>13, <2>1, <2>4, <2>5, <2>7, <2>8, <2>9 DEF ServeInv
<1>5. CASE Fill
  <2> DEFINE c == main.mob
  <2>1. /\ check.pc = "idle" /\ main.pc = "fill" /\ UNCHANGED <<curMObNum, intUsage, gie, msgPointers, check, bookVars>>
        /\ main'.pc = "start" /\ main'.msg = main.msg /\ main'.mob = c
        /\ mob' = [mob EXCEPT ![c].msg = main.msg]
    BY <1>0, <1>1, <1>5 DEF Fill, MainTyped
  <2>2. ~Busy(c) /\ c \in Mob
    BY <1>1, <2>1 DEF ServeInv, MainInv
  <2> HIDE DEF c
  <2>3. /\ \A i \in Mob : i # c => mob'[i] = mob[i]
        /\ mob'[c].msg = main.msg /\ mob'[c].en = FALSE /\ mob'[c].flags = {}
    BY <1>1, <2>1, <2>2 DEF Busy, MobsTyped, MobRecord
  <2>4. \A i \in Mob : Busy(i)' <=> Busy(i) /\ i # c
    BY <2>2, <2>3 DEF Busy
  <2>5. MainInv'
    BY <2>1, <2>2, <2>3, <2>4 DEF ServeInv, MainInv, Busy, bookVars, c
  <2>6. FlagsInv' /\ OwnInv' /\ UniqueInv'
    BY <2>1, <2>2, <2>3, <2>4 DEF ServeInv, FlagsInv, OwnInv, UniqueInv, bookVars
  <2>7. OpenInv' /\ RearmInv' /\ GieInv'
    BY <2>1, <2>2, <2>3, <2>4 DEF ServeInv, OpenInv, RearmInv, Rearming, GieInv, bookVars
  <2>8. FramesInv'
    <3>1. \A m \in Message : Flagged(m)' <=> Flagged(m)
      BY <2>2, <2>3 DEF Flagged, Busy
    <3> QED BY <2>1, <3>1 DEF ServeInv, FramesInv, bookVars
  <2>9. TodoInv'
    BY <1>1, <2>1, <2>2, <2>3 DEF ServeInv, TodoInv, Busy
  <2>10. SlotsStayInside' /\ SearchInv' /\ FoundInv'
    BY <1>13, <2>1 DEF ServeInv, SlotsStayInside
  <2> QED BY <2>5, <2>6, <2>7, <2>8, <2>9, <2>10 DEF ServeInv
<1>6. CASE Start
  <2> DEFINE c == main.mob
             r == Started(mob[c], Config(main.op))
  <2>1. /\ check.pc = "idle" /\ main.pc = "start" /\ main'.pc = "idle"
        /\ UNCHANGED <<curMObNum, intUsage, gie, msgPointers, check, done, told>>
        /\ mob' = [mob EXCEPT ![c] = r] /\ open' = open \cup {main.msg}
    BY <1>0, <1>1, <1>6 DEF Start, MainTyped, Idle, msgVars
  <2>2. /\ ~Busy(c) /\ c \in Mob /\ c < MaxMsgs /\ msgPointers[c] = main.msg /\ c \in intUsage
        /\ mob[c].msg = main.msg /\ main.msg \notin open /\ main.msg \in Message
    BY <1>1, <2>1 DEF ServeInv, MainInv, TypeInv, MainBounded
  <2>3. r.en = TRUE /\ r.flags = mob[c].flags /\ r.msg = mob[c].msg /\ r.config # "disabled"
    <3>1. mob[c] \in MobRecord
      BY <1>1, <2>2 DEF MobsTyped
    <3>2. Config(main.op) \in {"tx", "rx", "reply"}
      BY <2>1, OpIs DEF Config, TypeInv, MainBounded
    <3> QED BY <3>1, <3>2, StartedType
  <2> HIDE DEF r, c
  <2>4. /\ \A i \in Mob : i # c => mob'[i] = mob[i]
        /\ mob'[c].en /\ mob'[c].flags = {} /\ mob'[c].msg = main.msg /\ mob'[c].config # "disabled"
    BY <1>1, <2>1, <2>2, <2>3 DEF Busy, MobsTyped
  <2>5. \A i \in Mob : Busy(i)' <=> Busy(i) \/ i = c
    BY <2>2, <2>4 DEF Busy
  <2>6. \A i \in Mob : Busy(i) => mob[i].msg # main.msg
    BY <2>2 DEF ServeInv, OwnInv
  <2>7. FlagsInv' /\ OwnInv' /\ UniqueInv'
    BY <2>1, <2>2, <2>4, <2>5, <2>6 DEF ServeInv, FlagsInv, OwnInv, UniqueInv
  <2>8. OpenInv' /\ RearmInv' /\ GieInv' /\ MainInv'
    BY <2>1, <2>2, <2>4, <2>5, <2>6 DEF ServeInv, OpenInv, RearmInv, Rearming, GieInv, MainInv
  <2>9. FramesInv'
    <3>1. \A m \in Message : Flagged(m)' <=> Flagged(m)
      BY <2>2, <2>4 DEF Flagged, Busy
    <3> QED BY <2>1, <3>1 DEF ServeInv, FramesInv
  <2>10. TodoInv'
    BY <1>1, <2>1, <2>2, <2>4 DEF ServeInv, TodoInv, Busy
  <2>11. SlotsStayInside' /\ SearchInv' /\ FoundInv'
    BY <1>13, <2>1 DEF ServeInv, SlotsStayInside
  <2> QED BY <2>7, <2>8, <2>9, <2>10, <2>11 DEF ServeInv
<1>7. CASE Restart
  BY <1>7 DEF Restart, Documented, TypeInv, BookTyped
<1>8. ASSUME NEW m \in Message, Call(m) PROVE ServeInv'
  <2>1. /\ m \notin open /\ UNCHANGED <<hwVars, msgVars, check, bookVars>> /\ check.pc = "idle"
        /\ main'.pc = "search" /\ main'.mob = 0 /\ main'.msg = m
    BY <1>8 DEF Call, MayUse, Idle
  <2>2. MainInv' /\ FoundInv'
    BY <2>1 DEF MainInv, FoundInv, bookVars
  <2>3. SearchInv'
    <3>1. Passed' = {}
      BY <2>1 DEF Passed
    <3> QED BY <3>1 DEF SearchInv
  <2> QED BY <2>1, <2>2, <2>3 DEF ServeInv, FlagsInv, OwnInv, UniqueInv, OpenInv, RearmInv, Rearming, TodoInv,
                 FramesInv, Flagged, GieInv, Busy, SlotsStayInside, hwVars, msgVars, bookVars
<1>10. CASE Probe
  <2> DEFINE i == main.mob
  <2>1. /\ check.pc = "idle" /\ main.pc = "search" /\ UNCHANGED <<hwVars, msgVars, check, bookVars>>
        /\ ~Rearms(i) /\ i \in Mob /\ i \in Nat
    BY <1>10, <1>1 DEF Probe, Documented
  <2>2. \/ ~mob[i].en /\ main' = [main EXCEPT !.pc = "page"]
        \/ mob[i].en /\ main' = [main EXCEPT !.mob = i + 1]
        \/ main' = Idle
    <3>1. mob[i].en \in BOOLEAN
      BY <1>1, <2>1 DEF MobsTyped, MobRecord
    <3> QED BY <1>10, <3>1 DEF Probe, Available
  <2>3. main.msg \notin open /\ main.msg \in Message
    BY <2>1 DEF ServeInv, MainInv, TypeInv, MainBounded
  <2>4. SearchInv' /\ FoundInv' /\ MainInv'
    <3>1. CASE ~mob[i].en /\ main' = [main EXCEPT !.pc = "page"]
      <4>1. main'.pc = "page" /\ main'.mob = i /\ main'.msg = main.msg /\ Passed' = Passed
        BY <1>1, <3>1 DEF MainTyped, Passed
      <4>2. mob[i].flags # {} => msgPointers[i] \notin cyclic \cup autoReply
        BY <2>1, FlagsInterrupt DEF Rearms
      <4>3. MainInv' /\ FoundInv'
        BY <2>1, <2>3, <3>1, <4>1, <4>2 DEF MainInv, FoundInv, hwVars, msgVars, bookVars
      <4>4. SearchInv'
        BY <2>1, <4>1 DEF ServeInv, SearchInv, Rearming, Busy, hwVars, bookVars
      <4> QED BY <4>3, <4>4
    <3>2. CASE mob[i].en /\ main' = [main EXCEPT !.mob = i + 1]
      <4>1. main'.pc = "search" /\ main'.mob = i + 1 /\ main'.msg = main.msg
        BY <1>1, <2>1, <3>2 DEF MainTyped
      <4>2. Passed' = Passed \cup {i} /\ i \notin Passed
        BY <2>1, <4>1 DEF Passed
      <4>3. Busy(i) /\ mob[i].msg \in open /\ mob[i].msg \in Message \ {main.msg}
        BY <2>1, <2>3, <3>2 DEF Busy, ServeInv, OwnInv, TypeInv, BookTyped
      <4>4. \A j \in Passed : mob[j].msg # mob[i].msg
        <5> SUFFICES ASSUME NEW j \in Passed, mob[j].msg = mob[i].msg PROVE FALSE
          OBVIOUS
        <5>1. Busy(j)
          BY <2>1, <4>3 DEF ServeInv, SearchInv, Rearming
        <5>2. j \in Mob /\ j # i
          BY <2>1, <4>2 DEF Passed, Mob
        <5> QED BY <2>1, <4>3, <5>1, <5>2 DEF ServeInv, UniqueInv
      <4>5. UNCHANGED <<mob, curMObNum, check, open>>
        BY <2>1 DEF hwVars, bookVars
      <4> HIDE DEF i
      <4>6. SearchInv'
        BY <2>1, <4>1, <4>2, <4>3, <4>4, <4>5 DEF ServeInv, SearchInv, Rearming, Busy
      <4>7. MainInv' /\ FoundInv'
        BY <2>3, <4>1, <4>5 DEF MainInv, FoundInv
      <4> QED BY <4>6, <4>7
    <3>3. CASE main' = Idle
      BY <1>13, <3>3 DEF MainInv, Idle
    <3> QED BY <2>2, <3>1, <3>2, <3>3
  <2>5. RearmInv' /\ TodoInv'
    BY <2>1 DEF ServeInv, RearmInv, Rearming, TodoInv, hwVars
  <2>6. UNCHANGED <<mob, intUsage, gie, msgPointers, open, done, told, check>>
    BY <2>1 DEF hwVars, msgVars, bookVars
  <2>7. FlagsInv' /\ OwnInv' /\ UniqueInv' /\ OpenInv' /\ FramesInv' /\ GieInv' /\ SlotsStayInside'
    BY <2>1, <2>6 DEF ServeInv, FlagsInv, OwnInv, UniqueInv, OpenInv, Rearming, FramesInv, Flagged, GieInv,
                      Busy, SlotsStayInside
  <2> QED BY <2>4, <2>5, <2>7 DEF ServeInv
<1>11. CASE TakePage
  <2>1. /\ check.pc = "idle" /\ main.pc = "page" /\ ~Interrupt
        /\ UNCHANGED <<mob, intUsage, gie, msgVars, check, bookVars>>
        /\ \/ main'.pc = "pointer" /\ main'.mob = main.mob /\ main'.msg = main.msg
           \/ main'.pc = "idle"
    BY <1>11, <1>1 DEF TakePage, MainTyped, Idle
  <2>2. main.mob < MaxMsgs /\ main.mob \in Mob
    BY <1>1, <2>1, SlotLeft DEF ServeInv, TypeInv
  <2>3. ~Busy(main.mob)
    BY <2>1, <2>2, FlagsInterrupt DEF ServeInv, FoundInv, Busy
  <2>4. MainInv'
    BY <2>1, <2>2, <2>3 DEF ServeInv, MainInv, Busy, bookVars
  <2>5. RearmInv' /\ TodoInv' /\ OpenInv'
    BY <2>1 DEF ServeInv, RearmInv, Rearming, TodoInv, OpenInv, Busy, bookVars
  <2> QED BY <1>13, <2>1, <2>4, <2>5 DEF ServeInv, FlagsInv, OwnInv, UniqueInv,
                 FramesInv, Flagged, GieInv, Busy, SlotsStayInside, msgVars, bookVars
<1>9. ASSUME NEW m \in Message, StopAutoReply(m) PROVE ServeInv'
  BY <1>9, <1>13 DEF StopAutoReply, ServeInv, FlagsInv, OwnInv, UniqueInv, OpenInv, RearmInv, Rearming, TodoInv,
              MainInv, FramesInv, Flagged, GieInv, Busy, SlotsStayInside, hwVars, bookVars
<1> QED BY <1>2, <1>3, <1>4, <1>5, <1>6, <1>7, <1>8, <1>9, <1>10, <1>11 DEF MainNext, MainStep

\* The next MOb of checkEvents() is in use, and its event is the end of its frame.
LEMMA NextMob ==
  ASSUME Documented, TypeInv, ServeInv, NEW i \in Mob, NEW event, At(event, i)
  PROVE  /\ i \in check.todo /\ check.pc = "scan" /\ Busy(i) /\ ~mob[i].en
         /\ event = OkFlag(mob[i].msg) /\ mob[i].flags = {event} /\ mob[i].msg \in Message
         /\ msgPointers[i] = mob[i].msg /\ i < MaxMsgs /\ i \in intUsage
         /\ mob[i].msg \in open /\ Flagged(mob[i].msg) /\ curMObNum' = i
         /\ Prepares => i # main.mob
         /\ main.pc = "page" /\ i = main.mob => msgPointers[i] \notin cyclic \cup autoReply
<1> USE CallFields, MobFacts
<1>1. check.todo \in SUBSET Nat /\ check.todo # {} /\ i = Min(check.todo) /\ check.pc = "scan" /\ curMObNum' = i
      /\ event = GetEvent(mob[i].flags)
  BY DEF At, TypeInv
<1>2. i \in check.todo
  BY <1>1, MinIs
<1>3. mob[i].flags # {}
  BY <1>2 DEF ServeInv, TodoInv
<1> DEFINE m == mob[i].msg
<1>4. Busy(i) /\ ~mob[i].en /\ m \in Message /\ m \in open /\ msgPointers[i] = m /\ i < MaxMsgs
      /\ i \in intUsage
  BY <1>3 DEF Busy, ServeInv, OwnInv, FlagsInv, TypeInv, BusyBounded
<1>5. mob[i].flags = {OkFlag(m)}
  BY <1>3 DEF ServeInv, FlagsInv
<1>6. event = OkFlag(m)
  <2> DEFINE K == {k \in DOMAIN FlagOrder : FlagOrder[k] \in mob[i].flags}
  <2>1. OkFlag(m) \in {"receiveOk", "transmitOk"}
    BY DEF OkFlag
  <2>2. \E k \in {6, 7} : K = {k} /\ FlagOrder[k] = OkFlag(m)
    BY <1>5, <2>1, FlagFacts
  <2>3. event = FlagOrder[Min(K)]
    BY <1>1, <1>3 DEF GetEvent
  <2> HIDE DEF K
  <2>4. \A k \in {6, 7} : K = {k} => Min(K) = k
    BY MinIs
  <2> QED BY <2>2, <2>3, <2>4
<1>7. Flagged(m)
  BY <1>3 DEF Flagged
<1>8. Prepares => i # main.mob
  BY <1>4 DEF ServeInv, MainInv
<1>9. main.pc = "page" /\ i = main.mob => msgPointers[i] \notin cyclic \cup autoReply
  BY <1>3 DEF ServeInv, FoundInv
<1> QED BY <1>1, <1>2, <1>4, <1>5, <1>6, <1>7, <1>8, <1>9

\* One frame is told to its message.
LEMMA FrameTold ==
  ASSUME FramesInv, UniqueInv, told \in [Message -> Nat], NEW i \in Mob, mob[i].flags # {}, mob[i].msg \in Message,
         told' = [told EXCEPT ![mob[i].msg] = @ + 1], done' = done,
         \A j \in Mob : j # i => mob'[j] = mob[j], mob'[i].flags = {}
  PROVE  FramesInv'
<1>6. PICK m \in Message : m = mob[i].msg
  OBVIOUS
<1>0. ASSUME NEW j \in Mob, j # i, mob[j].flags # {}, mob[j].msg = m PROVE FALSE
  BY <1>0, <1>6 DEF UniqueInv, Busy
<1>1. Flagged(m) /\ ~Flagged(m)'
  <2>1. Flagged(m)
    BY <1>6 DEF Flagged
  <2>2. ASSUME NEW j \in Mob, mob'[j].flags # {}, mob'[j].msg = m PROVE FALSE
    BY <1>0, <2>2
  <2> QED BY <2>1, <2>2 DEF Flagged
<1>2. \A n \in Message : n # m => (Flagged(n)' <=> Flagged(n))
  BY <1>6 DEF Flagged
<1>3. told'[m] = told[m] + 1 /\ \A n \in Message : n # m => told'[n] = told[n]
  BY <1>6
<1>5. ASSUME NEW n \in Message PROVE done'[n] = IF Flagged(n)' THEN told'[n] + 1 ELSE told'[n]
  BY <1>1, <1>2, <1>3 DEF FramesInv
<1> QED BY <1>5 DEF FramesInv

\* The MOb of an event afterwards: its flag is taken, it stays off or is on again.
LEMMA HandledMob ==
  ASSUME Documented, TypeInv, ServeInv, NEW i \in Mob, NEW event, At(event, i)
  PROVE  /\ Taken(i).flags = {} /\ Taken(i).en = FALSE /\ Taken(i).msg = mob[i].msg
         /\ Freed(Taken(i)).flags = {} /\ Freed(Taken(i)).en = FALSE /\ Freed(Taken(i)).msg = mob[i].msg
         /\ LET s == Started(Taken(i), "reply")
            IN  s.flags = {} /\ s.en = TRUE /\ s.msg = mob[i].msg /\ s.config # "disabled"
         /\ DOMAIN mob = Mob
<1>1. mob[i].flags = {event} /\ event = GetEvent(mob[i].flags) /\ mob[i].en = FALSE
  <2>1. mob[i].flags = {event} /\ ~mob[i].en
    BY NextMob
  <2>2. mob[i].en \in BOOLEAN
    BY DEF TypeInv, MobsTyped, MobRecord
  <2> QED BY <2>1, <2>2 DEF At
<1>2. MobsTyped
  BY DEF TypeInv
<1>3. Taken(i) \in MobRecord /\ Taken(i).flags = {} /\ Taken(i).en = FALSE /\ Taken(i).msg = mob[i].msg
  BY <1>1, <1>2, TakenIs
<1>4. Freed(Taken(i)).flags = {} /\ Freed(Taken(i)).en = FALSE /\ Freed(Taken(i)).msg = mob[i].msg
  BY <1>1, <1>2, <1>3, TakenIs
<1>5. LET s == Started(Taken(i), "reply")
      IN  s.flags = {} /\ s.en = TRUE /\ s.msg = mob[i].msg /\ s.config # "disabled"
  BY <1>3, StartedType
<1> QED BY <1>2, <1>3, <1>4, <1>5 DEF MobsTyped

\* The MOb of an event is finished with.
LEMMA ServeReleased ==
  ASSUME Documented, TypeInv, ServeInv, NEW i \in Mob, NEW event, At(event, i), Release(i),
         NEW pc \in {"received", "callback"}, Scan(pc, i),
         pc = "received" => msgPointers[i] \notin cyclic,
         told' = [told EXCEPT ![msgPointers[i]] = @ + 1],
         UNCHANGED <<gie, msgVars, main, restarts, done>>
  PROVE  ServeInv'
<1> USE CallFields, MobFacts
<1> DEFINE m == mob[i].msg
<1>1. /\ i \in check.todo /\ check.pc = "scan" /\ Busy(i) /\ m \in Message /\ mob[i].flags # {}
      /\ msgPointers[i] = m /\ i < MaxMsgs /\ i \in intUsage
      /\ m \in open /\ curMObNum' = i
      /\ Prepares => i # main.mob
  BY NextMob
<1>2. MobsTyped /\ CheckTyped /\ MainTyped /\ told \in [Message -> Nat]
  BY DEF TypeInv, BookTyped
<1>3. /\ \A j \in Mob : j # i => mob'[j] = mob[j]
      /\ mob'[i].flags = {} /\ mob'[i].en = FALSE /\ mob'[i].msg = m
  <2>1. mob' = [mob EXCEPT ![i] = Freed(Taken(i))] /\ DOMAIN mob = Mob
    BY HandledMob DEF Release
  <2>2. Freed(Taken(i)).flags = {} /\ Freed(Taken(i)).en = FALSE /\ Freed(Taken(i)).msg = m
    BY HandledMob
  <2> QED BY <2>1, <2>2
<1>4. intUsage' = intUsage \ {i} /\ open' = open \ {m}
  BY <1>1 DEF Release
<1>5. check'.pc = pc /\ check'.todo = check.todo \ {i} /\ check'.msg = m
  BY <1>1, <1>2 DEF Scan, CheckTyped
<1>6. UNCHANGED <<gie, msgPointers, autoReply, cyclic, main, done>>
  BY DEF msgVars
<1> HIDE DEF m
<1>7. \A j \in Mob : Busy(j)' <=> Busy(j) /\ j # i
  BY <1>3 DEF Busy
<1>8. \A j \in Mob : Busy(j) /\ j # i => mob[j].msg # m
  BY <1>1 DEF ServeInv, UniqueInv, m
<1>9. FlagsInv' /\ OwnInv' /\ UniqueInv'
  BY <1>3, <1>4, <1>6, <1>7, <1>8 DEF ServeInv, FlagsInv, OwnInv, UniqueInv
<1>10. OpenInv'
  <2> SUFFICES ASSUME NEW n \in open, n # m PROVE \E j \in Mob : Busy(j)' /\ mob'[j].msg = n
    BY <1>4 DEF OpenInv
  <2>1. PICK j \in Mob : Busy(j) /\ mob[j].msg = n
    BY <1>1 DEF ServeInv, OpenInv, Rearming
  <2>2. j # i
    BY <2>1 DEF m
  <2> QED BY <1>3, <1>7, <2>1, <2>2
<1>11. RearmInv'
  <2>1. Rearming' => m \notin cyclic
    BY <1>1, <1>5 DEF Rearming
  <2> QED BY <2>1, <1>1, <1>3, <1>4, <1>5, <1>6, <1>7, <1>8 DEF RearmInv, Rearming, Prepares
<1>12. TodoInv' /\ GieInv'
  BY <1>2, <1>3, <1>5, <1>6 DEF ServeInv, TodoInv, GieInv
<1>13. MainInv'
  BY <1>1, <1>2, <1>3, <1>4, <1>6, <1>7 DEF ServeInv, MainInv, Prepares
<1>14. FramesInv'
  <2>1. told' = [told EXCEPT ![mob[i].msg] = @ + 1] /\ mob[i].msg \in Message
    BY <1>1 DEF m
  <2> QED BY <1>1, <1>2, <1>3, <1>6, <2>1, FrameTold DEF ServeInv
<1>15. SearchInv'
  <2>1. ~Rearming
    BY <1>1 DEF Rearming
  <2>2. \A j \in Mob : mob'[j].msg = mob[j].msg
    BY <1>3 DEF m
  <2>3. \A j \in Mob : mob[j].msg \in open' /\ Busy(j) => Busy(j)'
    BY <1>4, <1>7 DEF m
  <2> QED BY <1>2, <1>4, <1>6, <2>1, <2>2, <2>3, SearchKept DEF ServeInv
<1>16. FoundInv' /\ SlotsStayInside'
  BY <1>1, <1>2, <1>3, <1>6 DEF ServeInv, FoundInv, SlotsStayInside
<1> QED BY <1>9, <1>10, <1>11, <1>12, <1>13, <1>14, <1>15, <1>16 DEF ServeInv

\* A cyclic reception: its MOb waits for the next start.
LEMMA ServeReceived ==
  ASSUME Documented, TypeInv, ServeInv, NEW i \in Mob, At("receiveOk", i), Scan("received", i),
         msgPointers[i] \in cyclic, mob' = [mob EXCEPT ![i] = Taken(i)],
         told' = [told EXCEPT ![msgPointers[i]] = @ + 1],
         UNCHANGED <<gie, intUsage, open, msgVars, main, restarts, done>>
  PROVE  ServeInv'
<1> USE CallFields, MobFacts
<1> DEFINE m == mob[i].msg
<1>1. /\ i \in check.todo /\ check.pc = "scan" /\ Busy(i) /\ m \in Message /\ mob[i].flags # {}
      /\ msgPointers[i] = m /\ i < MaxMsgs /\ i \in intUsage
      /\ m \in open /\ curMObNum' = i
      /\ Prepares => i # main.mob
      /\ main.pc = "page" => i # main.mob
  BY NextMob
<1>2. MobsTyped /\ CheckTyped /\ MainTyped /\ told \in [Message -> Nat]
  BY DEF TypeInv, BookTyped
<1>3. /\ \A j \in Mob : j # i => mob'[j] = mob[j]
      /\ mob'[i].flags = {} /\ mob'[i].en = FALSE /\ mob'[i].msg = m
  <2>1. Taken(i).flags = {} /\ Taken(i).en = FALSE /\ Taken(i).msg = m /\ DOMAIN mob = Mob
    BY HandledMob
  <2> QED BY <2>1
<1>5. check'.pc = "received" /\ check'.todo = check.todo \ {i} /\ check'.msg = m
  BY <1>1, <1>2 DEF Scan, CheckTyped
<1>6. UNCHANGED <<gie, intUsage, open, msgPointers, autoReply, cyclic, main, done>> /\ m \in cyclic
  BY <1>1 DEF msgVars
<1> HIDE DEF m
<1>7. \A j \in Mob : Busy(j)' <=> Busy(j) /\ j # i
  BY <1>3 DEF Busy
<1>8. \A j \in Mob : Busy(j) /\ j # i => mob[j].msg # m
  BY <1>1 DEF ServeInv, UniqueInv, m
<1>9. FlagsInv' /\ OwnInv' /\ UniqueInv'
  BY <1>3, <1>6, <1>7, <1>8 DEF ServeInv, FlagsInv, OwnInv, UniqueInv
<1>10. OpenInv'
  <2> SUFFICES ASSUME NEW n \in open, n # m PROVE \E j \in Mob : Busy(j)' /\ mob'[j].msg = n
    BY <1>5, <1>6 DEF OpenInv, Rearming
  <2>1. PICK j \in Mob : Busy(j) /\ mob[j].msg = n
    BY <1>1 DEF ServeInv, OpenInv, Rearming
  <2>2. j # i
    BY <2>1 DEF m
  <2> QED BY <1>3, <1>7, <2>1, <2>2
<1>11. RearmInv'
  BY <1>1, <1>3, <1>5, <1>6, <1>7, <1>8 DEF RearmInv, Rearming, Prepares
<1>12. TodoInv' /\ GieInv'
  BY <1>2, <1>3, <1>5, <1>6 DEF ServeInv, TodoInv, GieInv
<1>13. MainInv'
  BY <1>1, <1>2, <1>3, <1>6, <1>7 DEF ServeInv, MainInv, Prepares
<1>14. FramesInv'
  <2>1. told' = [told EXCEPT ![mob[i].msg] = @ + 1] /\ mob[i].msg \in Message
    BY <1>1 DEF m
  <2> QED BY <1>1, <1>2, <1>3, <1>6, <2>1, FrameTold DEF ServeInv
<1>15. SearchInv'
  <2>1. ~Rearming /\ (Rearming /\ curMObNum = i)'
    BY <1>1, <1>5 DEF Rearming
  <2>2. \A j \in Mob : mob'[j].msg = mob[j].msg
    BY <1>3 DEF m
  <2>3. \A j \in Mob : Busy(j) => Busy(j)' \/ j = i
    BY <1>7
  <2> QED BY <1>2, <1>6, <2>1, <2>2, <2>3, SearchKept DEF ServeInv
<1>16. FoundInv' /\ SlotsStayInside'
  BY <1>1, <1>2, <1>3, <1>6 DEF ServeInv, FoundInv, SlotsStayInside
<1> QED BY <1>9, <1>10, <1>11, <1>12, <1>13, <1>14, <1>15, <1>16 DEF ServeInv

\* An automatic reply has gone out; its MOb is on again.
LEMMA ServeReplied ==
  ASSUME Documented, TypeInv, ServeInv, NEW i \in Mob, At("transmitOk", i), Scan("scan", i),
         msgPointers[i] \in autoReply,
         mob' = [mob EXCEPT ![i] = Started(Taken(i), "reply")],
         told' = [told EXCEPT ![msgPointers[i]] = @ + 1],
         UNCHANGED <<gie, intUsage, open, msgVars, main, restarts, done>>
  PROVE  ServeInv'
<1> USE CallFields, MobFacts
<1> DEFINE m == mob[i].msg
<1>1. /\ i \in check.todo /\ check.pc = "scan" /\ Busy(i) /\ m \in Message /\ mob[i].flags # {}
      /\ msgPointers[i] = m
      /\ Prepares => i # main.mob
      /\ main.pc = "page" => i # main.mob
  BY NextMob
<1>2. MobsTyped /\ CheckTyped /\ MainTyped /\ told \in [Message -> Nat]
  BY DEF TypeInv, BookTyped
<1>3. /\ \A j \in Mob : j # i => mob'[j] = mob[j]
      /\ mob'[i].flags = {} /\ mob'[i].en = TRUE /\ mob'[i].msg = m /\ mob'[i].config # "disabled"
  <2> DEFINE r == Started(Taken(i), "reply")
  <2>1. r.flags = {} /\ r.en = TRUE /\ r.msg = m /\ r.config # "disabled" /\ DOMAIN mob = Mob
    BY HandledMob
  <2> HIDE DEF r
  <2>2. mob' = [mob EXCEPT ![i] = r]
    BY DEF r
  <2> QED BY <2>1, <2>2
<1>5. check'.pc = "scan" /\ check'.todo = check.todo \ {i}
  BY <1>1, <1>2 DEF Scan, CheckTyped
<1>6. UNCHANGED <<gie, intUsage, open, msgPointers, autoReply, cyclic, main, done>>
  BY DEF msgVars
<1>7. \A j \in Mob : Busy(j)' <=> Busy(j)
  BY <1>1, <1>3 DEF Busy
<1>8. \A j \in Mob : mob'[j].msg = mob[j].msg
  BY <1>3
<1>9. FlagsInv' /\ OwnInv' /\ UniqueInv'
  BY <1>3, <1>6, <1>7, <1>8 DEF ServeInv, FlagsInv, OwnInv, UniqueInv
<1>10. OpenInv' /\ RearmInv'
  BY <1>1, <1>5, <1>6, <1>7, <1>8 DEF ServeInv, OpenInv, RearmInv, Rearming
<1>12. TodoInv' /\ GieInv'
  BY <1>2, <1>3, <1>5, <1>6 DEF ServeInv, TodoInv, GieInv
<1>13. MainInv'
  BY <1>2, <1>6, <1>7, <1>8 DEF ServeInv, MainInv, Prepares
<1>14. FramesInv'
  BY <1>1, <1>2, <1>3, <1>6, FrameTold DEF ServeInv
<1>15. SearchInv'
  <2>1. ~Rearming
    BY <1>1 DEF Rearming
  <2> QED BY <1>2, <1>6, <1>7, <1>8, <2>1, SearchKept DEF ServeInv
<1>16. FoundInv' /\ SlotsStayInside'
  BY <1>1, <1>2, <1>3, <1>6 DEF ServeInv, FoundInv, SlotsStayInside
<1> QED BY <1>9, <1>10, <1>12, <1>13, <1>14, <1>15, <1>16 DEF ServeInv

LEMMA ServeCheck ==
  ASSUME Documented, TypeInv, PageInv, ServeInv, CheckNext
  PROVE  ServeInv'
<1> USE CallFields, MobFacts
<1>0. MainTyped /\ CheckTyped /\ MobsTyped
  BY DEF TypeInv
<1>1. CASE CheckBegin
  <2>1. /\ check'.pc = "scan" /\ check'.todo = MObsIntActive
        /\ UNCHANGED <<hwVars, msgVars, main, bookVars>> /\ check.pc = "idle"
    BY <1>1 DEF CheckBegin, Resting
  <2>2. TodoInv'
    BY <2>1 DEF TodoInv, MObsIntActive, hwVars
  <2>3. ~Rearming /\ ~Rearming'
    BY <2>1 DEF Rearming
  <2>4. SearchInv' /\ FoundInv' /\ SlotsStayInside'
    BY <2>1, <2>3 DEF ServeInv, SearchInv, Searches, Passed, FoundInv, SlotsStayInside, Busy, hwVars, msgVars, bookVars
  <2> QED BY <2>1, <2>2, <2>3, <2>4 DEF ServeInv, FlagsInv, OwnInv, UniqueInv, OpenInv, RearmInv, MainInv,
                 Prepares, FramesInv, Flagged, GieInv, Busy, hwVars, msgVars, bookVars
<1>2. ASSUME NEW i \in Mob, HandleReceive(i) PROVE ServeInv'
  <2>1. /\ At("receiveOk", i) /\ Scan("received", i)
        /\ told' = [told EXCEPT ![msgPointers[i]] = @ + 1]
        /\ UNCHANGED <<gie, msgVars, main, restarts, done>>
    BY <1>2 DEF HandleReceive
  <2>2. CASE msgPointers[i] \in cyclic
    <3>1. mob' = [mob EXCEPT ![i] = Taken(i)] /\ UNCHANGED <<intUsage, open>>
      BY <1>2, <2>2 DEF HandleReceive
    <3> QED BY <2>1, <2>2, <3>1, ServeReceived
  <2>3. CASE msgPointers[i] \notin cyclic
    <3>1. Release(i)
      BY <1>2, <2>3 DEF HandleReceive
    <3> QED BY <2>1, <2>3, <3>1, ServeReleased
  <2> QED BY <2>2, <2>3
<1>3. ASSUME NEW i \in Mob, HandleTransmit(i) PROVE ServeInv'
  <2>1. /\ At("transmitOk", i)
        /\ told' = [told EXCEPT ![msgPointers[i]] = @ + 1]
        /\ UNCHANGED <<gie, msgVars, main, restarts, done>>
    BY <1>3 DEF HandleTransmit
  <2>2. CASE msgPointers[i] \in autoReply
    <3>1. /\ mob' = [mob EXCEPT ![i] = Started(Taken(i), "reply")] /\ Scan("scan", i)
          /\ UNCHANGED <<intUsage, open>>
      BY <1>3, <2>2 DEF HandleTransmit
    <3> QED BY <2>1, <2>2, <3>1, ServeReplied
  <2>3. CASE msgPointers[i] \notin autoReply
    <3>1. Release(i) /\ Scan("callback", i)
      BY <1>3, <2>3 DEF HandleTransmit
    <3> QED BY <2>1, <2>3, <3>1, ServeReleased
  <2> QED BY <2>2, <2>3
<1>4. ASSUME NEW i \in Mob, HandleError(i) PROVE ServeInv'
  <2>1. PICK e \in ErrorFlag \cup {"nothing"} : At(e, i)
    BY <1>4 DEF HandleError
  <2>2. e = OkFlag(mob[i].msg)
    BY <2>1, NextMob
  <2> QED BY <2>2, FlagFacts DEF OkFlag
<1>5. CASE CallbackQuiet
  <2>1. /\ check.pc \in {"received", "callback"}
        /\ check'.pc = (IF check.pc = "received" THEN "rearm" ELSE "scan")
        /\ check'.todo = check.todo /\ check'.msg = check.msg
        /\ UNCHANGED <<hwVars, msgVars, main, bookVars>>
    BY <1>0, <1>5 DEF CallbackQuiet, InCallback, Return, CheckTyped
  <2>2. Rearming' <=> Rearming
    BY <2>1 DEF Rearming
  <2>3. SearchInv' /\ FoundInv' /\ SlotsStayInside'
    BY <2>1, <2>2 DEF ServeInv, SearchInv, Searches, Passed, FoundInv, SlotsStayInside, Busy, hwVars, msgVars, bookVars
  <2> QED BY <2>1, <2>2, <2>3 DEF ServeInv, FlagsInv, OwnInv, UniqueInv, OpenInv, RearmInv, MainInv, Prepares, TodoInv,
                 FramesInv, Flagged, GieInv, Busy, hwVars, msgVars, bookVars
<1>6. CASE CallbackStopCyclic
  <2> DEFINE m == check.msg
  <2>1. /\ check.pc = "received" /\ check'.pc = "rearm" /\ m \in cyclic
        /\ check'.todo = check.todo /\ check'.msg = m
        /\ cyclic' = cyclic \ {m} /\ open' = open \ {m}
        /\ UNCHANGED <<hwVars, msgPointers, autoReply, main, done, told>>
    BY <1>0, <1>6 DEF CallbackStopCyclic, Return, CheckTyped
  <2>2. Rearming' /\ Rearming
    BY <2>1 DEF Rearming
  <2>3. \A j \in Mob : Busy(j) => mob[j].msg # m
    BY <2>2 DEF ServeInv, RearmInv
  <2> HIDE DEF m
  <2>4. OwnInv' /\ OpenInv'
    BY <2>1, <2>2, <2>3 DEF ServeInv, OwnInv, OpenInv, Busy, hwVars, m
  <2>5. RearmInv'
    BY <2>1, <2>2 DEF ServeInv, RearmInv, Prepares, Busy, hwVars, m
  <2>6. SearchInv' /\ FoundInv' /\ SlotsStayInside'
    BY <2>1, <2>2 DEF ServeInv, SearchInv, Searches, Passed, FoundInv, SlotsStayInside, Busy, hwVars
  <2>7. UNCHANGED <<mob, intUsage, gie, msgPointers, main, done, told>> /\ open' \subseteq open
    BY <2>1 DEF hwVars
  <2>8. FlagsInv' /\ UniqueInv' /\ MainInv' /\ GieInv'
    BY <2>7 DEF ServeInv, FlagsInv, UniqueInv, MainInv, Prepares, GieInv, Busy
  <2>9. TodoInv' /\ FramesInv'
    BY <2>1, <2>7 DEF ServeInv, TodoInv, FramesInv, Flagged
  <2> QED BY <2>4, <2>5, <2>6, <2>8, <2>9 DEF ServeInv
<1>10. CASE CallbackStartCyclic
  BY <1>10 DEF CallbackStartCyclic, Documented
<1>7. ASSUME NEW m \in Message, CallbackCall(m) PROVE ServeInv'
  <2>1. Op(m) \in {"stopCyclic"}
    BY <1>7 DEF CallbackCall, Documented
  <2> QED BY <2>1, OpIs
<1>8. CASE Rearm
  <2> DEFINE c == curMObNum
             r == Started(mob[c], "rx")
  <2>1. /\ check.pc = "rearm" /\ check'.pc = "scan" /\ check'.todo = check.todo
        /\ UNCHANGED <<curMObNum, intUsage, gie, msgVars, main, bookVars>>
    BY <1>0, <1>8 DEF Rearm, CheckTyped
  <2>2. Rearming /\ ~Rearming'
    BY <2>1 DEF Rearming
  <2>3. CASE check.msg \in cyclic
    <3>1. /\ ~Busy(c) /\ c \in Mob /\ c < MaxMsgs /\ msgPointers[c] = check.msg /\ c \in intUsage
          /\ mob[c].msg = check.msg /\ check.msg \in open
          /\ \A j \in Mob : Busy(j) => mob[j].msg # check.msg
          /\ Prepares \/ main.pc = "page" => c # main.mob
      BY <2>2, <2>3 DEF ServeInv, RearmInv, TypeInv, PageTyped
    <3>2. mob' = [mob EXCEPT ![c] = r]
      BY <1>8, <2>3 DEF Rearm
    <3>3. r.en = TRUE /\ r.flags = mob[c].flags /\ r.msg = mob[c].msg /\ r.config # "disabled"
      <4>1. mob[c] \in MobRecord
        BY <1>0, <3>1 DEF MobsTyped
      <4> QED BY <4>1, StartedType
    <3> HIDE DEF r, c
    <3>4. /\ \A i \in Mob : i # c => mob'[i] = mob[i]
          /\ mob'[c].en /\ mob'[c].flags = {} /\ mob'[c].msg = check.msg /\ mob'[c].config # "disabled"
      BY <1>0, <3>1, <3>2, <3>3 DEF Busy, MobsTyped
    <3>5. \A i \in Mob : Busy(i)' <=> Busy(i) \/ i = c
      BY <3>1, <3>4 DEF Busy
    <3>6. FlagsInv' /\ OwnInv' /\ UniqueInv'
      <4>1. FlagsInv'
        BY <3>1, <3>4 DEF ServeInv, FlagsInv
      <4>2. OwnInv'
        BY <2>1, <3>1, <3>4, <3>5 DEF ServeInv, OwnInv, msgVars, bookVars
      <4>3. UniqueInv'
        BY <3>1, <3>4, <3>5 DEF ServeInv, UniqueInv
      <4> QED BY <4>1, <4>2, <4>3
    <3>7. OpenInv' /\ RearmInv' /\ GieInv'
      BY <2>1, <2>2, <3>1, <3>4, <3>5 DEF ServeInv, OpenInv, RearmInv, GieInv, bookVars
    <3>8. MainInv'
      BY <1>0, <2>1, <3>1, <3>4, <3>5 DEF ServeInv, MainInv, Prepares, msgVars, bookVars
    <3>9. FramesInv'
      <4>1. \A m \in Message : Flagged(m)' <=> Flagged(m)
        BY <3>1, <3>4 DEF Flagged, Busy
      <4> QED BY <2>1, <4>1 DEF ServeInv, FramesInv, bookVars
    <3>10. TodoInv'
      <4>1. check.todo \subseteq Mob /\ c \notin check.todo
        BY <1>0, <3>1 DEF ServeInv, TodoInv, Busy
      <4> QED BY <2>1, <3>4, <4>1 DEF ServeInv, TodoInv
    <3>11. SearchInv'
      <4>1. \A j \in Mob : mob'[j].msg = mob[j].msg
        BY <3>1, <3>4
      <4>2. c = curMObNum
        BY DEF c
      <4> QED BY <1>0, <2>1, <3>5, <4>1, <4>2, SearchKept DEF ServeInv, bookVars
    <3>12. FoundInv' /\ SlotsStayInside'
      BY <1>0, <2>1, <3>1, <3>4 DEF ServeInv, FoundInv, SlotsStayInside, msgVars
    <3> QED BY <3>6, <3>7, <3>8, <3>9, <3>10, <3>11, <3>12 DEF ServeInv
  <2>4. CASE check.msg \notin cyclic
    <3>1. mob' = mob /\ check.msg \notin open
      BY <1>8, <2>2, <2>4 DEF Rearm, ServeInv, RearmInv
    <3>2. OpenInv' /\ RearmInv'
      BY <2>1, <2>2, <3>1 DEF ServeInv, OpenInv, RearmInv, Busy, bookVars
    <3>3. UNCHANGED <<mob, intUsage, gie, msgPointers, main, open, done, told>>
      BY <2>1, <3>1 DEF msgVars, bookVars
    <3>4. FlagsInv' /\ OwnInv' /\ UniqueInv' /\ MainInv' /\ GieInv'
      BY <3>3 DEF ServeInv, FlagsInv, OwnInv, UniqueInv, MainInv, Prepares, GieInv, Busy
    <3>6. SearchInv'
      <4>1. mob[curMObNum].msg \notin open
        BY <2>2, <3>1 DEF ServeInv, RearmInv
      <4> QED BY <1>0, <3>3, <4>1, SearchKept DEF ServeInv, Busy
    <3>7. FoundInv' /\ SlotsStayInside'
      BY <2>1, <3>1 DEF ServeInv, FoundInv, SlotsStayInside, msgVars
    <3>5. TodoInv' /\ FramesInv'
      BY <2>1, <3>3 DEF ServeInv, TodoInv, FramesInv, Flagged
    <3> QED BY <3>2, <3>4, <3>5, <3>6, <3>7 DEF ServeInv
  <2> QED BY <2>3, <2>4
<1>9. CASE CheckEnd
  <2>1. /\ check.pc = "scan" /\ check'.pc = "idle" /\ check'.todo = {}
        /\ UNCHANGED <<mob, intUsage, gie, msgVars, main, bookVars>>
    BY <1>9 DEF CheckEnd, Resting
  <2>2. ~Rearming /\ ~Rearming'
    BY <2>1 DEF Rearming
  <2>3. SearchInv' /\ FoundInv' /\ SlotsStayInside'
    BY <2>1, <2>2 DEF ServeInv, SearchInv, Searches, Passed, FoundInv, SlotsStayInside, Busy, msgVars, bookVars
  <2> QED BY <2>1, <2>2, <2>3 DEF ServeInv, FlagsInv, OwnInv, UniqueInv, OpenInv, RearmInv, MainInv, Prepares, TodoInv,
                 FramesInv, Flagged, GieInv, Busy, msgVars, bookVars
<1> QED BY <1>1, <1>2, <1>3, <1>4, <1>5, <1>6, <1>7, <1>8, <1>9, <1>10 DEF CheckNext, CheckStep

\* The bus completes the frame of a MOb that is on.
LEMMA ServeBus ==
  ASSUME Documented, TypeInv, ServeInv, BusNext
  PROVE  ServeInv'
<1> USE CallFields, MobFacts
<1>0. MainTyped /\ CheckTyped /\ MobsTyped /\ done \in [Message -> 0 .. MaxFrames]
  BY DEF TypeInv, BookTyped
<1>1. PICK i \in Mob : Finish(i) /\ mob[i].config # "disabled"
  <2>1. ASSUME NEW i \in Mob PROVE ~MobOff(i)
    BY DEF MobOff, ServeInv, FlagsInv
  <2>2. ASSUME NEW i \in Mob, NEW e PROVE ~BusError(i, e)
    BY DEF BusError, Documented
  <2> QED BY <2>1, <2>2 DEF BusNext, BusComplete
<1>12. PICK m : m = mob[i].msg
  OBVIOUS
<1>2. mob' = [mob EXCEPT ![i] = FinishedMob(mob[i])]
  BY <1>0, <1>1, FinishIs DEF MobsTyped
<1>3. mob[i].en /\ mob[i].flags = {} /\ Busy(i) /\ m \in Message /\ m \in open
  BY <1>12, <1>1 DEF Finish, ServeInv, FlagsInv, Busy, TypeInv, BusyBounded, OwnInv
<1>4. /\ \A j \in Mob : j # i => mob'[j] = mob[j]
      /\ mob'[i].en = FALSE /\ mob'[i].flags = {OkFlag(m)} /\ mob'[i].msg = m
  BY <1>12, <1>0, <1>2, <1>3 DEF FinishedMob, MobsTyped
<1>5. /\ UNCHANGED <<curMObNum, intUsage, gie, msgVars, main, check, open, told>>
      /\ done' = [done EXCEPT ![m] = @ + 1]
  BY <1>12, <1>1 DEF Finish
<1>6. \A j \in Mob : Busy(j)' <=> Busy(j)
  BY <1>3, <1>4 DEF Busy
<1>7. \A j \in Mob : mob'[j].msg = mob[j].msg
  BY <1>4, <1>12
<1>8. FlagsInv' /\ OwnInv' /\ UniqueInv'
  BY <1>4, <1>5, <1>6, <1>7 DEF ServeInv, FlagsInv, OwnInv, UniqueInv, msgVars
<1>9. OpenInv' /\ RearmInv' /\ GieInv'
  BY <1>5, <1>6, <1>7 DEF ServeInv, OpenInv, RearmInv, Rearming, Prepares, GieInv, msgVars, TypeInv, PageTyped
<1>10. MainInv' /\ TodoInv'
  BY <1>0, <1>4, <1>5, <1>6, <1>7 DEF ServeInv, MainInv, Prepares, TodoInv, msgVars
<1>13. SearchInv'
  BY <1>0, <1>5, <1>6, <1>7, SearchKept DEF ServeInv, Rearming
<1>14. FoundInv' /\ SlotsStayInside'
  BY <1>0, <1>3, <1>4, <1>5 DEF ServeInv, FoundInv, SlotsStayInside, msgVars
<1>11. FramesInv'
  <2>1. ~Flagged(m) /\ Flagged(m)'
    <3>1. ASSUME NEW j \in Mob, mob[j].flags # {}, mob[j].msg = m PROVE FALSE
      BY <1>12, <1>3, <3>1 DEF Busy, ServeInv, UniqueInv
    <3>2. ~Flagged(m)
      BY <3>1 DEF Flagged
    <3>3. mob'[i].flags # {} /\ mob'[i].msg = m
      BY <1>4
    <3>4. Flagged(m)'
      BY <3>3 DEF Flagged
    <3> QED BY <3>2, <3>4
  <2>2. \A n \in Message : n # m => (Flagged(n)' <=> Flagged(n))
    BY <1>12, <1>4, <1>3 DEF Flagged
  <2>3. done'[m] = done[m] + 1 /\ \A n \in Message : n # m => done'[n] = done[n]
    BY <1>0, <1>3, <1>5
  <2>4. ASSUME NEW n \in Message PROVE done'[n] = IF Flagged(n)' THEN told'[n] + 1 ELSE told'[n]
    BY <1>5, <2>1, <2>2, <2>3 DEF ServeInv, FramesInv
  <2> QED BY <2>4 DEF FramesInv
<1> QED BY <1>8, <1>9, <1>10, <1>11, <1>13, <1>14 DEF ServeInv

LEMMA ServeNext == ASSUME Documented PROVE TypeInv /\ PageInv /\ ServeInv /\ [Next]_vars => ServeInv'
<1>1. ServeInv /\ UNCHANGED vars => ServeInv'
  BY DEF vars, hwVars, msgVars, bookVars, ServeInv, FlagsInv, OwnInv, UniqueInv, OpenInv, RearmInv, Rearming,
         MainInv, Prepares, SearchInv, Searches, Passed, FoundInv, TodoInv, FramesInv, Flagged, GieInv,
         SlotsStayInside, Busy
<1> QED BY Documented, <1>1, ServeMain, ServeCheck, ServeBus DEF Next

LEMMA ServeInvariant == ASSUME Documented PROVE Spec => [](TypeInv /\ ServeInv)
<1>1. SafeCallbacks
  BY Documented DEF Documented, SafeCallbacks
<1> QED BY <1>1, Documented, PageInit, PageNext, TypeInit, TypeNext, ServeInit, ServeNext, PTL DEF Spec

\* Two calls never hold one MOb: the MOb that main prepares serves no open message,
\* wherever the interrupt comes between the steps of the call, the reads of
\* MObsAvailability and the page write of selectMob() included (can_base.h). Documented
\* names what is excluded; among it the read between the event of a cyclic or replying MOb
\* and the handler that starts it again.
THEOREM MobsApart == ASSUME Documented PROVE Spec => []PreparedMobIsFree
<1>1. TypeInv /\ ServeInv => PreparedMobIsFree
  <2>1. ASSUME ServeInv, Prepares, NEW m \in open, ServedBy(m, main.mob) PROVE FALSE
    BY <2>1 DEF ServeInv, MainInv, ServedBy, Busy
  <2> QED BY <2>1 DEF PreparedMobIsFree
<1> QED BY Documented, <1>1, ServeInvariant, PTL

\* With the driver used as Documented has it no call writes behind
\* msgPointers[maxConcurrentMsgs], although recv() and setAutoReply() test the slot with >
\* (can_handlers.h): selectMob() passes no more MObs than there are other messages.
THEOREM SlotsHold == ASSUME Documented PROVE Spec => []SlotsStayInside
<1>1. TypeInv /\ ServeInv => SlotsStayInside
  BY DEF ServeInv
<1> QED BY Documented, <1>1, ServeInvariant, PTL

\* A message that send(), recv() or setAutoReply() accepted keeps a MOb that will come
\* back to it, until its last event, under Documented.
THEOREM MessagesServed == ASSUME Documented PROVE Spec => []NoMessageStranded
<1>1. TypeInv /\ ServeInv => NoMessageStranded
  <2> SUFFICES ASSUME TypeInv, ServeInv, NEW m \in open, ~(Rearming /\ check.msg = m)
               PROVE  \E i \in Mob : ServedBy(m, i)
    BY DEF NoMessageStranded, Rearming
  <2>1. PICK i \in Mob : Busy(i) /\ mob[i].msg = m
    BY DEF ServeInv, OpenInv
  <2>2. i < MaxMsgs /\ msgPointers[i] = m /\ i \in intUsage
    BY <2>1 DEF ServeInv, OwnInv
  <2>3. (mob[i].en /\ mob[i].config # "disabled") \/ \E f \in mob[i].flags : Class(f) \in gie
    BY Documented, <2>1, FlagsInterrupt DEF Busy, ServeInv, FlagsInv
  <2> QED BY <2>1, <2>2, <2>3 DEF ServedBy
<1> QED BY Documented, <1>1, ServeInvariant, PTL

\* No event is lost, invented or given to another message: every frame of a message has
\* been told to it, but for one whose flag stands in the message's own MOb. Under Documented.
THEOREM FramesAccounted == ASSUME Documented PROVE Spec => []EveryFrameAccounted
<1>1. TypeInv /\ ServeInv => EveryFrameAccounted
  <2> SUFFICES ASSUME TypeInv, ServeInv, NEW m \in Message
               PROVE  done[m] = told[m] + Cardinality({i \in Mob : /\ mob[i].msg = m
                                                                  /\ OkFlag(m) \in mob[i].flags
                                                                  /\ i < MaxMsgs /\ msgPointers[i] = m})
    BY DEF EveryFrameAccounted
  <2> DEFINE S == {i \in Mob : /\ mob[i].msg = m /\ OkFlag(m) \in mob[i].flags
                               /\ i < MaxMsgs /\ msgPointers[i] = m}
  <2>1. told[m] \in Nat
    BY DEF TypeInv, BookTyped
  <2>2. CASE Flagged(m)
    <3>1. PICK i \in Mob : mob[i].flags # {} /\ mob[i].msg = m
      BY <2>2 DEF Flagged
    <3>2. Busy(i) /\ OkFlag(m) \in mob[i].flags /\ i < MaxMsgs /\ msgPointers[i] = m
      BY <3>1 DEF Busy, ServeInv, FlagsInv, OwnInv
    <3>3. \A j \in S : j = i
      BY <3>1, <3>2 DEF ServeInv, UniqueInv, Busy
    <3>4. S = {i}
      BY <3>1, <3>2, <3>3
    <3>5. Cardinality(S) = 1
      BY <3>4, FS_Singleton
    <3> HIDE DEF S
    <3>6. done[m] = told[m] + 1
      BY <2>2 DEF ServeInv, FramesInv
    <3> QED BY <3>5, <3>6 DEF S
  <2>3. CASE ~Flagged(m)
    <3>1. S = {}
      BY <2>3 DEF Flagged
    <3>2. Cardinality(S) = 0
      BY <3>1, FS_EmptySet
    <3> HIDE DEF S
    <3>3. done[m] = told[m]
      BY <2>3 DEF ServeInv, FramesInv
    <3>4. done[m] = told[m] + Cardinality(S)
      BY <2>1, <3>2, <3>3
    <3> QED BY <3>4 DEF S
  <2> QED BY <2>2, <2>3
<1> QED BY Documented, <1>1, ServeInvariant, PTL
=============================================================================
