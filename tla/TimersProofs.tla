---------------------------- MODULE TimersProofs ----------------------------
(***************************************************************************)
(* Clock and one-shot timer, for every length of a period, every width of  *)
(* the counter and every program of callbacks: no tick is lost, getTime()  *)
(* is at most a tick behind, and callbacks come on time.                   *)
(*                                                                         *)
(* The tick flag holds one period, so a second one must not end while it   *)
(* is up.  The argument: the flag goes up when the counter is cleared, an  *)
(* interrupt that waits keeps the processor from being idle, and so the    *)
(* counter is never ahead of the counts that Latency allows.               *)
(***************************************************************************)
EXTENDS TimersProps, TLAPS

Flag == clk.flag[matchA]

Clock == [cnt : 0..MicroTickMax, waveForm : {"ctc"}, blocked : BOOLEAN, started : BOOLEAN,
          ocr : [{matchA} -> {MicroTickMax}], ie : [{matchA} -> BOOLEAN], flag : [{matchA} -> BOOLEAN]]

ClockTypeOK ==
  /\ clk \in Clock /\ clk.started /\ clk.ie[matchA]
  /\ ticks \in 0..(TickMod - 1) /\ full \in 0..(TickMod - 1) /\ late \in 0..Latency

(* What the flag holds: a period that ended no more than late counts ago. *)
ClockInv ==
  /\ ClockTypeOK
  /\ clk.blocked => clk.cnt = 0
  /\ Flag => clk.cnt <= late
  /\ EveryTickCounted

(* Counting modulo M, for numbers below M. *)
LEMMA NextModulo ==
  ASSUME NEW M \in Nat \ {0}, NEW n \in 0..(M - 1)
  PROVE  /\ n % M = n
         /\ (n + 1) % M = IF n = M - 1 THEN 0 ELSE n + 1
<1>1. n % M = n  BY SMT
<1>2. CASE n = M - 1
  <2>1. M % M = 0  BY SMT
  <2>. QED  BY <1>1, <1>2, <2>1, SMT
<1>3. CASE n # M - 1
  <2>1. n + 1 \in 0..(M - 1)  BY <1>3, SMT
  <2>2. (n + 1) % M = n + 1  BY <2>1, SMT
  <2>. QED  BY <1>1, <1>3, <2>2, SMT
<1>. QED  BY <1>2, <1>3

(* The fields of the clock's timer. *)
LEMMA ClockFields ==
  ASSUME clk \in Clock
  PROVE  /\ clk.waveForm = "ctc" /\ DOMAIN clk.flag = {matchA} /\ clk.ocr[matchA] = MicroTickMax
         /\ clk.flag[matchA] \in BOOLEAN /\ clk.cnt \in 0..MicroTickMax /\ clk.blocked \in BOOLEAN
BY SMT DEF Clock

(* Assignments to the fields keep the type; one field at a time for the provers. *)
LEMMA FieldsSet ==
  ASSUME NEW c \in Clock, NEW n \in 0..MicroTickMax, NEW b \in BOOLEAN, NEW f \in [{matchA} -> BOOLEAN]
  PROVE  /\ [c EXCEPT !.cnt = n, !.blocked = b, !.flag = f] \in Clock
         /\ [c EXCEPT !.started = b] \in Clock
<1>1. [c EXCEPT !.cnt = n, !.blocked = b, !.flag = f]
        = [[[c EXCEPT !.cnt = n] EXCEPT !.blocked = b] EXCEPT !.flag = f]  BY Zenon
<1>2. [c EXCEPT !.cnt = n] \in Clock  BY SMT DEF Clock
<1>3. \A d \in Clock : [d EXCEPT !.blocked = b] \in Clock /\ [d EXCEPT !.flag = f] \in Clock
                        /\ [d EXCEPT !.started = b] \in Clock
  <2>. SUFFICES ASSUME NEW d \in Clock
                PROVE  [d EXCEPT !.blocked = b] \in Clock /\ [d EXCEPT !.flag = f] \in Clock
                       /\ [d EXCEPT !.started = b] \in Clock
    OBVIOUS
  <2>1. [d EXCEPT !.blocked = b] \in Clock  BY SMT DEF Clock
  <2>2. [d EXCEPT !.flag = f] \in Clock  BY SMT DEF Clock
  <2>3. [d EXCEPT !.started = b] \in Clock  BY SMT DEF Clock
  <2>. QED  BY <2>1, <2>2, <2>3
<1>. QED  BY <1>1, <1>2, <1>3, Zenon

(* The constructors establish the invariant. *)
LEMMA ClockInit == Init => ClockInv
<1>. SUFFICES ASSUME Init PROVE ClockInv  OBVIOUS
<1>. USE TimersAssumption
<1>. DEFINE new == NewTimer({matchA}, "ctc")
             set == setOutputCompareValue(new, matchA, MicroTickMax)
<1>1. /\ new \in [cnt : {0}, waveForm : {"ctc"}, blocked : BOOLEAN, started : BOOLEAN,
                  ocr : [{matchA} -> {0}], ie : [{matchA} -> BOOLEAN], flag : [{matchA} -> BOOLEAN]]
      /\ new.ie[matchA] /\ ~new.flag[matchA]
  BY SMT DEF NewTimer
<1>. HIDE DEF new
<1>5. set \in Clock /\ set.cnt = 0 /\ set.ie[matchA] /\ ~set.flag[matchA]
  BY <1>1, SMT DEF setOutputCompareValue, Clock
<1>. HIDE DEF set
<1>6. clk = start(set)  BY DEF Init, new, set
<1>3. ClockTypeOK
  <2>. DEFINE yes == TRUE
  <2>2. clk = [set EXCEPT !.started = yes] /\ yes \in BOOLEAN /\ yes  BY <1>6 DEF start
  <2>. HIDE DEF yes
  <2>1. 0 \in 0..MicroTickMax /\ [u \in {matchA} |-> FALSE] \in [{matchA} -> BOOLEAN]  BY SMT
  <2>3. clk \in Clock  BY <1>5, <2>1, <2>2, FieldsSet
  <2>4. clk.started = yes  BY <1>5, <2>2, SMT DEF Clock
  <2>5. clk.ie = set.ie  BY <1>5, <2>2, SMT DEF Clock
  <2>6. clk.started /\ clk.ie[matchA]  BY <1>5, <2>2, <2>4, <2>5
  <2>. QED  BY <2>3, <2>6, SMT DEF ClockTypeOK, Init
<1>4. clk.cnt = 0 /\ ~Flag  BY <1>5, <1>6, SMT DEF start, Clock, Flag
<1>2. full = (ticks + 0) % TickMod  BY NextModulo, SMT DEF Init
<1>. QED  BY <1>2, <1>3, <1>4, SMT DEF ClockInv, EveryTickCounted, Flag, ClockTypeOK, Init

(* What one count does to the clock's timer. *)
LEMMA CountClock ==
  ASSUME ClockInv, Count
  PROVE  /\ clk'.cnt = IF clk.cnt = MicroTickMax THEN 0 ELSE clk.cnt + 1
         /\ Flag' = (Flag \/ clk.cnt = MicroTickMax)
         /\ Flag => clk.cnt # MicroTickMax /\ Busy
         /\ clk' = [clk EXCEPT !.cnt = IF @ = MicroTickMax THEN 0 ELSE (@ + 1) % CounterMod, !.blocked = FALSE,
                         !.flag = [u \in {matchA} |-> clk.flag[u] \/ (~clk.blocked /\ clk.cnt = clk.ocr[u])]]
         /\ Top(clk) = MicroTickMax
<1>. USE TimersAssumption, CounterAssumption
<1>. clk \in Clock  BY DEF ClockInv, ClockTypeOK
<1>1. Top(clk) = MicroTickMax  BY SMT DEF Clock, Top
<1>2. clk' = [clk EXCEPT !.cnt = IF @ = MicroTickMax THEN 0 ELSE (@ + 1) % CounterMod, !.blocked = FALSE,
                         !.flag = [u \in {matchA} |-> clk.flag[u] \/ (~clk.blocked /\ clk.cnt = clk.ocr[u])]]
  <2>. QED  BY <1>1, ClockFields DEF Count, Counted, ClockInv, ClockTypeOK
<1>3. clk'.cnt = IF clk.cnt = MicroTickMax THEN 0 ELSE clk.cnt + 1
  <2>1. clk.cnt # MicroTickMax => (clk.cnt + 1) % CounterMod = clk.cnt + 1
    <3>1. clk.cnt \in 0..(CounterMod - 1) /\ (clk.cnt # MicroTickMax => clk.cnt # CounterMod - 1)  BY ClockFields, SMT
    <3>. QED  BY <3>1, NextModulo
  <2>. QED  BY <1>2, <2>1, SMT DEF Clock
<1>5. Flag' = (Flag \/ clk.cnt = MicroTickMax)
  <2>1. clk.cnt = MicroTickMax => ~clk.blocked  BY SMT DEF ClockInv
  <2>2. Flag' = (clk.flag[matchA] \/ (~clk.blocked /\ clk.cnt = clk.ocr[matchA]))  BY <1>2, SMT DEF Flag, Clock
  <2>3. clk.ocr[matchA] = MicroTickMax  BY SMT DEF Clock
  <2>. QED  BY <2>1, <2>2, <2>3 DEF Flag
<1>6. Flag => clk.cnt # MicroTickMax  BY SMT DEF ClockInv, ClockTypeOK, Clock
<1>7. Flag => Busy  BY ClockFields DEF Flag, Busy, InterruptDue, Due, ClockInv, ClockTypeOK
<1>. QED  BY <1>1, <1>2, <1>3, <1>5, <1>6, <1>7

(* One count of both timers. *)
LEMMA ClockCount == ClockInv /\ Count => ClockInv'
<1>. SUFFICES ASSUME ClockInv, Count PROVE ClockInv'  OBVIOUS
<1>. USE TimersAssumption, CounterAssumption
<1>. clk \in Clock  BY DEF ClockInv, ClockTypeOK
<1>1. Top(clk) = MicroTickMax  BY CountClock
<1>2. clk' = [clk EXCEPT !.cnt = IF @ = MicroTickMax THEN 0 ELSE (@ + 1) % CounterMod, !.blocked = FALSE,
                         !.flag = [u \in {matchA} |-> clk.flag[u] \/ (~clk.blocked /\ clk.cnt = clk.ocr[u])]]
  BY CountClock
<1>3. clk'.cnt = IF clk.cnt = MicroTickMax THEN 0 ELSE clk.cnt + 1  BY CountClock
<1>4. late' \in 0..Latency /\ (Flag => late' = late + 1)
  <2>1. Flag => Busy  BY CountClock
  <2>. QED  BY <2>1, SMT DEF Count, ClockInv, ClockTypeOK
<1>5. Flag' = (Flag \/ clk.cnt = MicroTickMax)  BY CountClock
<1>6. Flag => clk.cnt # MicroTickMax  BY CountClock
<1>7. /\ full' = IF clk.cnt = MicroTickMax THEN (full + 1) % TickMod ELSE full
      /\ ticks' = ticks
  BY <1>1 DEF Count
<1>8. ClockTypeOK'
  <2>1. clk'.flag \in [{matchA} -> BOOLEAN] /\ clk'.cnt \in 0..MicroTickMax
    <3>1. clk'.flag = [u \in {matchA} |-> clk.flag[u] \/ (~clk.blocked /\ clk.cnt = clk.ocr[u])]  BY <1>2 DEF Clock
    <3>2. clk'.cnt \in 0..MicroTickMax  BY <1>3, ClockFields, SMT
    <3>. QED  BY <3>1, <3>2
  <2>2. full' \in 0..(TickMod - 1) /\ ticks' \in 0..(TickMod - 1)
    BY <1>7, NextModulo, SMT DEF ClockInv, ClockTypeOK
  <2>3. clk' \in Clock /\ clk'.started = clk.started /\ clk'.ie = clk.ie
    <3>. DEFINE f == clk'.flag  n == clk'.cnt  no == FALSE
    <3>1. clk' = [clk EXCEPT !.cnt = n, !.blocked = no, !.flag = f]  BY <1>2 DEF Clock
    <3>2. f \in [{matchA} -> BOOLEAN] /\ n \in 0..MicroTickMax /\ no \in BOOLEAN  BY <2>1
    <3>. HIDE DEF f, n, no
    <3>3. clk' \in Clock  BY <3>1, <3>2, FieldsSet
    <3>4. clk'.started = clk.started  BY <3>1, <3>2, SMT DEF Clock
    <3>5. clk'.ie = clk.ie  BY <3>1, <3>2, SMT DEF Clock
    <3>. QED  BY <3>3, <3>4, <3>5
  <2>. QED  BY <1>4, <2>2, <2>3 DEF ClockInv, ClockTypeOK
<1>9. Flag' => clk'.cnt <= late'
  <2>1. CASE clk.cnt = MicroTickMax  BY <2>1, <1>3, <1>4, SMT
  <2>2. CASE Flag /\ clk.cnt # MicroTickMax  BY <2>2, <1>3, <1>4, SMT DEF ClockInv, ClockTypeOK, Clock
  <2>. QED  BY <2>1, <2>2, <1>5
<1>10. EveryTickCounted'
  <2>1. CASE clk.cnt = MicroTickMax
    <3>1. ~Flag /\ Flag'  BY <2>1, <1>5, <1>6
    <3>2. full = (ticks + 0) % TickMod  BY <3>1 DEF ClockInv, EveryTickCounted, Flag
    <3>3. ticks \in 0..(TickMod - 1) /\ TickMod \in Nat \ {0}  BY SMT DEF ClockInv, ClockTypeOK
    <3>4. ticks % TickMod = ticks /\ ticks + 0 = ticks  BY <3>3, NextModulo, SMT
    <3>. QED  BY <2>1, <3>1, <3>2, <3>4, <1>7 DEF EveryTickCounted, Flag
  <2>2. CASE clk.cnt # MicroTickMax
    <3>1. (Flag' <=> Flag) /\ full' = full /\ ticks' = ticks  BY <2>2, <1>5, <1>7
    <3>. QED  BY <3>1 DEF EveryTickCounted, Flag, ClockInv
  <2>. QED  BY <2>1, <2>2
<1>11. clk'.blocked = FALSE  BY <1>2, SMT DEF Clock
<1>. QED  BY <1>8, <1>9, <1>10, <1>11 DEF ClockInv

(* The tick handler takes the period out of the flag. *)
LEMMA ClockTick == ClockInv /\ Tick => ClockInv'
<1>. SUFFICES ASSUME ClockInv, Tick PROVE ClockInv'  OBVIOUS
<1>. USE TimersAssumption
<1>1. Flag  BY DEF Tick, Due, Flag
<1>. clk \in Clock  BY DEF ClockInv, ClockTypeOK
<1>2. clk' = [clk EXCEPT !.flag[matchA] = FALSE]  BY DEF Tick, Served
<1>3. /\ clk' \in Clock /\ clk'.started /\ clk'.ie[matchA] /\ ~Flag'
      /\ clk'.cnt = clk.cnt /\ clk'.blocked = clk.blocked
  <2>1. clk'.flag = [clk.flag EXCEPT ![matchA] = FALSE]  BY <1>2 DEF Clock
  <2>2. clk'.flag[matchA] = FALSE /\ clk'.flag \in [{matchA} -> BOOLEAN]  BY <2>1 DEF Clock
  <2>3. clk' = [clk EXCEPT !.flag = clk'.flag]  BY <1>2, <2>1 DEF Clock
  <2>. DEFINE f == clk'.flag
  <2>4. f \in [{matchA} -> BOOLEAN] /\ clk' = [clk EXCEPT !.flag = f]  BY <2>2, <2>3
  <2>. HIDE DEF f
  <2>5. /\ clk' \in Clock /\ clk'.started = clk.started /\ clk'.ie = clk.ie
        /\ clk'.cnt = clk.cnt /\ clk'.blocked = clk.blocked
    BY <2>4, SMT DEF Clock
  <2>. QED  BY <2>2, <2>5 DEF Flag, ClockInv, ClockTypeOK
<1>4. ticks' = (ticks + 1) % TickMod /\ full' = full /\ late' = late  BY DEF Tick, NextTick
<1>5. ticks' \in 0..(TickMod - 1)  BY <1>4, NextModulo, SMT DEF ClockInv, ClockTypeOK
<1>6. ClockTypeOK'  BY <1>3, <1>4, <1>5 DEF ClockInv, ClockTypeOK
<1>7. full = ticks'  BY <1>1, <1>4 DEF ClockInv, EveryTickCounted, Flag
<1>8. full' = (ticks' + 0) % TickMod  BY <1>4, <1>5, <1>7, NextModulo, SMT
<1>9. EveryTickCounted'  BY <1>3, <1>8 DEF EveryTickCounted, Flag
<1>. QED  BY <1>3, <1>6, <1>9 DEF ClockInv

(* Everything else leaves the clock alone; a return may end the time the processor was busy. *)
LEMMA ClockElse ==
  ASSUME ClockInv, UNCHANGED <<clk, ticks, full>>, late' = late \/ (late' = 0 /\ ~Flag)
  PROVE  ClockInv'
<1>1. late' \in 0..Latency  BY TimersAssumption, SMT DEF ClockInv, ClockTypeOK
<1>. QED  BY <1>1, SMT DEF ClockInv, ClockTypeOK, EveryTickCounted, Flag

LEMMA ClockNext == ClockInv /\ [Next]_vars => ClockInv'
<1>. SUFFICES ASSUME ClockInv, [Next]_vars PROVE ClockInv'  OBVIOUS
<1>1. CASE Count  BY <1>1, ClockCount
<1>2. CASE Tick  BY <1>2, ClockTick
<1>3. CASE \E u \in Units : Trigger(u)  BY <1>3, ClockElse DEF Trigger
<1>4. CASE Return
  <2>1. Flag => InterruptDue  BY ClockFields DEF Flag, InterruptDue, Due, ClockInv, ClockTypeOK
  <2>. QED  BY <1>4, <2>1, ClockElse DEF Return
<1>5. CASE MainCall  BY <1>5, ClockElse DEF MainCall
<1>6. CASE Call
  <2>. UNCHANGED <<clk, ticks, full, late>>
    BY <1>6 DEF Call, SetupCounter, SetupCompare, SetupEnable, TimeTicks, TimeMicroTicks
  <2>. QED  BY ClockElse
<1>7. CASE UNCHANGED vars  BY <1>7, ClockElse DEF vars
<1>. QED  BY <1>1, <1>2, <1>3, <1>4, <1>5, <1>6, <1>7 DEF Next, Cpu

(* tick() counts every period of its timer: together with the flag, the count is the number of
   periods, whatever the callbacks and main do within the latency. *)
THEOREM NoTickLost == Spec => []EveryTickCounted
<1>1. Init => ClockInv  BY ClockInit
<1>2. ClockInv /\ [Next]_vars => ClockInv'  BY ClockNext
<1>3. ClockInv => EveryTickCounted  BY DEF ClockInv
<1>. QED  BY <1>1, <1>2, <1>3, PTL DEF Spec

-----------------------------------------------------------------------------
(***************************************************************************)
(* Types.  The programs consist of calls, and what is left of a program    *)
(* too; a call that has begun has loaded a value of its kind.              *)
(***************************************************************************)
OneShot == [cnt : 0..(CounterMod - 1), waveForm : {"normal"}, blocked : BOOLEAN, started : {TRUE},
            ocr : [Units -> 0..(CounterMod - 1)], ie : [Units -> BOOLEAN], flag : [Units -> BOOLEAN]]

(* The time a call of setup() asks for, in counts. *)
Span(c) == c.value * Factor

(* The calls of a handler are made with interrupts off, and the first of them has loaded a compare
   value for its unit, or the tick count. *)
CallInv ==
  /\ todo \in Seq(Calls)
  /\ \A i \in SetUps(todo) : Span(todo[i]) \in Latency..(CounterMod - Latency - 2)
  /\ todo # <<>> => ~InterruptsOn
  /\ reg # Nothing => todo # <<>>
  /\ reg \in {Nothing, Written} \union 0..(CounterMod - 1) \union 0..(TickMod - 1)
  /\ todo # <<>> /\ Head(todo).call = "setup" /\ reg >= 0 => reg \in 0..(CounterMod - 1)
  /\ todo # <<>> /\ Head(todo).call = "getTime" /\ reg # Nothing => reg = ticks

TypeInv ==
  /\ ClockInv /\ CallInv /\ tmr \in OneShot
  /\ cpu \in {"main", "tick"} \union Units /\ lock \in BOOLEAN
  /\ armed \subseteq Units /\ DOMAIN left = Units /\ \A u \in Units : left[u] \in Int

(* A program and what is left of it when its first call is done. *)
LEMMA Program ==
  ASSUME NEW p \in Seq(Calls), p # <<>>
  PROVE  /\ Head(p) \in Calls /\ Head(p) = p[1] /\ 1 \in DOMAIN p /\ Tail(p) \in Seq(Calls)
         /\ \A i \in SetUps(Tail(p)) : i + 1 \in SetUps(p) /\ Tail(p)[i] = p[i + 1] /\ i + 1 # 1 /\ i \in Nat
         /\ \A i \in SetUps(p) : i = 1 \/ (i - 1 \in SetUps(Tail(p)) /\ Tail(p)[i - 1] = p[i])
         /\ Head(p).call = "setup" <=> 1 \in SetUps(p)
<1>1. Head(p) = p[1] /\ 1 \in DOMAIN p /\ Head(p) \in Calls /\ Tail(p) \in Seq(Calls)  BY SMT
<1>2. \A i \in DOMAIN Tail(p) : i + 1 \in DOMAIN p /\ Tail(p)[i] = p[i + 1] /\ i + 1 # 1 /\ i \in Nat  BY SMT
<1>3. \A i \in DOMAIN p : i = 1 \/ (i - 1 \in DOMAIN Tail(p) /\ Tail(p)[i - 1] = p[i])  BY SMT
<1>. QED  BY <1>1, <1>2, <1>3 DEF SetUps

(* What is left of a program is made of its calls. *)
LEMMA CallsLeft ==
  ASSUME NEW p \in Seq(Calls), p # <<>>,
         \A i \in SetUps(p) : Span(p[i]) \in Latency..(CounterMod - Latency - 2)
  PROVE  \A i \in SetUps(Tail(p)) : Span(Tail(p)[i]) \in Latency..(CounterMod - Latency - 2)
BY Program

(* The programs of the handlers and of main. *)
LEMMA Programs ==
  /\ OnTick \in Seq(Calls) /\ \A i \in SetUps(OnTick) : Span(OnTick[i]) \in Latency..(CounterMod - Latency - 2)
  /\ \A u \in Units : /\ OnMatch[u] \in Seq(Calls)
                      /\ \A i \in SetUps(OnMatch[u]) : Span(OnMatch[u][i]) \in Latency..(CounterMod - Latency - 2)
  /\ \A c \in MainCalls : /\ <<c>> \in Seq(Calls)
                          /\ \A i \in SetUps(<<c>>) : Span(<<c>>[i]) \in Latency..(CounterMod - Latency - 2)
<1>. DEFINE All == {OnTick} \union {OnMatch[u] : u \in Units} \union {<<c>> : c \in MainCalls}
<1>1. \A p \in All : \A i \in SetUps(p) : Span(p[i]) \in Latency..(CounterMod - Latency - 2)
  BY ProgramAssumption DEF Span
<1>2. OnTick \in All /\ (\A u \in Units : OnMatch[u] \in All) /\ (\A c \in MainCalls : <<c>> \in All)
  OBVIOUS
<1>3. OnTick \in Seq(Calls) /\ \A u \in Units : OnMatch[u] \in Seq(Calls)
  BY ProgramAssumption
<1>4. \A c \in MainCalls : <<c>> \in Seq(Calls)
  <2>. SUFFICES ASSUME NEW c \in MainCalls PROVE <<c>> \in Seq(Calls)  OBVIOUS
  <2>1. c \in Calls  BY ProgramAssumption
  <2>. QED  BY <2>1, SMT
<1>. HIDE DEF All
<1>. QED  BY <1>1, <1>2, <1>3, <1>4

(* Assignments to the fields of the one-shot timer. *)
LEMMA OneShotWith ==
  ASSUME NEW t \in OneShot, NEW o \in [Units -> 0..(CounterMod - 1)], NEW e \in [Units -> BOOLEAN],
         NEW f \in [Units -> BOOLEAN]
  PROVE  [t EXCEPT !.ocr = o] \in OneShot /\ [t EXCEPT !.ie = e] \in OneShot /\ [t EXCEPT !.flag = f] \in OneShot
<1>. DEFINE With(oo, ee, ff) == [cnt |-> t.cnt, waveForm |-> t.waveForm, blocked |-> t.blocked, started |-> t.started,
                                ocr |-> oo, ie |-> ee, flag |-> ff]
<1>1. /\ [t EXCEPT !.ocr = o] = With(o, t.ie, t.flag) /\ [t EXCEPT !.ie = e] = With(t.ocr, e, t.flag)
      /\ [t EXCEPT !.flag = f] = With(t.ocr, t.ie, f)
  BY SMT DEF OneShot
<1>2. \A oo \in [Units -> 0..(CounterMod - 1)] : \A ee \in [Units -> BOOLEAN] : \A ff \in [Units -> BOOLEAN] :
        With(oo, ee, ff) \in OneShot
  BY Zenon DEF OneShot
<1>3. t.ocr \in [Units -> 0..(CounterMod - 1)] /\ t.ie \in [Units -> BOOLEAN] /\ t.flag \in [Units -> BOOLEAN]
  BY DEF OneShot
<1>. HIDE DEF With
<1>. QED  BY <1>1, <1>2, <1>3

LEMMA ValueSet ==
  ASSUME NEW t \in OneShot, NEW u \in Units, NEW v \in 0..(CounterMod - 1)
  PROVE  /\ setOutputCompareValue(t, u, v) = [t EXCEPT !.ocr = [t.ocr EXCEPT ![u] = v]]
         /\ setOutputCompareValue(t, u, v) \in OneShot
<1>1. setOutputCompareValue(t, u, v) = [t EXCEPT !.ocr = [t.ocr EXCEPT ![u] = v]]  BY DEF setOutputCompareValue
<1>2. [t.ocr EXCEPT ![u] = v] \in [Units -> 0..(CounterMod - 1)] /\ t.ie \in [Units -> BOOLEAN]
      /\ t.flag \in [Units -> BOOLEAN]
  BY DEF OneShot
<1>. QED  BY <1>1, <1>2, OneShotWith

LEMMA InterruptSet ==
  ASSUME NEW t \in OneShot, NEW u \in Units, NEW b \in BOOLEAN
  PROVE  /\ setOutputCompareInterrupt(t, u, b) = [t EXCEPT !.ie = [t.ie EXCEPT ![u] = b]]
         /\ setOutputCompareInterrupt(t, u, b) \in OneShot
<1>1. setOutputCompareInterrupt(t, u, b) = [t EXCEPT !.ie = [t.ie EXCEPT ![u] = b]]  BY DEF setOutputCompareInterrupt
<1>2. [t.ie EXCEPT ![u] = b] \in [Units -> BOOLEAN] /\ t.ocr \in [Units -> 0..(CounterMod - 1)]
      /\ t.flag \in [Units -> BOOLEAN]
  BY DEF OneShot
<1>. QED  BY <1>1, <1>2, OneShotWith

LEMMA FlagServed ==
  ASSUME NEW t \in OneShot, NEW u \in Units
  PROVE  /\ Served(t, u) = [t EXCEPT !.flag = [t.flag EXCEPT ![u] = FALSE]]
         /\ Served(t, u) \in OneShot
<1>1. Served(t, u) = [t EXCEPT !.flag = [t.flag EXCEPT ![u] = FALSE]]  BY DEF Served
<1>2. [t.flag EXCEPT ![u] = FALSE] \in [Units -> BOOLEAN] /\ t.ocr \in [Units -> 0..(CounterMod - 1)]
      /\ t.ie \in [Units -> BOOLEAN]
  BY DEF OneShot
<1>. QED  BY <1>1, <1>2, OneShotWith

(* The counter k counts after it showed a. *)
Ahead(a, k) == IF a + k < CounterMod THEN a + k ELSE a + k - CounterMod

LEMMA SumModulo ==
  ASSUME NEW M \in Nat \ {0}, NEW a \in 0..(M - 1), NEW k \in 0..(M - 1)
  PROVE  (a + k) % M = IF a + k < M THEN a + k ELSE a + k - M
<1>1. CASE a + k < M
  <2>. DEFINE n == a + k
  <2>1. n \in 0..(M - 1)  BY <1>1, SMT
  <2>. HIDE DEF n
  <2>2. n % M = n  BY <2>1, NextModulo
  <2>. QED  BY <1>1, <2>2 DEF n
<1>2. CASE ~(a + k < M)
  <2>1. (a + k - M) % M = a + k - M
    <3>. DEFINE n == a + k - M
    <3>1. n \in 0..(M - 1)  BY <1>2, SMT
    <3>. HIDE DEF n
    <3>2. n % M = n  BY <3>1, NextModulo
    <3>. QED  BY <3>2 DEF n
  <2>2. (a + k) % M = (a + k - M) % M  BY <1>2, SMT
  <2>. QED  BY <1>2, <2>1, <2>2
<1>. QED  BY <1>1, <1>2

LEMMA AheadIs ==
  ASSUME NEW a \in 0..(CounterMod - 1), NEW k \in 0..(CounterMod - 1)
  PROVE  (a + k) % CounterMod = Ahead(a, k) /\ Ahead(a, k) \in 0..(CounterMod - 1)
<1>1. (a + k) % CounterMod = Ahead(a, k)  BY SumModulo, CounterAssumption DEF Ahead
<1>2. Ahead(a, k) \in 0..(CounterMod - 1)  BY CounterAssumption, SMT DEF Ahead
<1>. QED  BY <1>1, <1>2

(* One count of the one-shot timer. *)
LEMMA OneShotCounts ==
  ASSUME NEW t \in OneShot
  PROVE  /\ Counted(t) \in OneShot
         /\ Counted(t).cnt = Ahead(t.cnt, 1) /\ Counted(t).blocked = FALSE
         /\ Counted(t).ocr = t.ocr /\ Counted(t).ie = t.ie
         /\ \A u \in Units : Counted(t).flag[u] = (t.flag[u] \/ (~t.blocked /\ t.cnt = t.ocr[u]))
<1>. DEFINE n == IF t.cnt = CounterMod - 1 THEN 0 ELSE (t.cnt + 1) % CounterMod
            f == [u \in DOMAIN t.flag |-> t.flag[u] \/ (~t.blocked /\ t.cnt = t.ocr[u])]
            no == FALSE
            c == [cnt |-> n, waveForm |-> t.waveForm, blocked |-> no, started |-> t.started,
                  ocr |-> t.ocr, ie |-> t.ie, flag |-> f]
<1>1. t.started /\ t.waveForm = "normal" /\ t.cnt \in 0..(CounterMod - 1) /\ DOMAIN t.flag = Units
      /\ t.flag \in [Units -> BOOLEAN]
  BY DEF OneShot
<1>2. Top(t) = CounterMod - 1  BY <1>1 DEF Top
<1>3. Counted(t) = [[[t EXCEPT !.cnt = n] EXCEPT !.blocked = no] EXCEPT !.flag = f]
  BY <1>1, <1>2, Zenon DEF Counted
<1>4. n = Ahead(t.cnt, 1) /\ n \in 0..(CounterMod - 1)
  <2>1. (t.cnt + 1) % CounterMod = IF t.cnt = CounterMod - 1 THEN 0 ELSE t.cnt + 1
    BY <1>1, CounterAssumption, NextModulo
  <2>. QED  BY <1>1, <2>1, CounterAssumption, SMT DEF Ahead
<1>5. f \in [Units -> BOOLEAN] /\ \A u \in Units : f[u] = (t.flag[u] \/ (~t.blocked /\ t.cnt = t.ocr[u]))
  BY <1>1
<1>. HIDE DEF n, f
<1>6. no \in BOOLEAN /\ no = FALSE  OBVIOUS
<1>. HIDE DEF no
<1>. DEFINE With(nn, bb, ff) == [cnt |-> nn, waveForm |-> t.waveForm, blocked |-> bb, started |-> t.started,
                                ocr |-> t.ocr, ie |-> t.ie, flag |-> ff]
<1>7. Counted(t) = c
  <2>1. [t EXCEPT !.cnt = n] = With(n, t.blocked, t.flag)  BY SMT DEF OneShot
  <2>2. [With(n, t.blocked, t.flag) EXCEPT !.blocked = no] = With(n, no, t.flag)  BY SMT
  <2>3. [With(n, no, t.flag) EXCEPT !.flag = f] = With(n, no, f)  BY SMT
  <2>. QED  BY <1>3, <2>1, <2>2, <2>3, Zenon
<1>8. c \in OneShot
  <2>1. t.waveForm \in {"normal"} /\ t.started \in {TRUE} /\ t.ocr \in [Units -> 0..(CounterMod - 1)]
        /\ t.ie \in [Units -> BOOLEAN]
    BY DEF OneShot
  <2>. QED  BY <1>4, <1>5, <1>6, <2>1, Zenon DEF OneShot
<1>9. c.cnt = n /\ c.blocked = no /\ c.ocr = t.ocr /\ c.ie = t.ie /\ c.flag = f  OBVIOUS
<1>. HIDE DEF c
<1>. QED  BY <1>4, <1>5, <1>6, <1>7, <1>8, <1>9

LEMMA TypeInit == Init => TypeInv
<1>. SUFFICES ASSUME Init PROVE TypeInv  OBVIOUS
<1>1. ClockInv  BY ClockInit
<1>2. tmr \in OneShot
  <2>. DEFINE zero == 0  normal == "normal"  yes == TRUE  no == FALSE
              o == [u \in Units |-> zero]  on == [u \in Units |-> TRUE]  off == [u \in Units |-> FALSE]
              With(st, ie) == [cnt |-> zero, waveForm |-> normal, blocked |-> yes, started |-> st,
                               ocr |-> o, ie |-> ie, flag |-> off]
  <2>1. tmr = [[With(no, on) EXCEPT !.ie = off] EXCEPT !.started = yes]  BY DEF Init, NewTimer, start
  <2>2. zero \in 0..(CounterMod - 1)  BY CounterAssumption, SMT
  <2>3. /\ normal \in {"normal"} /\ yes \in {TRUE} /\ yes \in BOOLEAN
        /\ o \in [Units -> 0..(CounterMod - 1)] /\ off \in [Units -> BOOLEAN]
    BY <2>2
  <2>. HIDE DEF zero, normal, yes, no, o, on, off
  <2>4. [With(no, on) EXCEPT !.ie = off] = With(no, off)  BY SMT
  <2>5. [With(no, off) EXCEPT !.started = yes] = With(yes, off)  BY SMT
  <2>6. With(yes, off) \in OneShot  BY <2>2, <2>3, Zenon DEF OneShot
  <2>. QED  BY <2>1, <2>4, <2>5, <2>6, Zenon
<1>3. CallInv
  <2>1. todo = <<>> /\ reg = Nothing /\ SetUps(todo) = {}  BY DEF Init, SetUps
  <2>. QED  BY <2>1 DEF CallInv
<1>4. cpu = "main" /\ lock = FALSE /\ armed = {} /\ left = [u \in Units |-> 0]  BY DEF Init
<1>5. armed \subseteq Units /\ DOMAIN left = Units /\ \A u \in Units : left[u] \in Int  BY <1>4
<1>6. cpu \in {"main", "tick"} \union Units /\ lock \in BOOLEAN  BY <1>4
<1>. QED  BY <1>1, <1>2, <1>3, <1>5, <1>6, Zenon DEF TypeInv

(* CallInv keeps when a call goes on or ends: what counts is the program and the loaded value. *)
LEMMA CallEnded ==
  ASSUME CallInv, todo # <<>>, CallEnds, UNCHANGED <<cpu, lock>>
  PROVE  CallInv'
<1>1. todo' \in Seq(Calls) /\ reg' = Nothing /\ todo' = Tail(todo)  BY Program DEF CallInv, CallEnds
<1>2. \A i \in SetUps(todo') : Span(todo'[i]) \in Latency..(CounterMod - Latency - 2)
  BY <1>1, CallsLeft DEF CallInv
<1>3. ~InterruptsOn' /\ (Nothing \notin 0..(CounterMod - 1)) /\ ~(Nothing >= 0)
  BY SMT DEF CallInv, InterruptsOn, Nothing
<1>4. (\A i \in SetUps(todo) : Span(todo[i]) \in Latency..(CounterMod - Latency - 2))'
  BY <1>2 DEF SetUps, Span
<1>. QED  BY <1>1, <1>3, <1>4, Zenon DEF CallInv

(* The value the first call loads. *)
LEMMA CallGoesOn ==
  ASSUME CallInv, todo # <<>>, UNCHANGED <<todo, cpu, lock, ticks>>,
         \/ Head(todo).call = "setup" /\ reg' \in {Written} \union 0..(CounterMod - 1)
         \/ Head(todo).call = "getTime" /\ reg' = ticks /\ ticks \in 0..(TickMod - 1)
  PROVE  CallInv'
<1>1. reg' \in {Nothing, Written} \union 0..(CounterMod - 1) \union 0..(TickMod - 1)  OBVIOUS
<1>2. (\A i \in SetUps(todo) : Span(todo[i]) \in Latency..(CounterMod - Latency - 2))'
  BY DEF CallInv, SetUps, Span
<1>3. todo' \in Seq(Calls) /\ ~InterruptsOn'  BY DEF CallInv, InterruptsOn
<1>4. Head(todo).call = "setup" /\ reg' >= 0 => reg' \in 0..(CounterMod - 1)
  <2>1. ~(Written >= 0)  BY SMT DEF Written
  <2>. QED  BY <2>1
<1>5. Head(todo).call = "getTime" /\ reg' # Nothing => reg' = ticks'  OBVIOUS
<1>. QED  BY <1>1, <1>2, <1>3, <1>4, <1>5, Zenon DEF CallInv

(* A program starts with nothing loaded. *)
LEMMA CallsBegin ==
  ASSUME CallInv, todo = <<>>, NEW p \in Seq(Calls), todo' = p, reg' = reg, ~InterruptsOn',
         \A i \in SetUps(p) : Span(p[i]) \in Latency..(CounterMod - Latency - 2)
  PROVE  CallInv'
<1>1. reg = Nothing  BY DEF CallInv
<1>2. (\A i \in SetUps(todo) : Span(todo[i]) \in Latency..(CounterMod - Latency - 2))'  BY DEF SetUps, Span
<1>3. ~(Nothing >= 0)  BY SMT DEF Nothing
<1>. QED  BY <1>1, <1>2, <1>3, Zenon DEF CallInv

LEMMA CallsSame ==
  ASSUME CallInv, UNCHANGED <<todo, reg, ticks>>, InterruptsOn' => InterruptsOn \/ todo = <<>>
  PROVE  CallInv'
<1>1. (\A i \in SetUps(todo) : Span(todo[i]) \in Latency..(CounterMod - Latency - 2))'  BY DEF CallInv, SetUps, Span
<1>2. (todo # <<>> => ~InterruptsOn)'  BY DEF CallInv
<1>. QED  BY <1>1, <1>2, Zenon DEF CallInv

(* The value setup() computes from the counter it reads. *)
LEMMA SetupValue ==
  ASSUME TypeInv, SetupCounter
  PROVE  LET u == Head(todo).unit
             d == Span(Head(todo))
         IN  /\ u \in Units /\ d \in Latency..(CounterMod - Latency - 2) /\ d \in 0..(CounterMod - 1)
             /\ reg' = Ahead(tmr.cnt, d) /\ reg' \in 0..(CounterMod - 1)
             /\ left' = [left EXCEPT ![u] = d] /\ armed' = armed \union {u}
             /\ 1 \in SetUps(todo) /\ todo[1] = Head(todo)
<1>. DEFINE u == Head(todo).unit
            d == Span(Head(todo))
<1>1. todo # <<>> /\ Head(todo).call = "setup" /\ todo \in Seq(Calls)  BY DEF SetupCounter, At, TypeInv, CallInv
<1>2. Head(todo) \in Calls /\ Head(todo) = todo[1] /\ 1 \in SetUps(todo)  BY <1>1, Program
<1>3. u \in Units  BY <1>1, <1>2, SMT DEF Calls, GetTime
<1>4. d \in Latency..(CounterMod - Latency - 2)  BY <1>2 DEF TypeInv, CallInv
<1>. HIDE DEF d
<1>5. d \in 0..(CounterMod - 1)  BY <1>4, CounterAssumption, TimersAssumption, SMT
<1>6. reg' = (tmr.cnt + d) % CounterMod  BY DEF SetupCounter, CompareValue, getCounter, Span, d
<1>7. tmr.cnt \in 0..(CounterMod - 1)  BY DEF TypeInv, OneShot
<1>8. reg' = Ahead(tmr.cnt, d) /\ reg' \in 0..(CounterMod - 1)  BY <1>5, <1>6, <1>7, AheadIs
<1>9. left' = [left EXCEPT ![u] = d] /\ armed' = armed \union {u}  BY DEF SetupCounter, Span, d
<1>. QED  BY <1>2, <1>3, <1>4, <1>5, <1>8, <1>9 DEF d

LEMMA CallInvNext ==
  ASSUME TypeInv, [Next]_vars
  PROVE  CallInv'
<1>. CallInv  BY DEF TypeInv
<1>. USE DEF At
<1>1. CASE Count  BY <1>1, CallsSame DEF Count, InterruptsOn
<1>2. CASE Tick
  <2>1. todo = <<>>  BY <1>2 DEF Tick, CallInv
  <2>. QED  BY <1>2, <2>1, Programs, CallsBegin DEF Tick, InterruptsOn
<1>3. ASSUME NEW u \in Units, Trigger(u) PROVE CallInv'
  <2>1. todo = <<>>  BY <1>3 DEF Trigger, CallInv
  <2>2. u # "main"  BY TimersAssumption, SMT DEF matchA, matchB, matchC
  <2>. QED  BY <1>3, <2>1, <2>2, Programs, CallsBegin DEF Trigger, InterruptsOn
<1>4. CASE Return  BY <1>4, CallsSame DEF Return
<1>5. CASE MainCall
  <2>1. todo = <<>>  BY <1>5 DEF MainCall, CallInv
  <2>2. PICK c \in MainCalls : todo' = <<c>>  BY <1>5 DEF MainCall
  <2>. QED  BY <1>5, <2>1, <2>2, Programs, CallsBegin DEF MainCall, InterruptsOn
<1>6. CASE SetupCounter
  <2>1. reg' \in 0..(CounterMod - 1)  BY <1>6, SetupValue
  <2>. QED  BY <1>6, <2>1, CallGoesOn DEF SetupCounter
<1>7. CASE SetupCompare  BY <1>7, CallGoesOn DEF SetupCompare
<1>8. CASE SetupEnable  BY <1>8, CallEnded DEF SetupEnable
<1>9. CASE TimeTicks  BY <1>9, CallGoesOn DEF TimeTicks, TypeInv, ClockInv, ClockTypeOK
<1>10. CASE TimeMicroTicks  BY <1>10, CallEnded DEF TimeMicroTicks
<1>11. CASE UNCHANGED vars  BY <1>11, CallsSame DEF vars, InterruptsOn
<1>. QED  BY <1>1, <1>2, <1>3, <1>4, <1>5, <1>6, <1>7, <1>8, <1>9, <1>10, <1>11 DEF Next, Cpu, Call

(* setup() writes the value it has loaded; then it enables its unit's interrupt. *)
LEMMA SetupWrites ==
  ASSUME TypeInv, SetupCompare
  PROVE  LET u == Head(todo).unit
         IN  /\ u \in Units /\ reg \in 0..(CounterMod - 1)
             /\ tmr' \in OneShot /\ tmr' = [tmr EXCEPT !.ocr = [tmr.ocr EXCEPT ![u] = reg]]
<1>1. todo # <<>> /\ Head(todo).call = "setup" /\ reg >= 0 /\ todo \in Seq(Calls)
  BY DEF SetupCompare, At, TypeInv, CallInv
<1>2. Head(todo).unit \in Units  BY <1>1, Program, SMT DEF Calls, GetTime
<1>3. reg \in 0..(CounterMod - 1)  BY <1>1 DEF TypeInv, CallInv
<1>4. tmr \in OneShot /\ tmr' = setOutputCompareValue(tmr, Head(todo).unit, reg)  BY DEF SetupCompare, TypeInv
<1>. DEFINE u == Head(todo).unit
<1>. HIDE DEF u
<1>5. tmr' \in OneShot /\ tmr' = [tmr EXCEPT !.ocr = [tmr.ocr EXCEPT ![u] = reg]]  BY <1>2, <1>3, <1>4, ValueSet DEF u
<1>. QED  BY <1>2, <1>3, <1>5 DEF u

LEMMA SetupEnables ==
  ASSUME TypeInv, SetupEnable
  PROVE  LET u == Head(todo).unit
         IN  u \in Units /\ tmr' \in OneShot /\ tmr' = [tmr EXCEPT !.ie = [tmr.ie EXCEPT ![u] = TRUE]]
<1>1. todo # <<>> /\ Head(todo).call = "setup" /\ todo \in Seq(Calls)
  BY DEF SetupEnable, At, TypeInv, CallInv
<1>2. Head(todo).unit \in Units  BY <1>1, Program, SMT DEF Calls, GetTime
<1>3. tmr \in OneShot /\ tmr' = setOutputCompareInterrupt(tmr, Head(todo).unit, TRUE)  BY DEF SetupEnable, TypeInv
<1>. QED  BY <1>2, <1>3, InterruptSet

(* A handler of the one-shot timer takes the match out of the flag and disables its interrupt. *)
LEMMA TriggerServes ==
  ASSUME TypeInv, NEW u \in Units, Trigger(u)
  PROVE  /\ tmr' \in OneShot /\ tmr'.cnt = tmr.cnt /\ tmr'.blocked = tmr.blocked /\ tmr'.ocr = tmr.ocr
         /\ tmr'.flag = [tmr.flag EXCEPT ![u] = FALSE] /\ tmr'.ie = [tmr.ie EXCEPT ![u] = FALSE]
<1>. DEFINE no == FALSE
            s == Served(tmr, u)
            f == [tmr.flag EXCEPT ![u] = no]
            e == [s.ie EXCEPT ![u] = no]
<1>1. tmr \in OneShot /\ tmr' = setOutputCompareInterrupt(s, u, no)  BY DEF Trigger, Disarmed, TypeInv
<1>2. no \in BOOLEAN  OBVIOUS
<1>3. s \in OneShot /\ s = [tmr EXCEPT !.flag = f]  BY <1>1, FlagServed
<1>. HIDE DEF s, no, f
<1>4. tmr' \in OneShot /\ tmr' = [s EXCEPT !.ie = e]  BY <1>1, <1>2, <1>3, InterruptSet DEF e
<1>. HIDE DEF e
<1>5. s.cnt = tmr.cnt /\ s.blocked = tmr.blocked /\ s.ocr = tmr.ocr /\ s.ie = tmr.ie /\ s.flag = f
  BY <1>1, <1>3, SMT DEF OneShot
<1>6. tmr'.cnt = s.cnt /\ tmr'.blocked = s.blocked /\ tmr'.ocr = s.ocr /\ tmr'.flag = s.flag /\ tmr'.ie = e
  BY <1>3, <1>4, SMT DEF OneShot
<1>. QED  BY <1>4, <1>5, <1>6 DEF e, f, no

LEMMA TypeNext == TypeInv /\ [Next]_vars => TypeInv'
<1>. SUFFICES ASSUME TypeInv, [Next]_vars PROVE TypeInv'  OBVIOUS
<1>1. ClockInv'  BY ClockNext DEF TypeInv
<1>2. CallInv'  BY CallInvNext
<1>3. tmr' \in OneShot /\ cpu' \in {"main", "tick"} \union Units /\ lock' \in BOOLEAN
      /\ armed' \subseteq Units /\ DOMAIN left' = Units /\ \A u \in Units : left'[u] \in Int
  <2>. tmr \in OneShot /\ cpu \in {"main", "tick"} \union Units /\ lock \in BOOLEAN
       /\ armed \subseteq Units /\ DOMAIN left = Units /\ \A u \in Units : left[u] \in Int
    BY DEF TypeInv
  <2>1. CASE Count
    <3>1. tmr' \in OneShot  BY <2>1, OneShotCounts DEF Count
    <3>2. DOMAIN left' = Units /\ \A u \in Units : left'[u] \in Int  BY <2>1 DEF Count
    <3>. QED  BY <2>1, <3>1, <3>2 DEF Count
  <2>2. CASE Tick  BY <2>2 DEF Tick
  <2>3. ASSUME NEW u \in Units, Trigger(u)
        PROVE  tmr' \in OneShot /\ cpu' \in Units /\ lock' = lock /\ armed' \subseteq Units
               /\ DOMAIN left' = Units /\ \A v \in Units : left'[v] \in Int
    <3>1. tmr' \in OneShot  BY <2>3, TriggerServes
    <3>. QED  BY <2>3, <3>1 DEF Trigger
  <2>4. CASE Return  BY <2>4 DEF Return, ReleasesLock
  <2>5. CASE MainCall  BY <2>5 DEF MainCall
  <2>6. CASE SetupCounter
    <3>. DEFINE v == Head(todo).unit
                d == Span(Head(todo))
    <3>1. v \in Units /\ d \in Latency..(CounterMod - Latency - 2)
          /\ left' = [left EXCEPT ![v] = d] /\ armed' = armed \union {v}
      BY <2>6, SetupValue
    <3>. HIDE DEF v, d
    <3>2. d \in Int  BY <3>1, CounterAssumption, TimersAssumption, SMT
    <3>. QED  BY <2>6, <3>1, <3>2 DEF SetupCounter
  <2>7. CASE SetupCompare
    <3>1. tmr' \in OneShot  BY <2>7, SetupWrites
    <3>. QED  BY <2>7, <3>1 DEF SetupCompare
  <2>8. CASE SetupEnable
    <3>1. tmr' \in OneShot  BY <2>8, SetupEnables
    <3>. QED  BY <2>8, <3>1 DEF SetupEnable
  <2>9. CASE TimeTicks \/ TimeMicroTicks  BY <2>9 DEF TimeTicks, TimeMicroTicks
  <2>10. CASE UNCHANGED vars  BY <2>10 DEF vars
  <2>. QED  BY <2>1, <2>2, <2>3, <2>4, <2>5, <2>6, <2>7, <2>8, <2>9, <2>10 DEF Next, Cpu, Call
<1>. QED  BY <1>1, <1>2, <1>3, Zenon DEF TypeInv

LEMMA TypesAlways == Spec => []TypeInv
BY TypeInit, TypeNext, PTL DEF Spec

(* Compare values stay in the width of the counter, and every call loads a value of its kind, for
   any programs of the handlers and of main. *)
THEOREM TimersTypes == Spec => []TimersTypeOK
<1>1. TypeInv => TimersTypeOK
  <2>. SUFFICES ASSUME TypeInv PROVE TimersTypeOK  OBVIOUS
  <2>1. clk \in Timer({matchA})
    <3>1. clk \in Clock  BY DEF TypeInv, ClockInv, ClockTypeOK
    <3>2. MicroTickMax \in 0..(CounterMod - 1) /\ 0..MicroTickMax \subseteq 0..(CounterMod - 1)
      BY CounterAssumption, TimersAssumption, SMT
    <3>. QED  BY <3>1, <3>2, SMT DEF Clock, Timer
  <2>2. tmr \in Timer(Units)
    <3>1. tmr \in OneShot  BY DEF TypeInv
    <3>. QED  BY <3>1, Zenon DEF OneShot, Timer
  <2>. QED  BY <2>1, <2>2 DEF TimersTypeOK, TypeInv, ClockInv, ClockTypeOK, CallInv
<1>. QED  BY <1>1, TypesAlways, PTL

-----------------------------------------------------------------------------
(* A time that is the same or one tick behind, as a difference on the ring of all times. *)
LEMMA TickBehind ==
  ASSUME NEW M \in Nat \ {0, 1}, NEW P \in Nat \ {0}, NEW t \in 0..(M - 1), NEW f \in 0..(M - 1), NEW c \in Int,
         f = t \/ f = t + 1 \/ (t = M - 1 /\ f = 0)
  PROVE  ((f * P + c) - (t * P + c)) % (M * P) \in {0, P}
<1>. DEFINE N == M * P
            d == (f * P + c) - (t * P + c)
            a == t * P
<1>1. N \in Nat /\ P < N
  <2>1. M * P = P + (M - 1) * P /\ (M - 1) * P \in Nat /\ (M - 1) * P > 0  BY SMT
  <2>. HIDE DEF N
  <2>2. N = P + (M - 1) * P  BY <2>1 DEF N
  <2>. DEFINE x == (M - 1) * P
  <2>3. x \in Nat /\ x > 0 /\ N = P + x  BY <2>1, <2>2
  <2>. HIDE DEF x
  <2>. QED  BY <2>3, SMT
<1>2. 0 % N = 0 /\ P % N = P /\ (P - N) % N = P
  <2>. HIDE DEF N
  <2>1. N \in Nat \ {0} /\ 0 \in 0..(N - 1) /\ P \in 0..(N - 1)  BY <1>1, SMT
  <2>2. 0 % N = 0 /\ P % N = P  BY <2>1, NextModulo
  <2>3. (P - N) % N = P % N  BY <2>1, SMT
  <2>. QED  BY <2>2, <2>3
<1>3. CASE f = t
  <2>1. d = 0
    <3>1. a \in Int /\ d = (a + c) - (a + c)  BY <1>3, SMT
    <3>. HIDE DEF a, d
    <3>. QED  BY <3>1, SMT
  <2>. QED  BY <1>2, <2>1
<1>4. CASE f = t + 1
  <2>1. d = P
    <3>1. (t + 1) * P = t * P + P  BY SMT
    <3>2. a \in Int /\ d = ((a + P) + c) - (a + c)  BY <1>4, <3>1, SMT
    <3>. HIDE DEF a, d
    <3>. QED  BY <3>2, SMT
  <2>. QED  BY <1>2, <2>1
<1>5. CASE t = M - 1 /\ f = 0
  <2>1. d = P - N
    <3>1. (M - 1) * P = M * P - P /\ 0 * P = 0  BY SMT
    <3>2. N \in Int /\ d = (0 + c) - ((N - P) + c)  BY <1>1, <1>5, <3>1
    <3>. HIDE DEF N, d
    <3>. QED  BY <3>2, SMT
  <2>. QED  BY <1>2, <2>1
<1>. QED  BY <1>3, <1>4, <1>5

(* getTime() ends with the tick count it read first, because no tick comes while interrupts are off. *)
LEMMA ReadingStep ==
  ASSUME TypeInv, TimeMicroTicks
  PROVE  lag' \in {0, MicroTickMax + 1}
<1>1. todo # <<>> /\ Head(todo).call = "getTime" /\ reg >= 0  BY DEF TimeMicroTicks, At
<1>2. reg = ticks
  <2>1. reg # Nothing  BY <1>1, SMT DEF Nothing
  <2>. QED  BY <1>1, <2>1 DEF TypeInv, CallInv
<1>3. lag' = (TimeOf(full, clk.cnt) - TimeOf(ticks, clk.cnt)) % (TickMod * (MicroTickMax + 1))
  BY <1>2 DEF TimeMicroTicks, Completes, Reads, Behind, getCounter
<1>4. /\ ticks \in 0..(TickMod - 1) /\ full \in 0..(TickMod - 1) /\ clk.cnt \in Int
      /\ TickMod \in Nat \ {0, 1} /\ MicroTickMax + 1 \in Nat \ {0}
  BY CounterAssumption, TimersAssumption, SMT DEF TypeInv, ClockInv, ClockTypeOK, Clock
<1>5. full = ticks \/ full = ticks + 1 \/ (ticks = TickMod - 1 /\ full = 0)
  <2>1. ticks % TickMod = ticks /\ (ticks + 1) % TickMod = IF ticks = TickMod - 1 THEN 0 ELSE ticks + 1
    BY <1>4, NextModulo
  <2>2. full = (ticks + (IF clk.flag[matchA] THEN 1 ELSE 0)) % TickMod  BY DEF TypeInv, ClockInv, EveryTickCounted
  <2>3. ticks + 0 = ticks  BY <1>4, SMT
  <2>. QED  BY <2>1, <2>2, <2>3
<1>. DEFINE P == MicroTickMax + 1
<1>6. P \in Nat \ {0} /\ lag' = ((full * P + clk.cnt) - (ticks * P + clk.cnt)) % (TickMod * P)
  BY <1>3, <1>4 DEF TimeOf
<1>. HIDE DEF P
<1>7. lag' \in {0, P}  BY <1>4, <1>5, <1>6, TickBehind
<1>. QED  BY <1>7 DEF P

(* getTime() called with interrupts off is never ahead of the time and never more than a tick
   behind it, wherever the two counters stand and also when they wrap. *)
THEOREM ReadingsNear == Spec => []ReadingNearTheTime
<1>. USE CounterAssumption, TimersAssumption
<1>. DEFINE Near == lag \in 0..(MicroTickMax + 1)
<1>1. Init => Near  BY SMT DEF Init
<1>2. TypeInv /\ Near /\ [Next]_vars => Near'
  <2>. SUFFICES ASSUME TypeInv, Near, [Next]_vars PROVE Near'  OBVIOUS
  <2>1. CASE TimeMicroTicks
    <3>1. lag' \in {0, MicroTickMax + 1}  BY <2>1, ReadingStep
    <3>. QED  BY <3>1, SMT
  <2>2. CASE lag' = lag  BY <2>2
  <2>. QED  BY <2>1, <2>2 DEF Next, Cpu, Call, vars, Count, Tick, Trigger, Return, MainCall, SetupCounter, SetupCompare,
            SetupEnable, TimeTicks
<1>3. Near => ReadingNearTheTime  BY SMT DEF ReadingNearTheTime
<1>. QED  BY <1>1, <1>2, <1>3, TypesAlways, PTL DEF Spec

-----------------------------------------------------------------------------
(***************************************************************************)
(* Callbacks come on time.  For a unit that was set up, the counter and    *)
(* the time left show the compare value; once the time is over the flag is *)
(* up, and the processor is busy until the callback.  For a unit that the  *)
(* tick sets up, the counter has not come round to the old compare value   *)
(* before the next tick writes a new one: Age counts since the last match, *)
(* Since the counts since the last tick that has written it.               *)
(***************************************************************************)
InSetup(u) == todo # <<>> /\ Head(todo).call = "setup" /\ Head(todo).unit = u /\ reg # Nothing
Loaded(u) == InSetup(u) /\ reg # Written

EnableInv(u) ==
  /\ tmr.ie[u] => u \in armed
  /\ u \in armed => tmr.ie[u] \/ InSetup(u)
  /\ InSetup(u) => u \in armed

LoadedInv(u) ==
  Loaded(u) => /\ left[u] + late >= Latency /\ left[u] <= CounterMod - Latency - 2
               /\ reg = Ahead(tmr.cnt, left[u])

RunningInv(u) ==
  u \in armed /\ ~Loaded(u) /\ left[u] >= 0 =>
    /\ left[u] <= CounterMod - Latency - 2 /\ tmr.ocr[u] = Ahead(tmr.cnt, left[u])
    /\ tmr.blocked => left[u] >= 1

ElapsedInv(u) ==
  u \in armed /\ left[u] < 0 =>
    tmr.flag[u] /\ left[u] >= -(1 + late) /\ tmr.cnt = Ahead(tmr.ocr[u], -left[u])

UnitInv(u) == EnableInv(u) /\ LoadedInv(u) /\ RunningInv(u) /\ ElapsedInv(u)

UnitsInv == (tmr.blocked => late = 0) /\ \A u \in Units : UnitInv(u)

(* Counting on, on the ring of the counter's values. *)
LEMMA AheadFacts ==
  ASSUME NEW a \in 0..(CounterMod - 1)
  PROVE  /\ Ahead(a, 0) = a
         /\ \A k \in 1..(CounterMod - 1) : Ahead(a, k) # a /\ Ahead(Ahead(a, 1), k - 1) = Ahead(a, k)
         /\ \A k \in 0..(CounterMod - 1) : Ahead(Ahead(a, k), 1) = Ahead(a, k + 1)
<1>. USE CounterAssumption
<1>1. Ahead(a, 0) = a  BY SMT DEF Ahead
<1>2. ASSUME NEW k \in 1..(CounterMod - 1) PROVE Ahead(a, k) # a /\ Ahead(Ahead(a, 1), k - 1) = Ahead(a, k)
  BY <1>2, SMT DEF Ahead
<1>3. ASSUME NEW k \in 0..(CounterMod - 1) PROVE Ahead(Ahead(a, k), 1) = Ahead(a, k + 1)
  BY <1>3, SMT DEF Ahead
<1>. QED  BY <1>1, <1>2, <1>3

(* What one count does for one unit. *)
LEMMA CountUnit ==
  ASSUME TypeInv, Count, NEW u \in Units
  PROVE  /\ tmr'.cnt = Ahead(tmr.cnt, 1) /\ tmr'.blocked = FALSE /\ tmr'.ocr[u] = tmr.ocr[u] /\ tmr'.ie[u] = tmr.ie[u]
         /\ tmr'.flag[u] = (tmr.flag[u] \/ (~tmr.blocked /\ tmr.cnt = tmr.ocr[u]))
         /\ left'[u] = IF u \in armed THEN left[u] - 1 ELSE 0
         /\ late' = IF Busy THEN late + 1 ELSE 0
         /\ Busy => late < Latency
         /\ UNCHANGED <<todo, reg, armed, cpu, lock, ticks>>
         /\ tmr.cnt \in 0..(CounterMod - 1) /\ tmr.ocr[u] \in 0..(CounterMod - 1) /\ left[u] \in Int /\ late \in 0..Latency
<1>1. tmr \in OneShot /\ tmr' = Counted(tmr)  BY DEF TypeInv, Count
<1>2. tmr.cnt \in 0..(CounterMod - 1) /\ tmr.ocr[u] \in 0..(CounterMod - 1)  BY <1>1 DEF OneShot
<1>3. left[u] \in Int /\ late \in 0..Latency  BY DEF TypeInv, ClockInv, ClockTypeOK
<1>4. left'[u] = IF u \in armed THEN left[u] - 1 ELSE 0  BY DEF Count
<1>5. late' = (IF Busy THEN late + 1 ELSE 0) /\ (Busy => late < Latency) /\ UNCHANGED <<todo, reg, armed, cpu, lock, ticks>>
  BY DEF Count
<1>6. /\ tmr'.cnt = Ahead(tmr.cnt, 1) /\ tmr'.blocked = FALSE /\ tmr'.ocr = tmr.ocr /\ tmr'.ie = tmr.ie
      /\ tmr'.flag[u] = (tmr.flag[u] \/ (~tmr.blocked /\ tmr.cnt = tmr.ocr[u]))
  BY <1>1, OneShotCounts
<1>. QED  BY <1>2, <1>3, <1>4, <1>5, <1>6, Zenon

LEMMA UnitCounts ==
  ASSUME TypeInv, UnitsInv, Count
  PROVE  UnitsInv'
<1>1. \A u \in Units : UnitInv(u)  BY DEF UnitsInv
<1>2. ASSUME NEW u \in Units PROVE UnitInv(u)'
  <2>. USE CounterAssumption, TimersAssumption
  <2>. DEFINE n == tmr.cnt  o == tmr.ocr[u]  l == left[u]
  <2>1. UnitInv(u)  BY <1>1
  <2>2. n \in 0..(CounterMod - 1) /\ o \in 0..(CounterMod - 1) /\ l \in Int /\ late \in 0..Latency  BY CountUnit
  <2>3. InSetup(u)' = InSetup(u) /\ Loaded(u)' = Loaded(u)  BY CountUnit DEF InSetup, Loaded
  <2>4. EnableInv(u)'  BY <2>1, <2>3, CountUnit DEF UnitInv, EnableInv
  <2>5. InSetup(u) => Busy
    BY DEF InSetup, TypeInv, CallInv, InterruptsOn, Busy
  <2>6. Loaded(u) => LoadedInv(u)' /\ ~(left'[u] < 0)
    <3>. SUFFICES ASSUME Loaded(u) PROVE LoadedInv(u)' /\ ~(left'[u] < 0)  OBVIOUS
    <3>1. Busy /\ u \in armed  BY <2>1, <2>5 DEF Loaded, UnitInv, EnableInv
    <3>2. l + late >= Latency /\ l <= CounterMod - Latency - 2 /\ reg = Ahead(n, l)  BY <2>1 DEF UnitInv, LoadedInv
    <3>3. left'[u] = l - 1 /\ late' = late + 1 /\ late < Latency /\ reg' = reg /\ tmr'.cnt = Ahead(n, 1)
      BY <3>1, CountUnit
    <3>. HIDE DEF n, l
    <3>4. l \in 1..(CounterMod - 1)  BY <2>2, <3>2, <3>3, SMT
    <3>5. Ahead(Ahead(n, 1), l - 1) = Ahead(n, l)  BY <2>2, <3>4, AheadFacts
    <3>6. left'[u] + late' >= Latency /\ left'[u] <= CounterMod - Latency - 2 /\ ~(left'[u] < 0)
      BY <2>2, <3>2, <3>3, <3>4, SMT
    <3>. QED  BY <3>2, <3>3, <3>5, <3>6 DEF LoadedInv
  <2>7. LoadedInv(u)'  BY <2>3, <2>6 DEF LoadedInv
  <2>8. u \in armed /\ ~Loaded(u) /\ l < 0 => RunningInv(u)' /\ ElapsedInv(u)'
    <3>. SUFFICES ASSUME u \in armed, ~Loaded(u), l < 0 PROVE RunningInv(u)' /\ ElapsedInv(u)'  OBVIOUS
    <3>1. tmr.flag[u] /\ l >= -(1 + late) /\ n = Ahead(o, -l)  BY <2>1 DEF UnitInv, ElapsedInv
    <3>2. Busy
      <4>1. tmr.ie[u] \/ InSetup(u)  BY <2>1 DEF UnitInv, EnableInv
      <4>2. tmr.ie[u] => Busy  BY <3>1 DEF Busy, InterruptDue, Due
      <4>. QED  BY <2>5, <4>1, <4>2
    <3>3. left'[u] = l - 1 /\ late' = late + 1 /\ late < Latency /\ tmr'.cnt = Ahead(n, 1) /\ tmr'.flag[u]
          /\ tmr'.ocr[u] = o
      BY <3>1, <3>2, CountUnit
    <3>. HIDE DEF n, l, o
    <3>. DEFINE k == -l
    <3>4. k \in 0..(CounterMod - 1) /\ -(l - 1) = k + 1  BY <2>2, <3>1, <3>3, SMT
    <3>5. n = Ahead(o, k)  BY <3>1
    <3>. HIDE DEF k
    <3>6. Ahead(n, 1) = Ahead(o, k + 1)  BY <2>2, <3>4, <3>5, AheadFacts
    <3>7. left'[u] < 0 /\ ~(left'[u] >= 0) /\ left'[u] >= -(1 + late')  BY <2>2, <3>1, <3>3, SMT
    <3>8. tmr'.cnt = Ahead(tmr'.ocr[u], -left'[u])  BY <3>3, <3>4, <3>6
    <3>. QED  BY <3>3, <3>7, <3>8 DEF RunningInv, ElapsedInv
  <2>9. u \in armed /\ ~Loaded(u) /\ l >= 0 => RunningInv(u)' /\ ElapsedInv(u)'
    <3>. SUFFICES ASSUME u \in armed, ~Loaded(u), l >= 0 PROVE RunningInv(u)' /\ ElapsedInv(u)'  OBVIOUS
    <3>1. l <= CounterMod - Latency - 2 /\ o = Ahead(n, l) /\ (tmr.blocked => l >= 1)  BY <2>1 DEF UnitInv, RunningInv
    <3>2. left'[u] = l - 1 /\ tmr'.cnt = Ahead(n, 1) /\ tmr'.ocr[u] = o /\ ~tmr'.blocked
          /\ (~tmr.blocked /\ n = o => tmr'.flag[u]) /\ late' = (IF Busy THEN late + 1 ELSE 0)
      BY CountUnit
    <3>. HIDE DEF n, l, o
    <3>3. CASE l = 0
      <4>1. n = o /\ ~tmr.blocked  BY <2>2, <3>1, <3>3, AheadFacts, SMT
      <4>. DEFINE ll == left'[u]
      <4>5. ll = l - 1  BY <3>2
      <4>. HIDE DEF ll
      <4>6. ll \in Int /\ ll < 0 /\ ll >= -1 /\ -ll = 1
        <5>1. l \in Int  BY <2>2
        <5>2. ll \in Int  BY <4>5, <5>1, SMT
        <5>3. ll + 1 = 0  BY <3>3, <4>5, <5>1, SMT
        <5>. QED  BY <5>2, <5>3, SMT
      <4>2. left'[u] \in Int /\ left'[u] < 0 /\ left'[u] >= -1 /\ -left'[u] = 1  BY <4>6 DEF ll
      <4>3. left'[u] < 0 /\ ~(left'[u] >= 0) /\ left'[u] >= -(1 + late')
        <5>1. late' \in Nat  BY <2>2, <3>2, SMT
        <5>. QED  BY <4>2, <5>1, SMT
      <4>4. tmr'.cnt = Ahead(tmr'.ocr[u], -left'[u])  BY <3>2, <4>1, <4>2
      <4>. QED  BY <3>2, <4>1, <4>3, <4>4 DEF RunningInv, ElapsedInv
    <3>4. CASE l # 0
      <4>1. l \in 1..(CounterMod - 1) /\ left'[u] >= 0 /\ ~(left'[u] < 0) /\ left'[u] <= CounterMod - Latency - 2
        BY <2>2, <3>1, <3>2, <3>4, SMT
      <4>2. Ahead(Ahead(n, 1), l - 1) = Ahead(n, l)  BY <2>2, <4>1, AheadFacts
      <4>. QED  BY <3>1, <3>2, <4>1, <4>2 DEF RunningInv, ElapsedInv
    <3>. QED  BY <3>3, <3>4
  <2>10. RunningInv(u)' /\ ElapsedInv(u)'
    <3>1. CASE u \notin armed
      <4>1. u \notin armed'  BY <3>1, CountUnit
      <4>. QED  BY <4>1 DEF RunningInv, ElapsedInv
    <3>2. CASE Loaded(u)  BY <2>3, <2>6, <3>2 DEF RunningInv, ElapsedInv
    <3>3. CASE u \in armed /\ ~Loaded(u)
      <4>1. l < 0 \/ l >= 0  BY <2>2, SMT
      <4>. QED  BY <2>8, <2>9, <3>3, <4>1
    <3>. QED  BY <3>1, <3>2, <3>3
  <2>. QED  BY <2>4, <2>7, <2>10 DEF UnitInv
<1>3. tmr'.blocked = FALSE  BY OneShotCounts DEF Count, TypeInv
<1>4. (\A u \in Units : UnitInv(u))'  BY <1>2 DEF UnitInv, EnableInv, LoadedInv, RunningInv, ElapsedInv
<1>. QED  BY <1>3, <1>4 DEF UnitsInv

(* What UnitInv(u) looks at. *)
SameUnit(u) ==
  /\ left'[u] = left[u] /\ (u \in armed' <=> u \in armed)
  /\ tmr'.cnt = tmr.cnt /\ tmr'.blocked = tmr.blocked
  /\ tmr'.ie[u] = tmr.ie[u] /\ tmr'.ocr[u] = tmr.ocr[u] /\ tmr'.flag[u] = tmr.flag[u]

LEMMA UnitKept ==
  ASSUME NEW u \in Units, UnitInv(u), SameUnit(u), late' = late,
         InSetup(u)' <=> InSetup(u), Loaded(u)' <=> Loaded(u), Loaded(u) => reg' = reg
  PROVE  UnitInv(u)'
BY DEF UnitInv, EnableInv, LoadedInv, RunningInv, ElapsedInv, SameUnit

LEMMA AllSame == ASSUME UNCHANGED <<tmr, left, armed>>, NEW u PROVE SameUnit(u)
BY DEF SameUnit

(* Without a call of setup() on its way there is none for any unit. *)
LEMMA NoSetup ==
  /\ reg = Nothing => \A u : ~InSetup(u) /\ ~Loaded(u)
  /\ reg' = Nothing => \A u : ~InSetup(u)' /\ ~Loaded(u)'
  /\ todo = <<>> => \A u : ~InSetup(u) /\ ~Loaded(u)
BY DEF InSetup, Loaded

(* A handler or a call of main begins. *)
LEMMA UnitsBegin ==
  ASSUME UnitsInv, todo = <<>>, reg = Nothing, reg' = reg, UNCHANGED <<tmr, left, armed, late>>
  PROVE  UnitsInv'
<1>1. \A u \in Units : UnitInv(u)'
  <2>. SUFFICES ASSUME NEW u \in Units PROVE UnitInv(u)'  OBVIOUS
  <2>1. UnitInv(u) /\ SameUnit(u)  BY AllSame DEF UnitsInv
  <2>. QED  BY <2>1, NoSetup, UnitKept
<1>. QED  BY <1>1 DEF UnitsInv, UnitInv, EnableInv, LoadedInv, RunningInv, ElapsedInv

(* A handler returns: a unit whose time is over has an interrupt waiting, so the time the processor is
   busy does not start anew. *)
LEMMA UnitsReturn ==
  ASSUME TypeInv, UnitsInv, Return
  PROVE  UnitsInv'
<1>1. todo = <<>> /\ UNCHANGED <<tmr, todo, reg, left, armed>> /\ late' = IF InterruptDue THEN late ELSE 0
  BY DEF Return
<1>2. reg = Nothing  BY <1>1 DEF TypeInv, CallInv
<1>3. CASE InterruptDue  BY <1>1, <1>2, <1>3, UnitsBegin
<1>4. CASE ~InterruptDue
  <2>1. \A u \in Units : UnitInv(u)'
    <3>. SUFFICES ASSUME NEW u \in Units PROVE UnitInv(u)'  OBVIOUS
    <3>1. UnitInv(u) /\ ~InSetup(u) /\ ~InSetup(u)' /\ ~Loaded(u) /\ ~Loaded(u)'  BY <1>1, <1>2, NoSetup DEF UnitsInv
    <3>2. u \in armed => ~(left[u] < 0)
      BY <1>4, <3>1 DEF UnitInv, EnableInv, ElapsedInv, InterruptDue, Due
    <3>3. ElapsedInv(u)'  BY <1>1, <3>2 DEF ElapsedInv
    <3>4. EnableInv(u)' /\ LoadedInv(u)' /\ RunningInv(u)'
      BY <1>1, <3>1 DEF UnitInv, EnableInv, LoadedInv, RunningInv
    <3>. QED  BY <3>3, <3>4 DEF UnitInv
  <2>2. late' = 0  BY <1>1, <1>4
  <2>. QED  BY <2>1, <2>2 DEF UnitsInv, UnitInv, EnableInv, LoadedInv, RunningInv, ElapsedInv
<1>. QED  BY <1>3, <1>4

(* A unit's handler: the unit is no longer set up. *)
LEMMA UnitsTrigger ==
  ASSUME TypeInv, UnitsInv, NEW v \in Units, Trigger(v)
  PROVE  UnitsInv'
<1>1. todo = <<>> /\ reg = Nothing /\ reg' = reg /\ late' = late /\ armed' = armed \ {v} /\ left' = [left EXCEPT ![v] = 0]
  BY DEF Trigger, TypeInv, CallInv
<1>2. /\ tmr'.cnt = tmr.cnt /\ tmr'.blocked = tmr.blocked /\ tmr'.ocr = tmr.ocr
      /\ tmr'.flag = [tmr.flag EXCEPT ![v] = FALSE] /\ tmr'.ie = [tmr.ie EXCEPT ![v] = FALSE]
  BY TriggerServes
<1>3. DOMAIN left = Units /\ tmr.flag \in [Units -> BOOLEAN] /\ tmr.ie \in [Units -> BOOLEAN]  BY DEF TypeInv, OneShot
<1>4. \A u \in Units : UnitInv(u)'
  <2>. SUFFICES ASSUME NEW u \in Units PROVE UnitInv(u)'  OBVIOUS
  <2>1. UnitInv(u) /\ ~InSetup(u) /\ ~InSetup(u)' /\ ~Loaded(u) /\ ~Loaded(u)'  BY <1>1, NoSetup DEF UnitsInv
  <2>2. CASE u = v
    <3>1. u \notin armed' /\ ~tmr'.ie[u]  BY <1>1, <1>2, <1>3, <2>2
    <3>. QED  BY <2>1, <3>1 DEF UnitInv, EnableInv, LoadedInv, RunningInv, ElapsedInv
  <2>3. CASE u # v
    <3>1. SameUnit(u)  BY <1>1, <1>2, <1>3, <2>3 DEF SameUnit
    <3>. QED  BY <1>1, <2>1, <3>1, UnitKept
  <2>. QED  BY <2>2, <2>3
<1>. QED  BY <1>1, <1>2, <1>4 DEF UnitsInv, UnitInv, EnableInv, LoadedInv, RunningInv, ElapsedInv

(* setup() reads the counter: the time runs from here. *)
LEMMA UnitsSetupCounter ==
  ASSUME TypeInv, UnitsInv, SetupCounter
  PROVE  UnitsInv'
<1>. DEFINE v == Head(todo).unit
            d == Span(Head(todo))
<1>1. /\ v \in Units /\ d \in Latency..(CounterMod - Latency - 2)
      /\ reg' = Ahead(tmr.cnt, d) /\ reg' \in 0..(CounterMod - 1)
      /\ left' = [left EXCEPT ![v] = d] /\ armed' = armed \union {v}
  BY SetupValue
<1>2. UNCHANGED <<tmr, todo, late>> /\ reg = Nothing /\ todo # <<>> /\ Head(todo).call = "setup"  BY DEF SetupCounter, At
<1>3. DOMAIN left = Units /\ late \in 0..Latency  BY DEF TypeInv, ClockInv, ClockTypeOK
<1>4. reg' # Nothing /\ reg' # Written  BY <1>1, CounterAssumption, SMT DEF Nothing, Written
<1>5. \A u \in Units : UnitInv(u)'
  <2>. SUFFICES ASSUME NEW u \in Units PROVE UnitInv(u)'  OBVIOUS
  <2>1. UnitInv(u) /\ ~InSetup(u) /\ ~Loaded(u)  BY <1>2, NoSetup DEF UnitsInv
  <2>2. CASE u = v
    <3>1. InSetup(u)' /\ Loaded(u)' /\ u \in armed' /\ left'[u] = d
      BY <1>1, <1>2, <1>3, <1>4, <2>2 DEF InSetup, Loaded
    <3>2. d + late >= Latency /\ d <= CounterMod - Latency - 2 /\ ~(d < 0)
      <4>. HIDE DEF d
      <4>. QED  BY <1>1, <1>3, CounterAssumption, TimersAssumption, SMT
    <3>. HIDE DEF d, v
    <3>3. LoadedInv(u)'  BY <1>1, <1>2, <3>1, <3>2 DEF LoadedInv
    <3>. QED  BY <3>1, <3>2, <3>3 DEF UnitInv, EnableInv, RunningInv, ElapsedInv
  <2>3. CASE u # v
    <3>1. SameUnit(u)  BY <1>1, <1>2, <1>3, <2>3 DEF SameUnit
    <3>2. ~InSetup(u)' /\ ~Loaded(u)'  BY <1>2, <2>3 DEF InSetup, Loaded
    <3>. QED  BY <1>2, <2>1, <3>1, <3>2, UnitKept
  <2>. QED  BY <2>2, <2>3
<1>. QED  BY <1>2, <1>5 DEF UnitsInv, UnitInv, EnableInv, LoadedInv, RunningInv, ElapsedInv

(* setup() writes the compare register: in time, because the time asked for is longer than a call takes. *)
LEMMA UnitsSetupCompare ==
  ASSUME TypeInv, UnitsInv, SetupCompare, Latency # 0
  PROVE  UnitsInv'
<1>. DEFINE v == Head(todo).unit
<1>1. v \in Units /\ tmr \in OneShot /\ tmr' = [tmr EXCEPT !.ocr = [tmr.ocr EXCEPT ![v] = reg]]
  BY SetupWrites DEF TypeInv
<1>2. UNCHANGED <<todo, left, armed, late>> /\ reg >= 0 /\ reg' = Written /\ todo # <<>> /\ Head(todo).call = "setup"
  BY DEF SetupCompare, At
<1>3. reg # Nothing /\ reg # Written /\ reg' # Nothing  BY <1>2, SMT DEF Nothing, Written
<1>4. /\ tmr'.cnt = tmr.cnt /\ tmr'.blocked = tmr.blocked /\ tmr'.ie = tmr.ie /\ tmr'.flag = tmr.flag
      /\ tmr'.ocr = [tmr.ocr EXCEPT ![v] = reg]
  <2>. DEFINE o == [tmr.ocr EXCEPT ![v] = reg]
  <2>1. tmr' = [tmr EXCEPT !.ocr = o]  BY <1>1
  <2>. HIDE DEF o
  <2>2. /\ tmr'.cnt = tmr.cnt /\ tmr'.blocked = tmr.blocked /\ tmr'.ie = tmr.ie /\ tmr'.flag = tmr.flag
        /\ tmr'.ocr = o
    BY <1>1, <2>1, SMT DEF OneShot
  <2>. QED  BY <2>2 DEF o
<1>5. DOMAIN tmr.ocr = Units /\ late \in 0..Latency /\ \A u \in Units : left[u] \in Int
  BY <1>1 DEF OneShot, TypeInv, ClockInv, ClockTypeOK
<1>6. \A u \in Units : UnitInv(u)'
  <2>. SUFFICES ASSUME NEW u \in Units PROVE UnitInv(u)'  OBVIOUS
  <2>1. UnitInv(u)  BY DEF UnitsInv
  <2>2. CASE u = v
    <3>1. InSetup(u) /\ Loaded(u) /\ InSetup(u)' /\ ~Loaded(u)' /\ u \in armed
      BY <1>2, <1>3, <2>1, <2>2 DEF InSetup, Loaded, UnitInv, EnableInv
    <3>2. left[u] + late >= Latency /\ left[u] <= CounterMod - Latency - 2 /\ reg = Ahead(tmr.cnt, left[u])
      BY <2>1, <3>1 DEF UnitInv, LoadedInv
    <3>3. left[u] >= 0 /\ ~(left[u] < 0) /\ (tmr.blocked => left[u] >= 1)
      <4>1. tmr.blocked => late = 0  BY DEF UnitsInv
      <4>. QED  BY <1>5, <3>2, <4>1, TimersAssumption, SMT
    <3>4. tmr'.ocr[u] = reg  BY <1>4, <1>5, <2>2
    <3>5. RunningInv(u)' /\ ElapsedInv(u)'  BY <1>2, <1>4, <3>2, <3>3, <3>4 DEF RunningInv, ElapsedInv
    <3>. QED  BY <1>2, <3>1, <3>5 DEF UnitInv, EnableInv, LoadedInv
  <2>3. CASE u # v
    <3>1. SameUnit(u)  BY <1>2, <1>4, <1>5, <2>3 DEF SameUnit
    <3>2. ~InSetup(u)' /\ ~Loaded(u)' /\ ~InSetup(u) /\ ~Loaded(u)  BY <1>2, <2>3 DEF InSetup, Loaded
    <3>. QED  BY <1>2, <2>1, <3>1, <3>2, UnitKept
  <2>. QED  BY <2>2, <2>3
<1>. QED  BY <1>2, <1>4, <1>6 DEF UnitsInv, UnitInv, EnableInv, LoadedInv, RunningInv, ElapsedInv

(* setup() enables the unit's interrupt. *)
LEMMA UnitsSetupEnable ==
  ASSUME TypeInv, UnitsInv, SetupEnable
  PROVE  UnitsInv'
<1>. DEFINE v == Head(todo).unit
<1>1. v \in Units /\ tmr \in OneShot /\ tmr' = [tmr EXCEPT !.ie = [tmr.ie EXCEPT ![v] = TRUE]]
  BY SetupEnables DEF TypeInv
<1>2. UNCHANGED <<left, armed, late>> /\ reg = Written /\ reg' = Nothing /\ todo # <<>> /\ Head(todo).call = "setup"
  BY DEF SetupEnable, At, CallEnds
<1>3. reg # Nothing  BY <1>2, SMT DEF Nothing, Written
<1>4. /\ tmr'.cnt = tmr.cnt /\ tmr'.blocked = tmr.blocked /\ tmr'.ocr = tmr.ocr /\ tmr'.flag = tmr.flag
      /\ tmr'.ie = [tmr.ie EXCEPT ![v] = TRUE]
  <2>. DEFINE e == [tmr.ie EXCEPT ![v] = TRUE]
  <2>1. tmr' = [tmr EXCEPT !.ie = e]  BY <1>1
  <2>. HIDE DEF e
  <2>2. /\ tmr'.cnt = tmr.cnt /\ tmr'.blocked = tmr.blocked /\ tmr'.ocr = tmr.ocr /\ tmr'.flag = tmr.flag
        /\ tmr'.ie = e
    BY <1>1, <2>1, SMT DEF OneShot
  <2>. QED  BY <2>2 DEF e
<1>5. DOMAIN tmr.ie = Units  BY <1>1 DEF OneShot
<1>6. \A u \in Units : UnitInv(u)'
  <2>. SUFFICES ASSUME NEW u \in Units PROVE UnitInv(u)'  OBVIOUS
  <2>1. UnitInv(u) /\ ~Loaded(u) /\ ~Loaded(u)' /\ ~InSetup(u)'  BY <1>2, NoSetup DEF UnitsInv, Loaded
  <2>2. CASE u = v
    <3>1. InSetup(u) /\ u \in armed /\ tmr'.ie[u]  BY <1>2, <1>3, <1>4, <1>5, <2>1, <2>2 DEF InSetup, UnitInv, EnableInv
    <3>. QED  BY <1>2, <1>4, <2>1, <3>1 DEF UnitInv, EnableInv, LoadedInv, RunningInv, ElapsedInv
  <2>3. CASE u # v
    <3>1. SameUnit(u)  BY <1>2, <1>4, <1>5, <2>3 DEF SameUnit
    <3>2. ~InSetup(u)  BY <1>2, <2>3 DEF InSetup
    <3>. QED  BY <1>2, <2>1, <3>1, <3>2, UnitKept
  <2>. QED  BY <2>2, <2>3
<1>. QED  BY <1>2, <1>4, <1>6 DEF UnitsInv, UnitInv, EnableInv, LoadedInv, RunningInv, ElapsedInv

(* getTime() concerns no unit. *)
LEMMA UnitsGetTime ==
  ASSUME UnitsInv, TimeTicks \/ TimeMicroTicks
  PROVE  UnitsInv'
<1>1. UNCHANGED <<tmr, left, armed, late>> /\ todo # <<>> /\ Head(todo).call = "getTime"
  BY DEF TimeTicks, TimeMicroTicks, At
<1>2. reg' = Nothing \/ todo' = todo  BY DEF TimeTicks, TimeMicroTicks, CallEnds
<1>3. \A u \in Units : UnitInv(u)'
  <2>. SUFFICES ASSUME NEW u \in Units PROVE UnitInv(u)'  OBVIOUS
  <2>1. ~InSetup(u) /\ ~Loaded(u) /\ ~InSetup(u)' /\ ~Loaded(u)'  BY <1>1, <1>2 DEF InSetup, Loaded
  <2>2. UnitInv(u) /\ SameUnit(u)  BY <1>1, AllSame DEF UnitsInv
  <2>. QED  BY <1>1, <2>1, <2>2, UnitKept
<1>. QED  BY <1>1, <1>3 DEF UnitsInv, UnitInv, EnableInv, LoadedInv, RunningInv, ElapsedInv

LEMMA UnitsInit == Init => UnitsInv
<1>. SUFFICES ASSUME Init PROVE UnitsInv  OBVIOUS
<1>1. todo = <<>> /\ armed = {} /\ late = 0 /\ tmr = start([NewTimer(Units, "normal") EXCEPT !.ie = [u \in Units |-> FALSE]])
  BY DEF Init
<1>2. \A u \in Units : ~tmr.ie[u]  BY <1>1, SMT DEF start, NewTimer
<1>3. \A u : ~InSetup(u) /\ ~Loaded(u)  BY <1>1, NoSetup
<1>. QED  BY <1>1, <1>2, <1>3 DEF UnitsInv, UnitInv, EnableInv, LoadedInv, RunningInv, ElapsedInv

LEMMA UnitsNext ==
  ASSUME TypeInv, UnitsInv, [Next]_vars, Latency # 0
  PROVE  UnitsInv'
<1>1. CASE Count  BY <1>1, UnitCounts
<1>2. CASE Tick \/ MainCall
  <2>1. todo = <<>> /\ reg = Nothing  BY <1>2 DEF Tick, MainCall, TypeInv, CallInv
  <2>. QED  BY <1>2, <2>1, UnitsBegin DEF Tick, MainCall
<1>3. CASE \E u \in Units : Trigger(u)  BY <1>3, UnitsTrigger
<1>4. CASE Return  BY <1>4, UnitsReturn
<1>5. CASE SetupCounter  BY <1>5, UnitsSetupCounter
<1>6. CASE SetupCompare  BY <1>6, UnitsSetupCompare
<1>7. CASE SetupEnable  BY <1>7, UnitsSetupEnable
<1>8. CASE TimeTicks \/ TimeMicroTicks  BY <1>8, UnitsGetTime
<1>9. CASE UNCHANGED vars
  BY <1>9 DEF vars, UnitsInv, UnitInv, EnableInv, LoadedInv, RunningInv, ElapsedInv, InSetup, Loaded
<1>. QED  BY <1>1, <1>2, <1>3, <1>4, <1>5, <1>6, <1>7, <1>8, <1>9 DEF Next, Cpu, Call

-----------------------------------------------------------------------------
(* The counts since the last tick was served; Since, for a unit whose setup by this tick has not
   written the compare value yet, since the tick before. *)
Period == MicroTickMax + 1
Elapsed == clk.cnt + IF Flag THEN Period ELSE 0
Since == Elapsed + IF cpu = "tick" THEN Period ELSE 0

(* Only the tick sets its units up, each once; a waiting call takes time before the counter is read;
   the first tick is served before the counter comes round to the compare registers' initial 0. *)
Punctual ==
  /\ Latency # 0 /\ MicroTickMax + Latency < CounterMod
  /\ \A i, j \in SetUps(OnTick) : OnTick[i].unit = OnTick[j].unit => i = j
  /\ \A u \in Units : \A i \in SetUps(OnMatch[u]) : OnMatch[u][i].unit \notin Ticked
  /\ \A c \in MainCalls : c.call = "setup" => c.unit \notin Ticked

(* No period ends while the tick's handler runs. *)
TickInv == cpu = "tick" => ~Flag /\ clk.cnt <= late

(* The tick's calls are still to come for units that have fired, once for each. *)
TickedCalls ==
  \A i \in SetUps(todo) : todo[i].unit \in Ticked =>
    /\ cpu = "tick" /\ Span(todo[i]) + 2 * Latency + 1 <= MicroTickMax
    /\ i # 1 \/ reg = Nothing => todo[i].unit \notin armed
    /\ \A j \in SetUps(todo) : todo[j].unit = todo[i].unit => i = j

WithinPeriod(u) == u \in armed => Elapsed + left[u] \in 0..(MicroTickMax - Latency - 1)
AgeInv(u) ==
  u \notin armed \/ Loaded(u) =>
    \E age \in 0..Since : tmr.cnt = Ahead(tmr.ocr[u], age) /\ (age = 0 => tmr.blocked)
FreshInv(u) == u \notin armed \/ left[u] >= 0 => ~tmr.flag[u]
ToCome(u) == u \notin armed /\ cpu = "tick" => \E i \in SetUps(todo) : todo[i].unit = u

TickedInv(u) == WithinPeriod(u) /\ AgeInv(u) /\ FreshInv(u) /\ ToCome(u)

PunctualInv == TypeInv /\ UnitsInv /\ TickInv /\ TickedCalls /\ \A u \in Ticked : TickedInv(u)

LEMMA TickedUnits == Ticked \subseteq Units
<1>. SUFFICES ASSUME NEW i \in SetUps(OnTick) PROVE OnTick[i].unit \in Units  BY DEF Ticked
<1>1. OnTick[i] \in Calls /\ OnTick[i].call = "setup"  BY ProgramAssumption DEF SetUps
<1>. QED  BY <1>1, SMT DEF Calls, GetTime

(* One count of both timers. *)
LEMMA TickedCount ==
  ASSUME Punctual, PunctualInv, Count
  PROVE  PunctualInv'
<1>. USE CounterAssumption, TimersAssumption
<1>0. TypeInv /\ UnitsInv /\ ClockInv /\ TickInv /\ TickedCalls  BY DEF PunctualInv, TypeInv
<1>1. TypeInv' /\ UnitsInv'  BY <1>0, TypeNext, UnitsNext DEF Next, Punctual
<1>2. UNCHANGED <<todo, reg, armed, cpu, lock, ticks>> /\ late' = (IF Busy THEN late + 1 ELSE 0) /\ (Busy => late < Latency)
  BY DEF Count
<1>3. /\ clk.cnt \in 0..MicroTickMax /\ late \in 0..Latency
      /\ clk'.cnt = IF clk.cnt = MicroTickMax THEN 0 ELSE clk.cnt + 1
      /\ Flag' = (Flag \/ clk.cnt = MicroTickMax) /\ (Flag => clk.cnt # MicroTickMax /\ Busy)
      /\ (Flag => clk.cnt <= late)
  BY <1>0, ClockFields, CountClock DEF ClockInv, ClockTypeOK
<1>4. Elapsed' = Elapsed + 1 /\ Elapsed \in Nat
  <2>1. CASE clk.cnt = MicroTickMax
    <3>1. ~Flag /\ Flag' /\ clk'.cnt = 0  BY <1>3, <2>1
    <3>. QED  BY <1>3, <2>1, <3>1, SMT DEF Elapsed, Period
  <2>2. CASE clk.cnt # MicroTickMax
    <3>1. (Flag' <=> Flag) /\ clk'.cnt = clk.cnt + 1  BY <1>3, <2>2
    <3>2. CASE Flag  BY <1>3, <3>1, <3>2, SMT DEF Elapsed, Period
    <3>3. CASE ~Flag  BY <1>3, <3>1, <3>3, SMT DEF Elapsed, Period
    <3>. QED  BY <3>2, <3>3
  <2>. QED  BY <2>1, <2>2
<1>5. cpu = "tick" => Busy  BY DEF Busy
<1>6. Since' = Since + 1 /\ Since \in 0..(CounterMod - 1)
  <2>1. CASE cpu = "tick"
    <3>1. ~Flag /\ clk.cnt <= late /\ late < Latency  BY <1>0, <1>2, <1>5, <2>1 DEF TickInv
    <3>2. Since = Elapsed + Period /\ Since' = Elapsed' + Period /\ Elapsed = clk.cnt + 0  BY <1>2, <2>1, <3>1 DEF Since, Elapsed, Period
    <3>. QED  BY <1>3, <1>4, <3>1, <3>2, SMT DEF Period, Punctual
  <2>2. CASE cpu # "tick"
    <3>1. Since = Elapsed + 0 /\ Since' = Elapsed' + 0  BY <1>2, <2>2 DEF Since
    <3>2. CASE Flag
      <4>1. Elapsed = clk.cnt + Period /\ clk.cnt <= late /\ late < Latency  BY <1>2, <1>3, <3>2 DEF Elapsed
      <4>. QED  BY <1>3, <1>4, <3>1, <4>1, SMT DEF Period, Punctual
    <3>3. CASE ~Flag
      <4>1. Elapsed = clk.cnt + 0  BY <3>3 DEF Elapsed
      <4>. QED  BY <1>3, <1>4, <3>1, <4>1, SMT
    <3>. QED  BY <3>2, <3>3
  <2>. QED  BY <2>1, <2>2
<1>7. TickInv'
  <2>. SUFFICES ASSUME cpu = "tick" PROVE ~Flag' /\ clk'.cnt <= late'  BY <1>2 DEF TickInv
  <2>1. ~Flag /\ clk.cnt <= late /\ late < Latency /\ late' = late + 1  BY <1>0, <1>2, <1>5 DEF TickInv
  <2>2. clk.cnt # MicroTickMax  BY <1>3, <2>1, SMT
  <2>3. ~Flag' /\ clk'.cnt = clk.cnt + 1  BY <1>3, <2>1, <2>2
  <2>. QED  BY <1>3, <2>1, <2>3, SMT
<1>8. TickedCalls'  BY <1>0, <1>2 DEF TickedCalls, Span, SetUps, Ticked
<1>9. ASSUME NEW u \in Ticked PROVE TickedInv(u)'
  <2>1. u \in Units /\ TickedInv(u) /\ UnitInv(u)  BY TickedUnits DEF PunctualInv, UnitsInv
  <2>. DEFINE n == tmr.cnt  o == tmr.ocr[u]  l == left[u]
  <2>2. /\ tmr'.cnt = Ahead(n, 1) /\ tmr'.blocked = FALSE /\ tmr'.ocr[u] = o
        /\ tmr'.flag[u] = (tmr.flag[u] \/ (~tmr.blocked /\ n = o))
        /\ left'[u] = (IF u \in armed THEN l - 1 ELSE 0)
        /\ n \in 0..(CounterMod - 1) /\ o \in 0..(CounterMod - 1) /\ l \in Int
    BY <1>0, <2>1, CountUnit
  <2>3. (InSetup(u)' <=> InSetup(u)) /\ (Loaded(u)' <=> Loaded(u))  BY <1>2 DEF InSetup, Loaded
  <2>4. WithinPeriod(u)'
    <3>. SUFFICES ASSUME u \in armed PROVE Elapsed' + left'[u] \in 0..(MicroTickMax - Latency - 1)
      BY <1>2 DEF WithinPeriod
    <3>1. Elapsed + l \in 0..(MicroTickMax - Latency - 1)  BY <2>1 DEF TickedInv, WithinPeriod
    <3>2. left'[u] = l - 1  BY <2>2
    <3>. HIDE DEF l
    <3>3. Elapsed' + left'[u] = Elapsed + l  BY <1>4, <2>2, <3>2, SMT
    <3>. QED  BY <3>1, <3>3
  <2>5. ASSUME u \notin armed \/ Loaded(u)
        PROVE  /\ ~tmr.blocked => n # o
               /\ \E age \in 0..Since' : tmr'.cnt = Ahead(o, age) /\ age # 0
    <3>1. PICK age \in 0..Since : n = Ahead(o, age) /\ (age = 0 => tmr.blocked)  BY <2>1, <2>5 DEF TickedInv, AgeInv
    <3>. HIDE DEF n, o
    <3>2. age \in 0..(CounterMod - 1) /\ age + 1 \in 0..Since' /\ age + 1 # 0  BY <1>6, SMT
    <3>3. Ahead(n, 1) = Ahead(o, age + 1)  BY <2>2, <3>1, <3>2, AheadFacts
    <3>4. ~tmr.blocked => n # o
      <4>1. age # 0 => age \in 1..(CounterMod - 1)  BY <3>2, SMT
      <4>. QED  BY <2>2, <3>1, <4>1, AheadFacts
    <3>. QED  BY <2>2, <3>2, <3>3, <3>4
  <2>6. AgeInv(u)'
    <3>. SUFFICES ASSUME u \notin armed \/ Loaded(u)
                  PROVE  (\E age \in 0..Since : tmr.cnt = Ahead(tmr.ocr[u], age) /\ (age = 0 => tmr.blocked))'
      BY <1>2, <2>3 DEF AgeInv
    <3>1. PICK age \in 0..Since' : tmr'.cnt = Ahead(o, age) /\ age # 0  BY <2>5
    <3>. QED  BY <2>2, <3>1
  <2>7. FreshInv(u)'
    <3>. SUFFICES ASSUME u \notin armed \/ left'[u] >= 0 PROVE ~tmr'.flag[u]  BY <1>2 DEF FreshInv
    <3>1. CASE u \notin armed
      <4>1. ~tmr.flag[u] /\ (~tmr.blocked => n # o)  BY <2>1, <2>5, <3>1 DEF TickedInv, FreshInv
      <4>. QED  BY <2>2, <4>1
    <3>2. CASE u \in armed
      <4>1. left'[u] >= 0 /\ left'[u] = l - 1  BY <2>2, <3>2
      <4>. HIDE DEF l
      <4>2. l >= 1  BY <2>2, <4>1, SMT
      <4>3. l >= 0  BY <2>2, <4>2, SMT
      <4>4. ~tmr.flag[u]  BY <2>1, <4>3 DEF TickedInv, FreshInv, l
      <4>5. CASE Loaded(u)  BY <2>2, <2>5, <4>4, <4>5
      <4>6. CASE ~Loaded(u)
        <5>1. l <= CounterMod - Latency - 2 /\ o = Ahead(n, l)
          BY <2>1, <3>2, <4>3, <4>6 DEF UnitInv, RunningInv, l
        <5>. HIDE DEF n, o
        <5>2. l \in 1..(CounterMod - 1)  BY <2>2, <4>2, <5>1, SMT
        <5>3. o # n  BY <2>2, <5>1, <5>2, AheadFacts
        <5>. QED  BY <2>2, <4>4, <5>3
      <4>. QED  BY <4>5, <4>6
    <3>. QED  BY <3>1, <3>2
  <2>8. ToCome(u)'  BY <1>2, <2>1 DEF TickedInv, ToCome, SetUps
  <2>. QED  BY <2>4, <2>6, <2>7, <2>8 DEF TickedInv
<1>10. (\A u \in Ticked : TickedInv(u))'  BY <1>9 DEF Ticked, TickedInv, WithinPeriod, AgeInv, FreshInv, ToCome
<1>. QED  BY <1>1, <1>7, <1>8, <1>10 DEF PunctualInv

(* A unit the step does not touch, seen from the same place in the period. *)
LEMMA TickedKept ==
  ASSUME NEW u \in Units, WithinPeriod(u), AgeInv(u), FreshInv(u), SameUnit(u),
         Elapsed' = Elapsed, Since' = Since, Loaded(u)' => Loaded(u)
  PROVE  WithinPeriod(u)' /\ AgeInv(u)' /\ FreshInv(u)'
<1>1. WithinPeriod(u)'  BY DEF WithinPeriod, SameUnit
<1>2. AgeInv(u)'
  <2>. SUFFICES ASSUME u \notin armed \/ Loaded(u)
                PROVE  (\E age \in 0..Since : tmr.cnt = Ahead(tmr.ocr[u], age) /\ (age = 0 => tmr.blocked))'
    BY DEF AgeInv, SameUnit
  <2>1. PICK age \in 0..Since : tmr.cnt = Ahead(tmr.ocr[u], age) /\ (age = 0 => tmr.blocked)  BY DEF AgeInv
  <2>. QED  BY <2>1 DEF SameUnit
<1>3. FreshInv(u)'  BY DEF FreshInv, SameUnit
<1>. QED  BY <1>1, <1>2, <1>3

LEMMA SameTime ==
  ASSUME UNCHANGED clk
  PROVE  Elapsed' = Elapsed /\ (Flag' <=> Flag) /\ (UNCHANGED cpu \/ (cpu # "tick" /\ cpu' # "tick") => Since' = Since)
BY DEF Elapsed, Since, Flag

(* The tick comes: by then its units have fired, because what a tick sets up takes less than a period. *)
LEMMA TickedTick ==
  ASSUME Punctual, PunctualInv, Tick
  PROVE  PunctualInv'
<1>. USE CounterAssumption, TimersAssumption
<1>0. TypeInv /\ UnitsInv /\ ClockInv /\ clk \in Clock /\ CallInv  BY DEF PunctualInv, TypeInv, ClockInv, ClockTypeOK
<1>1. TypeInv' /\ UnitsInv'  BY <1>0, TypeNext, UnitsNext DEF Next, Cpu, Punctual
<1>2. UNCHANGED <<tmr, left, armed, late, reg>> /\ cpu = "main" /\ cpu' = "tick" /\ todo' = OnTick /\ todo = <<>>
      /\ reg = Nothing /\ Flag
  BY <1>0 DEF Tick, InterruptsOn, CallInv, Due, Flag
<1>3. ~Flag' /\ clk'.cnt = clk.cnt
  <2>. DEFINE f == [clk.flag EXCEPT ![matchA] = FALSE]
  <2>1. clk' = [clk EXCEPT !.flag = f] /\ f[matchA] = FALSE  BY <1>0, ClockFields DEF Tick, Served
  <2>. HIDE DEF f
  <2>. QED  BY <1>0, <2>1, SMT DEF Clock, Flag
<1>4. clk.cnt \in 0..MicroTickMax /\ late \in 0..Latency /\ clk.cnt <= late
  BY <1>0, <1>2, ClockFields DEF ClockInv, ClockTypeOK
<1>5. TickInv'  BY <1>2, <1>3, <1>4 DEF TickInv
<1>6. Elapsed = clk.cnt + Period /\ Since = Elapsed /\ Since' = Since
  <2>1. Elapsed = clk.cnt + Period /\ Since = Elapsed + 0 /\ Elapsed' = clk.cnt + 0 /\ Since' = Elapsed' + Period
    BY <1>2, <1>3 DEF Elapsed, Since, Period
  <2>. QED  BY <1>4, <2>1, SMT DEF Period
<1>7. ASSUME NEW u \in Ticked PROVE u \in Units /\ u \notin armed
  <2>1. u \in Units /\ TickedInv(u) /\ UnitInv(u)  BY TickedUnits DEF PunctualInv, UnitsInv
  <2>2. SUFFICES ASSUME u \in armed PROVE FALSE  BY <2>1
  <2>3. Elapsed + left[u] \in 0..(MicroTickMax - Latency - 1) /\ left[u] \in Int
    BY <1>0, <2>1, <2>2 DEF TickedInv, WithinPeriod, TypeInv
  <2>4. left[u] < 0  BY <1>4, <1>6, <2>3, SMT DEF Period
  <2>5. left[u] >= -(1 + late)  BY <2>1, <2>2, <2>4 DEF UnitInv, ElapsedInv
  <2>. QED  BY <1>4, <1>6, <2>3, <2>5, SMT DEF Period
<1>8. TickedCalls'
  <2>. SUFFICES ASSUME NEW i \in SetUps(OnTick), OnTick[i].unit \in Ticked
                PROVE  /\ Span(OnTick[i]) + 2 * Latency + 1 <= MicroTickMax /\ OnTick[i].unit \notin armed
                       /\ \A j \in SetUps(OnTick) : OnTick[j].unit = OnTick[i].unit => i = j
    BY <1>2 DEF TickedCalls, SetUps, Span, Ticked
  <2>. QED  BY <1>7, ProgramAssumption DEF Punctual, Span
<1>9. ASSUME NEW u \in Ticked PROVE TickedInv(u)'
  <2>1. u \in Units /\ u \notin armed /\ TickedInv(u)  BY <1>7 DEF PunctualInv
  <2>2. WithinPeriod(u)'  BY <1>2, <2>1 DEF WithinPeriod
  <2>3. FreshInv(u)'  BY <1>2, <2>1 DEF TickedInv, FreshInv
  <2>4. AgeInv(u)'
    <3>1. PICK age \in 0..Since : tmr.cnt = Ahead(tmr.ocr[u], age) /\ (age = 0 => tmr.blocked)
      BY <2>1 DEF TickedInv, AgeInv
    <3>. QED  BY <1>2, <1>6, <3>1 DEF AgeInv
  <2>5. ToCome(u)'  BY <1>2 DEF ToCome, Ticked, SetUps
  <2>. QED  BY <2>2, <2>3, <2>4, <2>5 DEF TickedInv
<1>10. (\A u \in Ticked : TickedInv(u))'  BY <1>9 DEF Ticked, TickedInv, WithinPeriod, AgeInv, FreshInv, ToCome
<1>. QED  BY <1>1, <1>5, <1>8, <1>10 DEF PunctualInv

(* A unit's handler. *)
LEMMA TickedTrigger ==
  ASSUME Punctual, PunctualInv, NEW v \in Units, Trigger(v)
  PROVE  PunctualInv'
<1>. USE CounterAssumption, TimersAssumption
<1>0. TypeInv /\ UnitsInv /\ CallInv  BY DEF PunctualInv, TypeInv
<1>1. TypeInv' /\ UnitsInv'  BY <1>0, TypeNext, UnitsNext DEF Next, Cpu, Punctual
<1>2. UNCHANGED <<clk, late, reg>> /\ cpu = "main" /\ cpu' = v /\ todo' = OnMatch[v] /\ todo = <<>>
      /\ reg = Nothing /\ armed' = armed \ {v} /\ left' = [left EXCEPT ![v] = 0] /\ tmr.flag[v]
  BY <1>0 DEF Trigger, InterruptsOn, CallInv, Due
<1>3. cpu' # "tick" /\ cpu # "tick"  BY <1>2, SMT DEF matchA, matchB, matchC
<1>4. Elapsed' = Elapsed /\ Since' = Since /\ Since = Elapsed /\ Elapsed \in Int
  <2>1. clk.cnt \in Int  BY ClockFields, SMT DEF PunctualInv, TypeInv, ClockInv, ClockTypeOK
  <2>2. Elapsed \in Int  BY <2>1, SMT DEF Elapsed, Period
  <2>3. Since = Elapsed + 0  BY <1>3 DEF Since
  <2>. QED  BY <1>2, <1>3, <2>2, <2>3, SameTime, SMT
<1>5. TickInv' /\ TickedCalls'
  <2>1. TickInv'  BY <1>3 DEF TickInv
  <2>2. \A i \in SetUps(OnMatch[v]) : OnMatch[v][i].unit \notin Ticked  BY DEF Punctual
  <2>3. Ticked' = Ticked  BY DEF Ticked, SetUps
  <2>. QED  BY <1>2, <2>1, <2>2, <2>3 DEF TickedCalls, SetUps
<1>6. /\ tmr'.cnt = tmr.cnt /\ tmr'.blocked = tmr.blocked /\ tmr'.ocr = tmr.ocr
      /\ tmr'.flag = [tmr.flag EXCEPT ![v] = FALSE] /\ tmr'.ie = [tmr.ie EXCEPT ![v] = FALSE]
      /\ DOMAIN left = Units /\ tmr.flag \in [Units -> BOOLEAN] /\ tmr.ie \in [Units -> BOOLEAN]
  BY <1>0, TriggerServes DEF TypeInv, OneShot
<1>7. ASSUME NEW u \in Ticked PROVE TickedInv(u)'
  <2>1. u \in Units /\ TickedInv(u) /\ UnitInv(u)  BY TickedUnits DEF PunctualInv, UnitsInv
  <2>2. ToCome(u)' /\ ~Loaded(u)'  BY <1>2, <1>3 DEF ToCome, Loaded, InSetup
  <2>3. CASE u # v
    <3>1. SameUnit(u)  BY <1>2, <1>6, <2>1, <2>3 DEF SameUnit
    <3>. QED  BY <1>4, <2>1, <2>2, <3>1, TickedKept DEF TickedInv
  <2>4. CASE u = v
    <3>1. u \in armed /\ ~(left[u] >= 0) /\ left[u] \in Int  BY <1>0, <1>2, <2>1, <2>4 DEF TickedInv, FreshInv, TypeInv
    <3>2. tmr.cnt = Ahead(tmr.ocr[u], -left[u])  BY <2>1, <3>1, SMT DEF UnitInv, ElapsedInv
    <3>3. Elapsed + left[u] >= 0
      <4>1. Elapsed + left[u] \in 0..(MicroTickMax - Latency - 1)  BY <2>1, <3>1 DEF TickedInv, WithinPeriod
      <4>. QED  BY <4>1, SMT
    <3>4. -left[u] \in 0..Since' /\ -left[u] # 0  BY <1>4, <3>1, <3>3, SMT
    <3>5. AgeInv(u)'
      <4>. DEFINE k == -left[u]
      <4>1. tmr.cnt = Ahead(tmr.ocr[u], k) /\ k \in 0..Since' /\ k # 0  BY <3>2, <3>4
      <4>. HIDE DEF k
      <4>2. PICK age \in 0..Since' : tmr.cnt = Ahead(tmr.ocr[u], age) /\ age # 0  BY <4>1
      <4>. QED  BY <1>6, <4>2 DEF AgeInv
    <3>6. u \notin armed' /\ ~tmr'.flag[u]  BY <1>2, <1>6, <2>1, <2>4
    <3>. QED  BY <2>2, <3>5, <3>6 DEF TickedInv, WithinPeriod, FreshInv
  <2>. QED  BY <2>3, <2>4
<1>8. (\A u \in Ticked : TickedInv(u))'  BY <1>7 DEF Ticked, TickedInv, WithinPeriod, AgeInv, FreshInv, ToCome
<1>. QED  BY <1>1, <1>5, <1>8 DEF PunctualInv

(* A handler returns: the tick's only when each of its units has been set up. *)
LEMMA TickedReturn ==
  ASSUME Punctual, PunctualInv, Return
  PROVE  PunctualInv'
<1>0. TypeInv /\ UnitsInv /\ CallInv  BY DEF PunctualInv, TypeInv
<1>1. TypeInv' /\ UnitsInv'  BY <1>0, TypeNext, UnitsNext DEF Next, Cpu, Punctual
<1>2. UNCHANGED <<clk, tmr, left, armed, todo, reg>> /\ cpu' = "main" /\ todo = <<>> /\ SetUps(todo) = {}
  BY DEF Return, SetUps
<1>3. TickInv' /\ TickedCalls'  BY <1>2, SMT DEF TickInv, TickedCalls, SetUps
<1>4. ASSUME NEW u \in Ticked PROVE TickedInv(u)'
  <2>1. u \in Units /\ TickedInv(u) /\ ~Loaded(u)' /\ ToCome(u)'
    BY <1>2, TickedUnits, SMT DEF PunctualInv, Loaded, InSetup, ToCome
  <2>2. SameUnit(u)  BY <1>2, AllSame
  <2>3. CASE cpu = "tick"
    <3>1. u \in armed  BY <1>2, <2>1, <2>3 DEF TickedInv, ToCome
    <3>2. AgeInv(u)'  BY <1>2, <2>1, <3>1 DEF AgeInv
    <3>3. WithinPeriod(u)' /\ FreshInv(u)'  BY <1>2, <2>1, SameTime DEF TickedInv, WithinPeriod, FreshInv
    <3>. QED  BY <2>1, <3>2, <3>3 DEF TickedInv
  <2>4. CASE cpu # "tick"
    <3>1. Elapsed' = Elapsed /\ Since' = Since  BY <1>2, <2>4, SameTime
    <3>. QED  BY <2>1, <2>2, <3>1, TickedKept DEF TickedInv
  <2>. QED  BY <2>3, <2>4
<1>5. (\A u \in Ticked : TickedInv(u))'  BY <1>4 DEF Ticked, TickedInv, WithinPeriod, AgeInv, FreshInv, ToCome
<1>. QED  BY <1>1, <1>3, <1>5 DEF PunctualInv

(* Main begins a call, which concerns no unit of the tick. *)
LEMMA TickedMainCall ==
  ASSUME Punctual, PunctualInv, MainCall
  PROVE  PunctualInv'
<1>0. TypeInv /\ UnitsInv /\ CallInv  BY DEF PunctualInv, TypeInv
<1>1. TypeInv' /\ UnitsInv'  BY <1>0, TypeNext, UnitsNext DEF Next, Punctual
<1>2. UNCHANGED <<clk, tmr, left, armed, reg, cpu, late>> /\ cpu = "main" /\ todo = <<>> /\ reg = Nothing
  BY <1>0 DEF MainCall, InterruptsOn, CallInv
<1>3. PICK c \in MainCalls : todo' = <<c>>  BY DEF MainCall
<1>4. TickInv' /\ TickedCalls'
  <2>1. \A i \in SetUps(<<c>>) : <<c>>[i].unit \notin Ticked
    <3>. SUFFICES ASSUME NEW i \in SetUps(<<c>>) PROVE <<c>>[i].unit \notin Ticked  OBVIOUS
    <3>1. i = 1 /\ c.call = "setup"  BY SMT DEF SetUps
    <3>. QED  BY <3>1 DEF Punctual
  <2>2. Ticked' = Ticked  BY DEF Ticked, SetUps
  <2>3. TickedCalls'  BY <1>3, <2>1, <2>2 DEF TickedCalls, SetUps
  <2>. QED  BY <1>2, <2>3 DEF TickInv
<1>5. ASSUME NEW u \in Ticked PROVE TickedInv(u)'
  <2>1. u \in Units /\ TickedInv(u) /\ ~Loaded(u)' /\ ToCome(u)' /\ SameUnit(u)
    BY <1>2, TickedUnits, AllSame, NoSetup DEF PunctualInv, ToCome
  <2>2. Elapsed' = Elapsed /\ Since' = Since  BY <1>2, SameTime
  <2>. QED  BY <2>1, <2>2, TickedKept DEF TickedInv
<1>6. (\A u \in Ticked : TickedInv(u))'  BY <1>5 DEF Ticked, TickedInv, WithinPeriod, AgeInv, FreshInv, ToCome
<1>. QED  BY <1>1, <1>4, <1>6 DEF PunctualInv

(* setup() by the tick, of a unit that has fired, early in the period. *)
LEMMA TickedSetupCounter ==
  ASSUME Punctual, PunctualInv, SetupCounter
  PROVE  PunctualInv'
<1>. USE CounterAssumption, TimersAssumption
<1>. DEFINE v == Head(todo).unit
            d == Span(Head(todo))
<1>0. TypeInv /\ UnitsInv /\ CallInv /\ TickInv /\ TickedCalls  BY DEF PunctualInv, TypeInv
<1>1. TypeInv' /\ UnitsInv'  BY <1>0, TypeNext, UnitsNext DEF Next, Cpu, Call, Punctual
<1>2. /\ v \in Units /\ d \in Latency..(CounterMod - Latency - 2)
      /\ reg' \in 0..(CounterMod - 1) /\ left' = [left EXCEPT ![v] = d] /\ armed' = armed \union {v}
      /\ 1 \in SetUps(todo) /\ todo[1] = Head(todo)
  BY <1>0, SetupValue
<1>3. UNCHANGED <<clk, tmr, todo, late, cpu>> /\ reg = Nothing /\ reg' # Nothing /\ DOMAIN left = Units
      /\ late \in 0..Latency /\ clk.cnt \in 0..MicroTickMax
  BY <1>0, <1>2, ClockFields, SMT DEF SetupCounter, At, Nothing, TypeInv, ClockInv, ClockTypeOK
<1>4. Elapsed' = Elapsed /\ Since' = Since /\ TickInv' /\ Ticked' = Ticked
  BY <1>0, <1>3, SameTime DEF TickInv, Ticked, SetUps
<1>5. v \in Ticked => cpu = "tick" /\ v \notin armed /\ d + 2 * Latency + 1 <= MicroTickMax
                      /\ \A j \in SetUps(todo) : todo[j].unit = v => 1 = j
  BY <1>0, <1>2, <1>3 DEF TickedCalls
<1>6. TickedCalls'
  <2>. SUFFICES ASSUME NEW i \in SetUps(todo), todo[i].unit \in Ticked
                PROVE  /\ cpu = "tick" /\ Span(todo[i]) + 2 * Latency + 1 <= MicroTickMax
                       /\ i # 1 => todo[i].unit \notin armed'
                       /\ \A j \in SetUps(todo) : todo[j].unit = todo[i].unit => i = j
    BY <1>3, <1>4 DEF TickedCalls, SetUps, Span
  <2>1. /\ cpu = "tick" /\ Span(todo[i]) + 2 * Latency + 1 <= MicroTickMax /\ todo[i].unit \notin armed
        /\ \A j \in SetUps(todo) : todo[j].unit = todo[i].unit => i = j
    BY <1>0, <1>3 DEF TickedCalls
  <2>2. i # 1 => todo[i].unit # v  BY <1>2, <2>1
  <2>. QED  BY <1>2, <2>1, <2>2
<1>7. ASSUME NEW u \in Ticked PROVE TickedInv(u)'
  <2>1. u \in Units /\ TickedInv(u)  BY TickedUnits DEF PunctualInv
  <2>2. CASE u # v
    <3>1. SameUnit(u)  BY <1>2, <1>3, <2>1, <2>2 DEF SameUnit
    <3>2. ~Loaded(u)'  BY <1>3, <2>2 DEF Loaded, InSetup
    <3>3. ToCome(u)'  BY <1>3, <2>1, <3>1 DEF TickedInv, ToCome, SetUps, SameUnit
    <3>. QED  BY <1>4, <2>1, <3>1, <3>2, <3>3, TickedKept DEF TickedInv
  <2>3. CASE u = v
    <3>1. cpu = "tick" /\ u \notin armed /\ d + 2 * Latency + 1 <= MicroTickMax /\ u \in armed' /\ left'[u] = d
      BY <1>2, <1>3, <1>5, <2>3
    <3>. HIDE DEF d, v
    <3>2. ~Flag /\ clk.cnt <= late /\ Elapsed = clk.cnt + 0  BY <1>0, <3>1 DEF TickInv, Elapsed
    <3>3. Elapsed + d \in 0..(MicroTickMax - Latency - 1)  BY <1>2, <1>3, <3>1, <3>2, SMT
    <3>4. WithinPeriod(u)'  BY <1>4, <3>1, <3>3 DEF WithinPeriod
    <3>5. AgeInv(u)'  BY <1>3, <1>4, <2>1, <3>1 DEF TickedInv, AgeInv
    <3>6. FreshInv(u)' /\ ToCome(u)'  BY <1>3, <2>1, <3>1 DEF TickedInv, FreshInv, ToCome
    <3>. QED  BY <3>4, <3>5, <3>6 DEF TickedInv
  <2>. QED  BY <2>2, <2>3
<1>8. (\A u \in Ticked : TickedInv(u))'  BY <1>7 DEF Ticked, TickedInv, WithinPeriod, AgeInv, FreshInv, ToCome
<1>. QED  BY <1>1, <1>4, <1>6, <1>8 DEF PunctualInv

(* setup() writes the compare register, before the counter has come round to the old value. *)
LEMMA TickedSetupCompare ==
  ASSUME Punctual, PunctualInv, SetupCompare
  PROVE  PunctualInv'
<1>. DEFINE v == Head(todo).unit
<1>0. TypeInv /\ UnitsInv /\ CallInv /\ TickInv /\ TickedCalls  BY DEF PunctualInv, TypeInv
<1>1. TypeInv' /\ UnitsInv'  BY <1>0, TypeNext, UnitsNext DEF Next, Cpu, Call, Punctual
<1>2. UNCHANGED <<clk, todo, left, armed, late, cpu>> /\ reg >= 0 /\ reg' = Written /\ todo # <<>> /\ Head(todo).call = "setup"
  BY DEF SetupCompare, At
<1>3. reg # Nothing /\ reg' # Nothing  BY <1>2, SMT DEF Nothing, Written
<1>4. Elapsed' = Elapsed /\ Since' = Since /\ TickInv' /\ Ticked' = Ticked
  BY <1>0, <1>2, SameTime DEF TickInv, Ticked, SetUps
<1>5. TickedCalls'  BY <1>0, <1>2, <1>3, <1>4 DEF TickedCalls, SetUps, Span
<1>6. v \in Units /\ tmr \in OneShot /\ tmr' = [tmr EXCEPT !.ocr = [tmr.ocr EXCEPT ![v] = reg]]
  BY <1>0, SetupWrites DEF TypeInv
<1>7. /\ tmr'.cnt = tmr.cnt /\ tmr'.blocked = tmr.blocked /\ tmr'.ie = tmr.ie /\ tmr'.flag = tmr.flag
      /\ tmr'.ocr = [tmr.ocr EXCEPT ![v] = reg] /\ DOMAIN tmr.ocr = Units
  <2>. DEFINE o == [tmr.ocr EXCEPT ![v] = reg]
  <2>1. tmr' = [tmr EXCEPT !.ocr = o]  BY <1>6
  <2>. HIDE DEF o
  <2>2. /\ tmr'.cnt = tmr.cnt /\ tmr'.blocked = tmr.blocked /\ tmr'.ie = tmr.ie /\ tmr'.flag = tmr.flag
        /\ tmr'.ocr = o
    BY <1>6, <2>1, SMT DEF OneShot
  <2>. QED  BY <1>6, <2>2 DEF o, OneShot
<1>8. ASSUME NEW u \in Ticked PROVE TickedInv(u)'
  <2>1. u \in Units /\ TickedInv(u) /\ UnitInv(u)  BY TickedUnits DEF PunctualInv, UnitsInv
  <2>2. ToCome(u)' /\ ~Loaded(u)'  BY <1>2, <2>1 DEF TickedInv, ToCome, SetUps, Loaded, Ticked
  <2>3. CASE u # v
    <3>1. SameUnit(u)  BY <1>2, <1>7, <2>1, <2>3 DEF SameUnit
    <3>. QED  BY <1>4, <2>1, <2>2, <3>1, TickedKept DEF TickedInv
  <2>4. CASE u = v
    <3>1. u \in armed  BY <1>2, <1>3, <2>1, <2>4 DEF UnitInv, EnableInv, InSetup
    <3>2. AgeInv(u)'  BY <1>2, <2>2, <3>1 DEF AgeInv
    <3>3. WithinPeriod(u)' /\ FreshInv(u)'  BY <1>2, <1>4, <1>7, <2>1 DEF TickedInv, WithinPeriod, FreshInv
    <3>. QED  BY <2>2, <3>2, <3>3 DEF TickedInv
  <2>. QED  BY <2>3, <2>4
<1>9. (\A u \in Ticked : TickedInv(u))'  BY <1>8 DEF Ticked, TickedInv, WithinPeriod, AgeInv, FreshInv, ToCome
<1>. QED  BY <1>1, <1>4, <1>5, <1>9 DEF PunctualInv

(* A call ends, of setup() or getTime(). *)
LEMMA TickedEnds ==
  ASSUME Punctual, PunctualInv, SetupEnable \/ TimeMicroTicks
  PROVE  PunctualInv'
<1>0. TypeInv /\ UnitsInv /\ CallInv /\ TickInv /\ TickedCalls  BY DEF PunctualInv, TypeInv
<1>1. TypeInv' /\ UnitsInv'  BY <1>0, TypeNext, UnitsNext DEF Next, Cpu, Call, Punctual
<1>2. UNCHANGED <<clk, left, armed, late, cpu>> /\ reg' = Nothing /\ todo' = Tail(todo) /\ todo # <<>> /\ todo \in Seq(Calls)
  BY <1>0 DEF SetupEnable, TimeMicroTicks, At, CallEnds, CallInv
<1>3. tmr'.cnt = tmr.cnt /\ tmr'.blocked = tmr.blocked /\ tmr'.ocr = tmr.ocr /\ tmr'.flag = tmr.flag
  <2>1. CASE SetupEnable
    <3>. DEFINE v == Head(todo).unit
                e == [tmr.ie EXCEPT ![v] = TRUE]
    <3>1. tmr' = [tmr EXCEPT !.ie = e] /\ tmr \in OneShot  BY <1>0, <2>1, SetupEnables DEF TypeInv
    <3>. HIDE DEF e
    <3>. QED  BY <3>1, SMT DEF OneShot
  <2>2. CASE TimeMicroTicks  BY <2>2 DEF TimeMicroTicks
  <2>. QED  BY <2>1, <2>2
<1>4. Elapsed' = Elapsed /\ Since' = Since /\ TickInv' /\ Ticked' = Ticked
  BY <1>0, <1>2, SameTime DEF TickInv, Ticked, SetUps
<1>5. \A i \in SetUps(Tail(todo)) : i + 1 \in SetUps(todo) /\ Tail(todo)[i] = todo[i + 1] /\ i + 1 # 1 /\ i \in Nat
  BY <1>2, Program
<1>6. TickedCalls'
  <2>. SUFFICES ASSUME NEW i \in SetUps(Tail(todo)), Tail(todo)[i].unit \in Ticked
                PROVE  /\ cpu = "tick" /\ Span(Tail(todo)[i]) + 2 * Latency + 1 <= MicroTickMax
                       /\ Tail(todo)[i].unit \notin armed
                       /\ \A j \in SetUps(Tail(todo)) : Tail(todo)[j].unit = Tail(todo)[i].unit => i = j
    BY <1>2, <1>4 DEF TickedCalls, SetUps, Span
  <2>1. i + 1 \in SetUps(todo) /\ Tail(todo)[i] = todo[i + 1] /\ i + 1 # 1  BY <1>5
  <2>2. /\ cpu = "tick" /\ Span(todo[i + 1]) + 2 * Latency + 1 <= MicroTickMax /\ todo[i + 1].unit \notin armed
        /\ \A j \in SetUps(todo) : todo[j].unit = todo[i + 1].unit => i + 1 = j
    BY <1>0, <2>1 DEF TickedCalls
  <2>3. ASSUME NEW j \in SetUps(Tail(todo)), Tail(todo)[j].unit = Tail(todo)[i].unit PROVE i = j
    <3>1. i + 1 = j + 1 /\ i \in Nat /\ j \in Nat  BY <1>5, <2>1, <2>2, <2>3
    <3>. QED  BY <3>1, SMT
  <2>. QED  BY <2>1, <2>2, <2>3
<1>7. ASSUME NEW u \in Ticked PROVE TickedInv(u)'
  <2>1. u \in Units /\ TickedInv(u) /\ UnitInv(u) /\ ~Loaded(u)'
    BY <1>2, TickedUnits, NoSetup DEF PunctualInv, UnitsInv
  <2>2. WithinPeriod(u)' /\ FreshInv(u)'  BY <1>2, <1>3, <1>4, <2>1 DEF TickedInv, WithinPeriod, FreshInv
  <2>3. AgeInv(u)'
    <3>. SUFFICES ASSUME u \notin armed
                  PROVE  (\E age \in 0..Since : tmr.cnt = Ahead(tmr.ocr[u], age) /\ (age = 0 => tmr.blocked))'
      BY <1>2, <2>1 DEF AgeInv
    <3>1. PICK age \in 0..Since : tmr.cnt = Ahead(tmr.ocr[u], age) /\ (age = 0 => tmr.blocked)
      BY <2>1 DEF TickedInv, AgeInv
    <3>. QED  BY <1>3, <1>4, <3>1
  <2>4. ToCome(u)'
    <3>. SUFFICES ASSUME u \notin armed, cpu = "tick" PROVE \E i \in SetUps(Tail(todo)) : Tail(todo)[i].unit = u
      BY <1>2 DEF ToCome, SetUps
    <3>1. PICK i \in SetUps(todo) : todo[i].unit = u  BY <2>1 DEF TickedInv, ToCome
    <3>2. i # 1
      <4>. SUFFICES ASSUME i = 1 PROVE FALSE  OBVIOUS
      <4>1. Head(todo) = todo[1] /\ Head(todo).call = "setup"  BY <1>2, <3>1, Program
      <4>2. SetupEnable  BY <4>1, SMT DEF TimeMicroTicks, At
      <4>3. reg = Written /\ reg # Nothing  BY <4>2, SMT DEF SetupEnable, At, Nothing, Written
      <4>4. InSetup(u)  BY <1>2, <3>1, <4>1, <4>3 DEF InSetup
      <4>. QED  BY <2>1, <4>4 DEF UnitInv, EnableInv
    <3>3. i - 1 \in SetUps(Tail(todo)) /\ Tail(todo)[i - 1] = todo[i]  BY <1>2, <3>2, Program
    <3>. QED  BY <3>1, <3>3
  <2>. QED  BY <2>1, <2>2, <2>3, <2>4 DEF TickedInv
<1>8. (\A u \in Ticked : TickedInv(u))'  BY <1>7 DEF Ticked, TickedInv, WithinPeriod, AgeInv, FreshInv, ToCome
<1>. QED  BY <1>1, <1>4, <1>6, <1>8 DEF PunctualInv

(* getTime() reads the tick count. *)
LEMMA TickedTimeTicks ==
  ASSUME Punctual, PunctualInv, TimeTicks
  PROVE  PunctualInv'
<1>0. TypeInv /\ UnitsInv /\ CallInv /\ TickInv /\ TickedCalls  BY DEF PunctualInv, TypeInv
<1>1. TypeInv' /\ UnitsInv'  BY <1>0, TypeNext, UnitsNext DEF Next, Cpu, Call, Punctual
<1>2. UNCHANGED <<clk, tmr, todo, left, armed, late, cpu>> /\ todo # <<>> /\ Head(todo).call = "getTime" /\ reg = Nothing
      /\ todo \in Seq(Calls)
  BY <1>0 DEF TimeTicks, At, CallInv
<1>3. Elapsed' = Elapsed /\ Since' = Since /\ TickInv' /\ Ticked' = Ticked
  BY <1>0, <1>2, SameTime DEF TickInv, Ticked, SetUps
<1>4. TickedCalls'  BY <1>0, <1>2, <1>3 DEF TickedCalls, SetUps, Span
<1>5. ASSUME NEW u \in Ticked PROVE TickedInv(u)'
  <2>1. u \in Units /\ TickedInv(u) /\ SameUnit(u) /\ ~Loaded(u)'
    BY <1>2, TickedUnits, AllSame, SMT DEF PunctualInv, Loaded, InSetup
  <2>2. ToCome(u)'  BY <1>2, <2>1 DEF TickedInv, ToCome, SetUps
  <2>. QED  BY <1>3, <2>1, <2>2, TickedKept DEF TickedInv
<1>6. (\A u \in Ticked : TickedInv(u))'  BY <1>5 DEF Ticked, TickedInv, WithinPeriod, AgeInv, FreshInv, ToCome
<1>. QED  BY <1>1, <1>3, <1>4, <1>6 DEF PunctualInv

(* At the start no unit is set up, and both counters are held for one count. *)
LEMMA TickedInit == Init => PunctualInv
<1>. SUFFICES ASSUME Init PROVE PunctualInv  OBVIOUS
<1>1. TypeInv /\ UnitsInv  BY TypeInit, UnitsInit
<1>2. cpu = "main" /\ todo = <<>> /\ armed = {} /\ SetUps(todo) = {}  BY DEF Init, SetUps
<1>3. \A u \in Units : tmr.ocr[u] = 0 /\ ~tmr.flag[u]  BY SMT DEF Init, start, NewTimer
<1>4. tmr.cnt = 0 /\ tmr.blocked  BY SMT DEF Init, start, NewTimer
<1>5. TickInv /\ TickedCalls  BY <1>2 DEF TickInv, TickedCalls
<1>6. Since \in Nat
  <2>1. clk.cnt \in Nat  BY <1>1, ClockFields, TimersAssumption, SMT DEF TypeInv, ClockInv, ClockTypeOK
  <2>. QED  BY <2>1, TimersAssumption, SMT DEF Since, Elapsed, Period
<1>7. Ahead(0, 0) = 0  BY CounterAssumption, SMT DEF Ahead
<1>8. ASSUME NEW u \in Ticked PROVE TickedInv(u)
  <2>1. u \in Units  BY TickedUnits
  <2>2. 0 \in 0..Since  BY <1>6, SMT
  <2>3. AgeInv(u)  BY <1>3, <1>4, <1>7, <2>1, <2>2 DEF AgeInv
  <2>. QED  BY <1>2, <1>3, <2>1, <2>3 DEF TickedInv, WithinPeriod, FreshInv, ToCome
<1>. QED  BY <1>1, <1>5, <1>8 DEF PunctualInv

LEMMA TickedNext ==
  ASSUME Punctual, PunctualInv, [Next]_vars
  PROVE  PunctualInv'
<1>1. CASE Count  BY <1>1, TickedCount
<1>2. CASE Tick  BY <1>2, TickedTick
<1>3. CASE \E u \in Units : Trigger(u)  BY <1>3, TickedTrigger
<1>4. CASE Return  BY <1>4, TickedReturn
<1>5. CASE MainCall  BY <1>5, TickedMainCall
<1>6. CASE SetupCounter  BY <1>6, TickedSetupCounter
<1>7. CASE SetupCompare  BY <1>7, TickedSetupCompare
<1>8. CASE SetupEnable \/ TimeMicroTicks  BY <1>8, TickedEnds
<1>9. CASE TimeTicks  BY <1>9, TickedTimeTicks
<1>10. CASE UNCHANGED vars
  <2>1. TypeInv' /\ UnitsInv'  BY <1>10, TypeNext, UnitsNext DEF PunctualInv, Punctual
  <2>2. UNCHANGED <<clk, tmr, todo, reg, left, armed, late, cpu>>  BY <1>10 DEF vars
  <2>3. Elapsed' = Elapsed /\ Since' = Since /\ Flag' = Flag  BY <2>2 DEF Since, Elapsed, Flag
  <2>4. TickInv' /\ TickedCalls'  BY <2>2, <2>3 DEF PunctualInv, TickInv, TickedCalls, SetUps, Ticked
  <2>5. (\A u \in Ticked : TickedInv(u))'
    BY <2>2, <2>3 DEF PunctualInv, TickedInv, WithinPeriod, AgeInv, FreshInv, ToCome, SetUps, Ticked, Loaded, InSetup
  <2>. QED  BY <2>1, <2>4, <2>5 DEF PunctualInv
<1>. QED  BY <1>1, <1>2, <1>3, <1>4, <1>5, <1>6, <1>7, <1>8, <1>9, <1>10 DEF Next, Cpu, Call

(* A callback runs only for a setup() that has not had its callback, no later than its time and the
   latency, and one that the tick sets up never early: for every width of the counter, every length
   of a period and every program of callbacks whose units do not get in each other's way. *)
THEOREM CallbacksOnTime ==
  ASSUME Punctual
  PROVE  Spec => OnTime
<1>1. Init => PunctualInv  BY TickedInit
<1>2. PunctualInv /\ [Next]_vars => PunctualInv'  BY TickedNext
<1>3. PunctualInv /\ [Next]_vars =>
        [\A u \in Units : tmr.flag[u] /\ ~tmr'.flag[u] =>
           /\ u \in armed /\ left[u] >= -(1 + Latency)
           /\ u \in Ticked => left[u] < 0]_vars
  <2>. SUFFICES ASSUME PunctualInv, Next, NEW u \in Units, tmr.flag[u], ~tmr'.flag[u]
                PROVE  u \in armed /\ left[u] >= -(1 + Latency) /\ (u \in Ticked => left[u] < 0)
    OBVIOUS
  <2>1. TypeInv /\ UnitsInv /\ tmr \in OneShot  BY DEF PunctualInv, TypeInv
  <2>2. Trigger(u)
    <3>1. CASE Count  BY <2>1, <3>1, CountUnit
    <3>2. CASE \E v \in Units : Trigger(v)
      <4>1. PICK v \in Units : Trigger(v)  BY <3>2
      <4>2. tmr'.flag = [tmr.flag EXCEPT ![v] = FALSE]  BY <2>1, <4>1, TriggerServes
      <4>3. u = v  BY <2>1, <4>2 DEF OneShot
      <4>. QED  BY <4>1, <4>3
    <3>3. CASE SetupCompare
      <4>. DEFINE o == [tmr.ocr EXCEPT ![Head(todo).unit] = reg]
      <4>1. tmr' = [tmr EXCEPT !.ocr = o]  BY <2>1, <3>3, SetupWrites
      <4>. HIDE DEF o
      <4>2. tmr'.flag = tmr.flag  BY <2>1, <4>1, SMT DEF OneShot
      <4>. QED  BY <4>2
    <3>4. CASE SetupEnable
      <4>. DEFINE e == [tmr.ie EXCEPT ![Head(todo).unit] = TRUE]
      <4>1. tmr' = [tmr EXCEPT !.ie = e]  BY <2>1, <3>4, SetupEnables
      <4>. HIDE DEF e
      <4>2. tmr'.flag = tmr.flag  BY <2>1, <4>1, SMT DEF OneShot
      <4>. QED  BY <4>2
    <3>5. CASE tmr' = tmr  BY <3>5
    <3>. QED  BY <3>1, <3>2, <3>3, <3>4, <3>5
          DEF Next, Cpu, Call, Tick, Return, MainCall, SetupCounter, TimeTicks, TimeMicroTicks
  <2>3. u \in armed /\ left[u] \in Int /\ late \in 0..Latency
    BY <2>1, <2>2 DEF Trigger, Due, UnitsInv, UnitInv, EnableInv, TypeInv, ClockInv, ClockTypeOK
  <2>4. left[u] >= -(1 + Latency)
    <3>1. CASE left[u] >= 0  BY <2>3, <3>1, TimersAssumption, SMT
    <3>2. CASE left[u] < 0
      <4>1. left[u] >= -(1 + late)  BY <2>1, <2>3, <3>2 DEF UnitsInv, UnitInv, ElapsedInv
      <4>. QED  BY <2>3, <4>1, TimersAssumption, SMT
    <3>. QED  BY <2>3, <3>1, <3>2, SMT
  <2>5. u \in Ticked => ~(left[u] >= 0)  BY DEF PunctualInv, TickedInv, FreshInv
  <2>. QED  BY <2>3, <2>4, <2>5, SMT
<1>. QED  BY <1>1, <1>2, <1>3, PTL DEF Spec, OnTime
=============================================================================
