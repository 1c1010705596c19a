------------------------------- MODULE Timers -------------------------------
(***************************************************************************)
(* Clock (drivers/avr/clock.h) and OneShotTimer (drivers/avr/oneShotTimer.h) *)
(* on two timers of one processor, put together as in                      *)
(* examples/src/oneShot.cpp: the clock's callback sets the one-shot units  *)
(* up, their callbacks read the clock.  Main, too, may set up a unit or    *)
(* read the clock, with interrupts locked.                                 *)
(*                                                                         *)
(* Time passes between any two steps of the program.  What a handler does  *)
(* is a list of calls still to make; a call is one step per access to a    *)
(* counter, a compare register, an enable bit or the tick count.           *)
(***************************************************************************)
EXTENDS TimerUnit, Sequences, FiniteSets

CONSTANTS
  MicroTickMax,  \* config::microTickMax of the clock
  TickMod,       \* the values of TickValueType
  Factor,        \* Factor::value: one-shot counts per unit of setup()'s argument
  Units,         \* the compare units of the one-shot timer
  OnTick,        \* the calls of the clock's callback
  OnMatch,       \* the calls of each unit's callback
  MainCalls,     \* the calls main makes
  Latency        \* counts that pass at most while an interrupt waits or the processor is busy

SetUp(unit, value) == [call |-> "setup", unit |-> unit, value |-> value]
GetTime == [call |-> "getTime"]
Calls == [call : {"setup"}, unit : Units, value : Nat] \union {GetTime}
SetUps(calls) == {i \in DOMAIN calls : calls[i].call = "setup"}

\* The processor serves a tick before the next.
ASSUME TimersAssumption ==
  /\ MicroTickMax \in 1..(CounterMod - 1) /\ TickMod \in Nat \ {0, 1, 2} /\ Factor \in Nat \ {0}
  /\ Units # {} /\ Units \subseteq {matchA, matchB, matchC} /\ Latency \in Nat /\ Latency < MicroTickMax

\* Handlers and main make such calls; a time is longer than a call takes and fits the counter,
\* and what a tick sets up has fired before the next tick.
ASSUME ProgramAssumption ==
  /\ OnTick \in Seq(Calls) /\ OnMatch \in [Units -> Seq(Calls)] /\ MainCalls \subseteq Calls
  /\ \A calls \in {OnTick} \union {OnMatch[u] : u \in Units} \union {<<c>> : c \in MainCalls} :
       \A i \in SetUps(calls) : calls[i].value * Factor \in Latency..(CounterMod - Latency - 2)
  /\ \A i \in SetUps(OnTick) : OnTick[i].value * Factor + 2 * Latency + 1 <= MicroTickMax

VARIABLES
  clk, tmr,   \* the timers of the clock and of the one-shot timer
  ticks,      \* ClockImpl::ticks
  cpu,        \* "main", "tick" or the unit whose handler runs
  lock,       \* main holds a GlobalIntLock
  todo, reg,  \* the calls still to make, and the value the first of them has loaded
  lag,        \* counts the last result of getTime() is behind the time
  late,       \* counts since the processor last was idle
  left,       \* counts until each unit is due, as setup() was told; only for units in armed
  armed,      \* the units that were set up and have not fired
  full        \* periods of the clock's timer

vars == <<clk, tmr, ticks, cpu, lock, todo, reg, lag, late, left, armed, full>>

Nothing == -1   \* nothing loaded yet
Written == -2   \* the compare register is written

InterruptDue == Due(clk, matchA) \/ \E u \in Units : Due(tmr, u)
Busy == cpu # "main" \/ lock \/ InterruptDue

Init ==
  /\ clk = start(setOutputCompareValue(NewTimer({matchA}, "ctc"), matchA, MicroTickMax))
  /\ tmr = start([NewTimer(Units, "normal") EXCEPT !.ie = [u \in Units |-> FALSE]])
  /\ ticks = 0 /\ cpu = "main" /\ lock = FALSE /\ todo = <<>> /\ reg = Nothing
  /\ lag = 0 /\ late = 0 /\ left = [u \in Units |-> 0] /\ armed = {} /\ full = 0

(* both timers run from the same prescaled clock *)
Count ==
  /\ Busy => late < Latency
  /\ late' = IF Busy THEN late + 1 ELSE 0
  /\ clk' = Counted(clk) /\ tmr' = Counted(tmr)
  /\ full' = IF clk.cnt = Top(clk) THEN (full + 1) % TickMod ELSE full
  /\ left' = [u \in Units |-> IF u \in armed THEN left[u] - 1 ELSE 0]
  /\ UNCHANGED <<ticks, cpu, lock, todo, reg, lag, armed>>

-----------------------------------------------------------------------------
(* handlers *)

InterruptsOn == cpu = "main" /\ ~lock

\* Mutant of NextTick: the count stops at its end.
NextTickStops == IF ticks = TickMod - 1 THEN ticks ELSE ticks + 1
NextTick == (ticks + 1) % TickMod

(* ClockImpl::tick() *)
Tick ==
  /\ InterruptsOn /\ Due(clk, matchA)
  /\ clk' = Served(clk, matchA) /\ ticks' = NextTick
  /\ cpu' = "tick" /\ todo' = OnTick
  /\ UNCHANGED <<tmr, lock, reg, lag, late, left, armed, full>>

\* Mutants of Disarmed: the interrupt stays enabled; the whole mask is cleared for one unit's bit.
DisarmedNot(t, u) == t
DisarmedAll(t, u) == [t EXCEPT !.ie = [v \in DOMAIN @ |-> FALSE]]
Disarmed(t, u) == setOutputCompareInterrupt(t, u, FALSE)

(* triggerA(), triggerB(), triggerC() *)
Trigger(u) ==
  /\ InterruptsOn /\ Due(tmr, u)
  /\ tmr' = Disarmed(Served(tmr, u), u)
  /\ cpu' = u /\ todo' = OnMatch[u]
  /\ armed' = armed \ {u} /\ left' = [left EXCEPT ![u] = 0]
  /\ UNCHANGED <<clk, ticks, lock, reg, lag, late, full>>

ReleasesLock == lock' = FALSE

(* the handler returns, or main lets go of the lock *)
Return ==
  /\ todo = <<>> /\ (cpu # "main" \/ lock)
  /\ cpu' = "main" /\ ReleasesLock
  /\ late' = IF InterruptDue THEN late ELSE 0
  /\ UNCHANGED <<clk, tmr, ticks, todo, reg, lag, left, armed, full>>

(* main begins a call, with interrupts locked; an interrupt that is due comes first *)
MainCall ==
  /\ InterruptsOn /\ ~InterruptDue
  /\ \E c \in MainCalls : todo' = <<c>>
  /\ lock' = TRUE
  /\ UNCHANGED <<clk, tmr, ticks, cpu, reg, lag, late, left, armed, full>>

-----------------------------------------------------------------------------
(* calls, one access a step *)

At(call, loaded) == todo # <<>> /\ Head(todo).call = call /\ loaded
CallEnds == todo' = Tail(todo) /\ reg' = Nothing

\* Mutant of CompareValue: the sum is not cut to the width of the counter.
CompareValueWide(value) == getCounter(tmr) + value * Factor
CompareValue(value) == (getCounter(tmr) + value * Factor) % CounterMod

(* OneShotTimer::setup() *)
SetupCounter ==
  /\ At("setup", reg = Nothing)
  /\ reg' = CompareValue(Head(todo).value)
  /\ left' = [left EXCEPT ![Head(todo).unit] = Head(todo).value * Factor]
  /\ armed' = armed \union {Head(todo).unit}
  /\ UNCHANGED <<clk, tmr, ticks, cpu, lock, todo, lag, late, full>>
SetupCompare ==
  /\ At("setup", reg >= 0)
  /\ tmr' = setOutputCompareValue(tmr, Head(todo).unit, reg) /\ reg' = Written
  /\ UNCHANGED <<clk, ticks, cpu, lock, todo, lag, late, left, armed, full>>
SetupEnable ==
  /\ At("setup", reg = Written)
  /\ tmr' = setOutputCompareInterrupt(tmr, Head(todo).unit, TRUE) /\ CallEnds
  /\ UNCHANGED <<clk, ticks, cpu, lock, lag, late, left, armed, full>>

(* ClockImpl::getTime(): the ticks, then the counter *)
TimeOf(t, micro) == t * (MicroTickMax + 1) + micro
Behind(t, micro) == (TimeOf(full, clk.cnt) - TimeOf(t, micro)) % (TickMod * (MicroTickMax + 1))
Reads(t, micro) == lag' = Behind(t, micro)
\* Mutant of Completes: the two fields are exchanged.
CompletesSwapped == Reads(getCounter(clk), reg)
Completes == Reads(reg, getCounter(clk))
TimeTicks ==
  /\ At("getTime", reg = Nothing)
  /\ reg' = ticks
  /\ UNCHANGED <<clk, tmr, ticks, cpu, lock, todo, lag, late, left, armed, full>>
TimeMicroTicks ==
  /\ At("getTime", reg >= 0)
  /\ Completes /\ CallEnds
  /\ UNCHANGED <<clk, tmr, ticks, cpu, lock, late, left, armed, full>>

Call == SetupCounter \/ SetupCompare \/ SetupEnable \/ TimeTicks \/ TimeMicroTicks
Cpu == Tick \/ (\E u \in Units : Trigger(u)) \/ Return \/ Call
Next == Count \/ Cpu \/ MainCall

(* time passes, and the processor does not stand still *)
Fairness == WF_vars(Count) /\ WF_vars(Cpu)
Spec == Init /\ [][Next]_vars /\ Fairness
=============================================================================
