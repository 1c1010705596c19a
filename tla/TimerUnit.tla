----------------------------- MODULE TimerUnit -----------------------------
(***************************************************************************)
(* A hardware timer with its output compare units, and the methods of the  *)
(* timer layers (timer/base.h, timer/outputCompareUnit.h) as operators on  *)
(* it.  The compare interrupt of a unit is due when its flag is up and its *)
(* enable bit is set; the flag goes up one count behind the match.         *)
(***************************************************************************)
EXTENDS Integers

CONSTANT CounterMod   \* the counter's values, a power of two

ASSUME CounterAssumption == CounterMod \in Nat \ {0}

matchA == "matchA"
matchB == "matchB"
matchC == "matchC"

(* Base and OutputCompareUnit constructors: the write to TCNT keeps the next count from matching *)
NewTimer(units, waveForm) ==
  [cnt |-> 0, waveForm |-> waveForm, blocked |-> TRUE, started |-> FALSE,
   ocr |-> [u \in units |-> 0], ie |-> [u \in units |-> TRUE], flag |-> [u \in units |-> FALSE]]

start(t) == [t EXCEPT !.started = TRUE]
getCounter(t) == t.cnt
setOutputCompareValue(t, u, value) == [t EXCEPT !.ocr[u] = value]
setOutputCompareInterrupt(t, u, value) == [t EXCEPT !.ie[u] = value]

(* the hardware: one count, in clear-on-compare-match or in normal mode *)
Top(t) == IF t.waveForm = "ctc" THEN t.ocr[matchA] ELSE CounterMod - 1
Counted(t) ==
  IF ~t.started THEN t
  ELSE [t EXCEPT !.cnt = IF @ = Top(t) THEN 0 ELSE (@ + 1) % CounterMod,
                 !.blocked = FALSE,
                 !.flag = [u \in DOMAIN @ |-> @[u] \/ (~t.blocked /\ t.cnt = t.ocr[u])]]
Due(t, u) == t.flag[u] /\ t.ie[u]
Served(t, u) == [t EXCEPT !.flag[u] = FALSE]
=============================================================================
