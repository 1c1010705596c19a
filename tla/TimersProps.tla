---------------------------- MODULE TimersProps ----------------------------
(***************************************************************************)
(* What the clock and the one-shot timer promise, for interrupts that come *)
(* at any time and are served within Latency counts.                       *)
(***************************************************************************)
EXTENDS Timers

Timer(units) == [cnt : 0..(CounterMod - 1), waveForm : {"ctc", "normal"}, blocked : BOOLEAN, started : BOOLEAN,
                 ocr : [units -> 0..(CounterMod - 1)], ie : [units -> BOOLEAN], flag : [units -> BOOLEAN]]

(* Types: compare values stay in the width of the counter. *)
TimersTypeOK ==
  /\ clk \in Timer({matchA}) /\ tmr \in Timer(Units) /\ ticks \in 0..(TickMod - 1)
  /\ cpu \in {"main", "tick"} \union Units /\ lock \in BOOLEAN
  /\ reg \in {Nothing, Written} \union 0..(CounterMod - 1) \union 0..(TickMod - 1)
  /\ late \in 0..Latency /\ armed \subseteq Units /\ DOMAIN left = Units /\ full \in 0..(TickMod - 1)

(* tick() counts every period of its timer, also those that end while another handler runs or main
   holds a lock, and when the count wraps. *)
EveryTickCounted == full = (ticks + IF clk.flag[matchA] THEN 1 ELSE 0) % TickMod

(* getTime() reads two values that change at different times; called with interrupts off, the
   result is never ahead of the time and never more than a tick behind it. *)
ReadingNearTheTime == lag <= MicroTickMax + 1

(* setup() sets the units that the clock's callback sets up every tick; the others come from main
   or from another unit's callback, when a match of long ago may have left the flag up. *)
Ticked == {OnTick[i].unit : i \in SetUps(OnTick)}

(* A callback runs only for a setup() that has not had its callback yet, and no later than the
   time asked for and the latency; a unit that is set up again every tick also never fires early.
   A compare value that was passed before it was written would match a whole round later: counts
   pass between reading the counter and writing the register, the counter wraps, units share the
   lock, and setup() never clears the compare flag. *)
OnTime ==
  [][\A u \in Units : tmr.flag[u] /\ ~tmr'.flag[u] =>
       /\ u \in armed /\ left[u] >= -(1 + Latency)
       /\ u \in Ticked => left[u] < 0]_vars

(* Whoever was set up is called, without help from a later setup(): the wait of a unit that the
   clock's callback sets up ends only by its own callback, so the next tick never finds it waiting;
   the wait of another unit ends by its callback or by a new setup(), and a new setup() never finds
   a unit whose time is over by more than the latency. *)
Waiting(u) == u \in armed /\ \A i \in SetUps(todo) : todo[i].unit # u
SetUpNow(u) == todo # <<>> /\ 1 \in SetUps(todo) /\ todo[1].unit = u /\ reg = Nothing
EventuallyFires ==
  /\ \A u \in Ticked : Waiting(u) ~> cpu = u
  /\ \A u \in Units \ Ticked : Waiting(u) ~> (cpu = u \/ SetUpNow(u))
  /\ [](\A u \in armed : SetUpNow(u) => u \notin Ticked /\ left[u] >= -(1 + Latency))
=============================================================================
