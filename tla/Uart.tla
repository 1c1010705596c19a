-------------------------------- MODULE Uart --------------------------------
(***************************************************************************)
(* The serial line between stations: Uart::configure<...>::Core and        *)
(* InterruptExtension of src/include/avr-halib/drivers/avr/uart.h, and the *)
(* AVR USART behind them (external).                                       *)
(*                                                                         *)
(* udr[s] is the transmit data register of station s, wire[s] the          *)
(* character that has left it: on the line or in the receive register of   *)
(* Peer[s].  The receive register is read once per character time, so one  *)
(* character is in flight; with Lossy a character may vanish (line noise,  *)
(* or a data overrun because the receiver was late).                       *)
(***************************************************************************)
CONSTANTS Station,   \* the stations on the line
          Peer,      \* Peer[s] receives what s sends; Peer[s] = s is a loop-back plug
          Empty      \* no character

VARIABLES udr, wire

uartVars == <<udr, wire>>

ASSUME UartAssumption ==
  /\ Peer \in [Station -> Station]
  /\ \A s, t \in Station : Peer[s] = Peer[t] => s = t
  /\ \A p \in Station : \E s \in Station : Peer[s] = p

UartTypeOK(Char) ==
  /\ udr  \in [Station -> Char \cup {Empty}]
  /\ wire \in [Station -> Char \cup {Empty}]

UartInit ==
  /\ udr  = [s \in Station |-> Empty]
  /\ wire = [s \in Station |-> Empty]

\* Flag UDRE: the data register takes another character.
Ready(s) == udr[s] = Empty

\* The station whose characters p receives.
Source(p) == CHOOSE s \in Station : Peer[s] = p

\* Flag RXC: a character waits for p.
RxReady(p) == wire[Source(p)] # Empty

\* The hardware ignores a character written while UDRE is clear.
Put(s, c) == udr' = IF Ready(s) THEN [udr EXCEPT ![s] = c] ELSE udr

\* Reading the receive data register frees it.
Get(p) == wire' = [wire EXCEPT ![Source(p)] = Empty]

-----------------------------------------------------------------------------
(* Hardware steps (external). *)

Shift(s) ==
  /\ udr[s] # Empty
  /\ wire[s] = Empty
  /\ wire' = [wire EXCEPT ![s] = udr[s]]
  /\ udr'  = [udr EXCEPT ![s] = Empty]

Lose(s) ==
  /\ wire[s] # Empty
  /\ wire' = [wire EXCEPT ![s] = Empty]
  /\ UNCHANGED udr
=============================================================================
