---------------------------- MODULE MCSerialBoot ----------------------------
(* Blocks of half a page, a page and an EEPROM byte; their data look like commands and types. *)
EXTENDS SerialBootProps
MCBlocks == {[mem |-> "FLASH", data |-> <<1, 70>>], [mem |-> "FLASH", data |-> <<101, 69, 65, 2>>],
             [mem |-> "EEPROM", data |-> <<3>>]}
MCAsks == {[bytes |-> <<98>>, want |-> 3], [bytes |-> <<120, 0>>, want |-> 1]}
ASSUME HostWorks == AsksFit /\ WholeWords /\ Unmistakable /\ OneLoss
=============================================================================
