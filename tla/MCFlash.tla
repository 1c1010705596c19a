------------------------------ MODULE MCFlash ------------------------------
(* The default configuration, the one in which the driver does everything, and one in which it erases
   but leaves the addresses and the page writes to the client. *)
EXTENDS FlashProps
Configuration(increment, writePage, erase, preserve) ==
  [autoIncrement |-> increment, autoWritePage |-> writePage, autoErase |-> erase, preserveUnset |-> preserve]
MCConfigs == {Configuration(TRUE, TRUE, FALSE, FALSE), Configuration(TRUE, TRUE, TRUE, TRUE),
              Configuration(FALSE, FALSE, TRUE, FALSE)}
=============================================================================
