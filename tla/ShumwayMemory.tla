--------------------------- MODULE ShumwayMemory ---------------------------
(***************************************************************************)
(* The asynchronous flash and EEPROM drivers of the Shumway boot loader    *)
(* (lib/mcu/flash, lib/mcu/eeprom).  A job is handed over from the main    *)
(* loop; the SPM_READY and EE_READY interrupts then carry it out, one page *)
(* operation, one word or one byte at a time, and call back at the end.    *)
(*                                                                         *)
(* A page operation closes the application section for reading until it is *)
(* opened again (RWWSRE).  A read of the closed section returns nothing    *)
(* useful: here either the blank byte or Garbage.                          *)
(***************************************************************************)
EXTENDS Integers, Sequences

CONSTANTS PageSize,    \* bytes of a flash page (SPM_PAGESIZE)
          FlashSize,   \* bytes of the application section
          EepromSize,  \* bytes of the EEPROM (E2END + 1)
          Data,        \* the bytes a host programs
          Blank,       \* BLANK_BYTE, 0xFF
          Garbage      \* any byte nobody programmed

ASSUME PageAssumption ==
  /\ PageSize \in Nat \ {0} /\ PageSize % 2 = 0
  /\ FlashSize \in Nat \ {0} /\ FlashSize % PageSize = 0
  /\ EepromSize \in Nat \ {0}
ASSUME ByteAssumption == Blank # Garbage /\ {Blank, Garbage} \cap Data = {}

VARIABLES flash,     \* the application section
          page,      \* the temporary page buffer of the controller
          readable,  \* is the application section open for reading (~RWWSB)
          spm,       \* the flash job: _cb (of a write, of an erase, none), _irq_handler, addresses, what is left
          eeprom,
          ee         \* the EEPROM job: _cb, _addr, _dest_addr, what is left

memVars == <<flash, page, readable, spm, eeprom, ee>>

NoFlashJob == [cb |-> "none", handler |-> "exit", dest |-> 0, tmp |-> 0, fill |-> 0, buffer |-> <<>>]
NoEepromJob == [cb |-> "none", addr |-> 0, dest |-> -1, buffer |-> <<>>]

MemInit ==
  /\ flash = [a \in 0..(FlashSize - 1) |-> Garbage]
  /\ page = [i \in 0..(PageSize - 1) |-> Blank]
  /\ readable = TRUE
  /\ spm = NoFlashJob
  /\ eeprom = [a \in 0..(EepromSize - 1) |-> Garbage]
  /\ ee = NoEepromJob

(* what a read of flash may return, and what programming a cell leaves: a cell that is not
   blank keeps the zeros it has *)
ReadByte(a) == IF readable THEN {flash[a]} ELSE {Blank, Garbage}
Programmed(old, new) == IF old = Blank THEN new ELSE IF new = Blank THEN old ELSE Garbage

PageOf(a) == a \div PageSize
OnPage(a) == {b \in 0..(FlashSize - 1) : PageOf(b) = PageOf(a)}

(* page_blank_check(): TRUE if the page is not blank; anything while the section is closed *)
PageBlankCheck(a) ==
  IF readable THEN {\E b \in OnPage(a) : flash[b] # Blank} ELSE BOOLEAN

(* write_buffer_async() and full_erase_async(): TRUE when refused, a job is still running *)
FlashBusy == spm.cb # "none"
FlashWriteAsync(addr, data) ==
  /\ spm' = [cb |-> "write", handler |-> "load", dest |-> addr, tmp |-> PageOf(addr) * PageSize,
             fill |-> 0, buffer |-> data]
  /\ UNCHANGED <<flash, page, readable, eeprom, ee>>
FlashEraseAsync ==
  /\ spm' = [NoFlashJob EXCEPT !.cb = "erase", !.handler = "erase"]
  /\ UNCHANGED <<flash, page, readable, eeprom, ee>>

EepromBusy == ee.cb # "none"
EepromWriteAsync(addr, data) ==
  /\ ee' = [cb |-> "write", addr |-> addr, dest |-> addr + Len(data) - 1, buffer |-> data]
  /\ UNCHANGED <<flash, page, readable, spm, eeprom>>
EepromEraseAsync ==
  /\ ee' = [cb |-> "erase", addr |-> 0, dest |-> EepromSize - 1,
            buffer |-> [i \in 1..EepromSize |-> Blank]]
  /\ UNCHANGED <<flash, page, readable, spm, eeprom>>

-----------------------------------------------------------------------------
(* SPM_READY: one call of the current handler *)

ErasePage(a) == flash' = [b \in DOMAIN flash |-> IF b \in OnPage(a) THEN Blank ELSE flash[b]]
WritePage(a) ==
  /\ flash' = [b \in DOMAIN flash |->
                 IF b \in OnPage(a) THEN Programmed(flash[b], page[b % PageSize]) ELSE flash[b]]
  /\ spm' = [spm EXCEPT !.handler = "load", !.fill = 0, !.dest = spm.tmp]

(* the full erase: page after page, then the section is opened again *)
SpmErase ==
  /\ FlashBusy /\ spm.handler = "erase"
  /\ IF spm.dest < FlashSize
     THEN /\ ErasePage(spm.dest)
          /\ spm' = [spm EXCEPT !.dest = @ + PageSize]
          /\ readable' = FALSE
     ELSE /\ spm' = [spm EXCEPT !.handler = "exit"]
          /\ readable' = TRUE
          /\ UNCHANGED flash
  /\ UNCHANGED <<page, eeprom, ee>>

(* one word of the page: from the buffer from the job's address on, else what the page holds *)
\* Mutant of Takes: the first byte of the job is left as it was.
TakesLate(buffer, a) == buffer # <<>> /\ a > spm.dest
Takes(buffer, a) == buffer # <<>> /\ a >= spm.dest
SpmLoadWord ==
  LET first  == Takes(spm.buffer, spm.tmp)
      rest   == IF first THEN Tail(spm.buffer) ELSE spm.buffer
      second == Takes(rest, spm.tmp + 1)
      Source(taken, buffer, a) == IF taken THEN {Head(buffer)} ELSE ReadByte(a)
  IN  /\ FlashBusy /\ spm.handler = "load" /\ spm.fill < PageSize
      /\ spm.buffer # <<>> \/ spm.fill # 0
      /\ \E low \in Source(first, spm.buffer, spm.tmp), high \in Source(second, rest, spm.tmp + 1) :
           page' = [page EXCEPT ![spm.tmp % PageSize] = low, ![(spm.tmp + 1) % PageSize] = high]
      /\ spm' = [spm EXCEPT !.buffer = IF second THEN Tail(rest) ELSE rest,
                            !.tmp = @ + 2, !.fill = @ + 2]
      /\ UNCHANGED <<flash, readable, eeprom, ee>>

(* the page is complete: erase it first unless it looks blank *)
SpmPageLoaded ==
  /\ FlashBusy /\ spm.handler = "load" /\ spm.fill = PageSize
  /\ \E dirty \in PageBlankCheck(spm.dest) :
       IF dirty THEN ErasePage(spm.dest) /\ spm' = [spm EXCEPT !.handler = "write"]
                ELSE WritePage(spm.dest)
  /\ readable' = FALSE
  /\ UNCHANGED <<page, eeprom, ee>>

SpmWrite ==
  /\ FlashBusy /\ spm.handler = "write"
  /\ WritePage(spm.dest)
  /\ readable' = FALSE
  /\ UNCHANGED <<page, eeprom, ee>>

(* nothing left and no page begun: the section is opened again *)
SpmAllWritten ==
  /\ FlashBusy /\ spm.handler = "load" /\ spm.fill = 0 /\ spm.buffer = <<>>
  /\ spm' = [spm EXCEPT !.handler = "exit"]
  /\ readable' = TRUE
  /\ UNCHANGED <<flash, page, eeprom, ee>>

SpmStep == SpmErase \/ SpmLoadWord \/ SpmPageLoaded \/ SpmWrite \/ SpmAllWritten

(* _irq_exit_handler: the interrupt is off, the callback is the caller's part of the step *)
SpmExit ==
  /\ FlashBusy /\ spm.handler = "exit"
  /\ spm' = [spm EXCEPT !.cb = "none"]
  /\ UNCHANGED <<flash, page, readable, eeprom, ee>>

(* EE_READY: bytes that are already there are skipped, then one is written *)
Differing == {i \in 1..Len(ee.buffer) : ee.addr + i - 1 <= ee.dest
                                        /\ eeprom[(ee.addr + i - 1) % EepromSize] # ee.buffer[i]}
EeStep ==
  /\ EepromBusy /\ Differing # {}
  /\ LET i == CHOOSE i \in Differing : \A j \in Differing : i <= j
     IN  /\ eeprom' = [eeprom EXCEPT ![(ee.addr + i - 1) % EepromSize] = ee.buffer[i]]
         /\ ee' = [ee EXCEPT !.addr = @ + i,
                             !.buffer = SubSeq(@, i + 1, Len(@))]
  /\ UNCHANGED <<flash, page, readable, spm>>
EeExit ==
  /\ EepromBusy /\ Differing = {}
  /\ ee' = [ee EXCEPT !.cb = "none"]
  /\ UNCHANGED <<flash, page, readable, spm, eeprom>>
=============================================================================
