----------------------------- MODULE SerialBoot -----------------------------
(***************************************************************************)
(* The AVRProg compatible serial boot loader (InSystemSelfProgramming-     *)
(* Bootloader/main.c) and a host on the other end of its serial line.      *)
(*                                                                         *)
(* The loader is one loop around recvchar(): a command letter, then the    *)
(* arguments that command asks for, one character at a time.  It is        *)
(* modelled by the command it is in and the arguments it has; a command    *)
(* is carried out by the step that receives its last argument.             *)
(*                                                                         *)
(* The line may lose characters, the receiver holds three while the loader *)
(* is busy, and the power may fail between any two steps.  A host that     *)
(* gets no answer sends ESC, which the loader ignores between commands,    *)
(* until it must be there again.                                           *)
(***************************************************************************)
EXTENDS Integers, Sequences, FiniteSets

CONSTANTS PageSize,    \* SPM_PAGESIZE, in bytes
          FlashSize,   \* bytes of the application section (APP_END)
          EepromSize,
          DevType,     \* DEVTYPE
          WaitValue,   \* WAIT_VALUE, in ticks of 10 ms
          Blocks,      \* what the host programs: records [mem, data]
          Addresses,   \* the addresses it sets; the loader moves on from there by itself
          Asks,        \* commands without effect that the host sends
          MaxCommands, MaxLosses, MaxResets  \* bounds

Word == 65536  \* the values of a uint16_t

\* an address of a word of the application and the size of a page fit two bytes, the device is a byte
ASSUME SerialAssumption ==
  /\ PageSize \in Nat \ {0} /\ PageSize % 2 = 0 /\ PageSize < Word
  /\ FlashSize \in Nat \ {0} /\ FlashSize % PageSize = 0 /\ FlashSize < 2 * Word
  /\ EepromSize \in Nat \ {0} /\ EepromSize < Word /\ DevType \in 1..255 /\ WaitValue \in Nat
  /\ MaxCommands \in Nat /\ MaxLosses \in Nat /\ MaxResets \in Nat

ASSUME HostAssumption ==
  /\ \A b \in Blocks : /\ b.mem \in {"FLASH", "EEPROM"} /\ b.data \in Seq(0..255)
                       /\ Len(b.data) \in 1..PageSize
  /\ Addresses \subseteq 0..(Word - 1)
  /\ \A q \in Asks : q.bytes \in Seq(0..255) /\ q.want \in Nat \ {0}

VARIABLES
  mode,     \* the start-up loop ("wait"), "blink", the command loop, "app", or "off" until the watchdog resets
  cnt,      \* the wait counter
  cmd,      \* the command whose arguments are read, or None
  args,     \* the arguments so far
  erasing,  \* eraseFlash(): the next page, or None
  address, device,
  flash, eeprom,
  rx, tx,   \* the line to the loader and back
  host,     \* what the host is doing: its state, the kind of answer it waits for and how much of it
  hostAddr, \* the address it believes the loader is at, or None
  selected, \* has it told the loader the device
  image,    \* the bytes it was told are in memory
  escs,     \* the ESC characters of this synchronisation
  commands, losses, resets

loaderVars == <<mode, cnt, cmd, args, erasing, address, device>>
memVars == <<flash, eeprom>>
lineVars == <<rx, tx>>
hostVars == <<host, hostAddr, selected, image, escs>>
vars == <<loaderVars, memVars, lineVars, hostVars, commands, losses, resets>>

None == -1
Blank == 255
Garbage == 256     \* a byte the host cannot know
NoPromise == 257
FlashType == 70    \* 'F'
EepromType == 69   \* 'E'
ESC == 27
CR == 13
Start == 83        \* START_WAIT_UARTCHAR, and the command 'S'
Boot == 66         \* for the letters of "AVRBOOT"

Smaller(a, b) == IF a < b THEN a ELSE b
\* A number of two bytes, the most significant first.
High(n) == n \div 256
Low(n) == n % 256

-----------------------------------------------------------------------------
(* commands *)

Size == (args[1] * 256 + args[2]) % Word
\* Mutant of Buffered: the block is not cut at the end of gBuffer.
BufferedAll(size) == size
Buffered(size) == Smaller(size, PageSize)

(* is the last argument of command c in, with arguments a *)
Arguments(c) == CASE c \in {84, 120, 121} -> 1   \* 'T' 'x' 'y'
                  [] c = 65 -> 2                 \* 'A'
                  [] c \in {66, 103} -> 3        \* 'B' 'g'
                  [] OTHER -> 0
Complete(c, a) ==
  /\ Len(a) >= Arguments(c)
  /\ c = 66 => Len(a) = 3 + Buffered((a[1] * 256 + a[2]) % Word)

(* the answers of the commands that only answer; the contents of the longer ones are left out *)
Answer(c) ==
  CASE c = 97 -> <<89>>                                       \* 'a'
    [] c = 98 -> <<89, PageSize \div 256, PageSize % 256>>    \* 'b'
    [] c \in {80, 76} -> <<CR>>                               \* 'P' 'L'
    [] c = 112 -> <<83>>                                      \* 'p'
    [] c \in {70, 114, 78, 81} -> <<Garbage>>                 \* 'F' 'r' 'N' 'Q': fuses and locks
    [] c = 116 -> <<DevType, 0>>                              \* 't'
    [] c = 83 -> <<Boot>>                                     \* 'S'
    [] c = 86 -> <<48, 56>>                                   \* 'V'
    [] c = 115 -> <<Garbage, Garbage, Garbage>>               \* 's'
    [] c = ESC -> <<>>
    [] OTHER -> <<63>>                                        \* '?'

(* boot_page_fill() counts inside the page: the bytes of a block go to the page from start on, and
   behind its end to its beginning; a block that is larger than gBuffer reads what lies behind it *)
Block == SubSeq(args, 4, Len(args))
PageOf(a) == (a \div PageSize) * PageSize
Programmed(old, new) == IF new = Blank THEN old ELSE IF old = Blank THEN new ELSE Garbage
Filled(a, start) == IF a >= start THEN a - start ELSE a - start + PageSize
WrittenFlash(start, size) ==
  [a \in DOMAIN flash |->
     IF PageOf(a) # PageOf(start) THEN flash[a]
     ELSE IF size > PageSize THEN Garbage
     ELSE IF Filled(a, start) < size THEN Programmed(flash[a], Block[Filled(a, start) + 1])
     ELSE flash[a]]
NextWord(waddr, size) == ((waddr * 2 + size) \div 2) % Word

(* size -= 2 until zero: an odd size never gets there *)
Hangs(size) == size % 2 = 1
FlashCount(size) == IF size = 0 THEN Word ELSE size

WriteFlash ==
  /\ IF Hangs(Size) THEN mode' = "hung" /\ UNCHANGED <<flash, address>>
     ELSE /\ flash' = WrittenFlash(address * 2, FlashCount(Size))
          /\ address' = NextWord(address, FlashCount(Size))
          /\ UNCHANGED mode
  /\ UNCHANGED eeprom
\* a size of zero goes round once for every value of pagebuf_t
EepromCells == {a \in DOMAIN eeprom : Size \in 1..PageSize => a - address \in 0..(Size - 1)}
WrittenEeprom ==
  [a \in DOMAIN eeprom |-> IF a \notin EepromCells THEN eeprom[a]
                          ELSE IF Size \in 1..PageSize THEN Block[a - address + 1] ELSE Garbage]
WriteEeprom ==
  /\ eeprom' = WrittenEeprom
  /\ address' = (address + Size) % Word
  /\ UNCHANGED <<flash, mode>>

ReadAt(mem, a) == IF a \in DOMAIN mem THEN mem[a] ELSE Garbage
\* Mutant of ReadFlash: the high byte of a word first.
ReadFlashSwapped(waddr, size) ==
  [i \in 1..size |-> ReadAt(flash, waddr * 2 + (IF i % 2 = 1 THEN i ELSE i - 2))]
ReadFlash(waddr, size) == [i \in 1..size |-> ReadAt(flash, waddr * 2 + i - 1)]
ReadEeprom(addr, size) == [i \in 1..size |-> ReadAt(eeprom, addr + i - 1)]

-----------------------------------------------------------------------------
Idle == [pc |-> "idle", want |-> 0, what |-> "none"]

Init ==
  /\ mode = "wait" /\ cnt = 0 /\ cmd = None /\ args = <<>> /\ erasing = None
  /\ address = 0 /\ device = 0
  /\ flash = [a \in 0..(FlashSize - 1) |-> Garbage]
  /\ eeprom = [a \in 0..(EepromSize - 1) |-> Garbage]
  /\ rx = <<>> /\ tx = <<>>
  /\ host = [Idle EXCEPT !.pc = "off"] /\ hostAddr = None /\ selected = FALSE /\ escs = 0
  /\ image = [FLASH |-> [a \in 0..(FlashSize - 1) |-> NoPromise],
              EEPROM |-> [a \in 0..(EepromSize - 1) |-> NoPromise]]
  /\ commands = 0 /\ losses = 0 /\ resets = 0

(* cnt++ < WAIT_VALUE, or the jump to the application *)
\* Mutant of Waits: a counter too narrow for WAIT_VALUE.
WaitsNarrow ==
  IF cnt < WaitValue THEN cnt' = (cnt + 1) % WaitValue /\ UNCHANGED mode
                     ELSE mode' = "app" /\ UNCHANGED cnt
Waits ==
  IF cnt < WaitValue THEN cnt' = cnt + 1 /\ UNCHANGED mode
                     ELSE mode' = "app" /\ UNCHANGED cnt

(* the start-up loop: the start character, ESC, which does nothing but take its turn of the loop, any
   other character, and a turn without one *)
WaitCharacter ==
  /\ mode = "wait" /\ rx # <<>>
  /\ rx' = Tail(rx)
  /\ \/ Head(rx) = Start /\ mode' = "blink" /\ tx' = Append(tx, Boot) /\ UNCHANGED cnt
     \/ Head(rx) = ESC /\ Waits /\ UNCHANGED tx
     \/ Head(rx) \notin {Start, ESC} /\ mode' = "app" /\ cnt' = WaitValue /\ UNCHANGED tx
  /\ UNCHANGED <<cmd, args, erasing, address, device, memVars, hostVars, commands, losses, resets>>
WaitTick ==
  /\ mode = "wait" /\ rx = <<>> /\ Waits
  /\ UNCHANGED <<cmd, args, erasing, address, device, memVars, lineVars, hostVars, commands, losses, resets>>

(* what the receiver keeps of the characters that come while nobody reads: two in its buffer
   and one in the shift register *)
Kept(q) == {SubSeq(q, 1, n) : n \in Smaller(3, Len(q))..Len(q)}

Blink ==
  /\ mode = "blink"
  /\ mode' = "loader" /\ rx' \in Kept(rx)
  /\ UNCHANGED <<cnt, cmd, args, erasing, address, device, memVars, tx, hostVars, commands, losses, resets>>

Received == rx' = Tail(rx)
Replies(s) == tx' = tx \o s

(* recvchar() in the command loop *)
Listening == mode = "loader" /\ erasing = None /\ rx # <<>>

CommandLetter ==
  /\ Listening /\ cmd = None /\ Head(rx) \notin {69, 101}
  /\ Received
  /\ IF Arguments(Head(rx)) > 0 THEN cmd' = Head(rx) /\ UNCHANGED tx
                                ELSE Replies(Answer(Head(rx))) /\ UNCHANGED cmd
  /\ UNCHANGED <<mode, cnt, args, erasing, address, device, memVars, hostVars, commands, losses, resets>>

(* 'e', for the right device only *)
CommandErase ==
  /\ Listening /\ cmd = None /\ Head(rx) = 101
  /\ Received
  /\ IF device = DevType THEN erasing' = 0 /\ UNCHANGED tx
                         ELSE Replies(<<CR>>) /\ UNCHANGED erasing
  /\ UNCHANGED <<mode, cnt, cmd, args, address, device, memVars, hostVars, commands, losses, resets>>
\* Mutant of MoreToErase: the last page is left out.
MoreToEraseButLast == erasing + PageSize < FlashSize
MoreToErase == erasing < FlashSize
PageErased == [a \in DOMAIN flash |-> IF PageOf(a) = erasing THEN Blank ELSE flash[a]]
ErasePage ==
  /\ mode = "loader" /\ erasing # None
  /\ IF MoreToErase
     THEN /\ flash' = PageErased
          /\ erasing' = erasing + PageSize
          /\ rx' \in Kept(rx) /\ UNCHANGED tx
     ELSE erasing' = None /\ Replies(<<CR>>) /\ UNCHANGED <<flash, rx>>
  /\ UNCHANGED <<mode, cnt, cmd, args, address, device, eeprom, hostVars, commands, losses, resets>>

(* 'E': the watchdog is armed and the UART switched off *)
CommandExit ==
  /\ Listening /\ cmd = None /\ Head(rx) = 69
  /\ mode' = "off" /\ rx' = <<>> /\ Replies(<<CR>>)
  /\ UNCHANGED <<cnt, cmd, args, erasing, address, device, memVars, hostVars, commands, losses, resets>>

Argument ==
  /\ Listening /\ cmd # None /\ ~Complete(cmd, args)
  /\ Received /\ args' = Append(args, Head(rx))
  /\ UNCHANGED <<mode, cnt, cmd, erasing, address, device, memVars, tx, hostVars, commands, losses, resets>>

\* Mutant of Carry: arguments are left over for the next command.
CarryKeeping(c) == mode = "loader" /\ cmd = c /\ Complete(c, args) /\ cmd' = None /\ UNCHANGED args
Carry(c) == mode = "loader" /\ cmd = c /\ Complete(c, args) /\ cmd' = None /\ args' = <<>>

(* 'A': the address, most significant byte first *)
SetAddress ==
  /\ Carry(65)
  /\ address' = args[1] * 256 + args[2] /\ Replies(<<CR>>)
  /\ UNCHANGED <<mode, cnt, erasing, device, memVars, rx, hostVars, commands, losses, resets>>
SetDevice ==
  /\ Carry(84)
  /\ device' = args[1] /\ Replies(<<CR>>)
  /\ UNCHANGED <<mode, cnt, erasing, address, memVars, rx, hostVars, commands, losses, resets>>
LedIgnored ==
  /\ Carry(120) \/ Carry(121)
  /\ Replies(<<CR>>)
  /\ UNCHANGED <<mode, cnt, erasing, address, device, memVars, rx, hostVars, commands, losses, resets>>

(* 'B': a block for the right device is programmed; any other memory type only gets its answer *)
LoadBlock ==
  /\ Carry(66)
  /\ \/ device # DevType /\ Replies(<<0>>) /\ UNCHANGED <<mode, flash, eeprom, address>>
     \/ /\ device = DevType
        /\ CASE args[3] = FlashType -> WriteFlash
             [] args[3] = EepromType -> WriteEeprom
             [] OTHER -> UNCHANGED <<mode, flash, eeprom, address>>
        /\ tx' = IF mode' = "hung" THEN tx ELSE Append(tx, CR)
  /\ rx' \in Kept(rx)
  /\ UNCHANGED <<cnt, erasing, device, hostVars, commands, losses, resets>>

(* 'g': as many bytes as asked for, and the address moves on by them *)
ReadBlock ==
  /\ Carry(103)
  /\ CASE args[3] = FlashType /\ ~Hangs(Size) ->
            Replies(ReadFlash(address, FlashCount(Size))) /\ address' = NextWord(address, FlashCount(Size))
            /\ UNCHANGED mode
       [] args[3] = FlashType /\ Hangs(Size) -> mode' = "hung" /\ UNCHANGED <<tx, address>>
       [] args[3] = EepromType ->
            Replies(ReadEeprom(address, FlashCount(Size))) /\ address' = (address + Size) % Word
            /\ UNCHANGED mode
       [] OTHER -> UNCHANGED <<mode, tx, address>>
  /\ UNCHANGED <<cnt, erasing, device, memVars, rx, hostVars, commands, losses, resets>>

(* the watchdog, or the power fails and comes back: main() starts again *)
Restarts ==
  /\ mode' = "wait" /\ cnt' = 0 /\ cmd' = None /\ args' = <<>> /\ erasing' = None
  /\ address' = 0 /\ device' = 0 /\ rx' = <<>>
  /\ UNCHANGED <<tx, hostVars, commands, losses>>
WatchdogReset == mode = "off" /\ Restarts /\ UNCHANGED <<memVars, resets>>

(* the power fails while memory is programmed or erased: nobody knows these bytes then *)
Torn(mem, cells) == [a \in DOMAIN mem |-> IF a \in cells THEN Garbage ELSE mem[a]]
TornBlock ==
  /\ mode = "loader" /\ cmd = 66 /\ Complete(66, args) /\ device = DevType
  /\ \/ /\ args[3] = FlashType /\ ~Hangs(Size)
        /\ flash' = Torn(flash, {a \in DOMAIN flash :
                                   flash[a] # WrittenFlash(address * 2, FlashCount(Size))[a]})
        /\ UNCHANGED eeprom
     \/ args[3] = EepromType /\ eeprom' = Torn(eeprom, EepromCells) /\ UNCHANGED flash
TornErase ==
  /\ erasing # None /\ MoreToErase
  /\ flash' = Torn(flash, {a \in DOMAIN flash : PageOf(a) = erasing}) /\ UNCHANGED eeprom
PowerFails ==
  /\ resets < MaxResets /\ Restarts /\ resets' = resets + 1
  /\ UNCHANGED memVars \/ TornBlock \/ TornErase

-----------------------------------------------------------------------------
(* The host.  Every command waits for its answer.  Without one, or with another than it
   expects, the host knows nothing of memory and address any more; it sends as many ESC as the
   longest command takes, forgets what comes back, and starts over. *)

SyncLength == PageSize + 3

Asking(bytes, what, want) ==
  /\ host.pc = "idle" /\ rx = <<>> /\ tx = <<>> /\ commands < MaxCommands
  /\ rx' = bytes
  /\ host' = [pc |-> "await", want |-> want, what |-> what]
  /\ commands' = commands + 1
  /\ UNCHANGED <<loaderVars, memVars, tx, escs, losses, resets>>

NothingIn(mem) == [image EXCEPT ![mem] = [a \in DOMAIN @ |-> NoPromise]]
Nothing == [m \in DOMAIN image |-> [a \in DOMAIN image[m] |-> NoPromise]]
TypeOf(mem) == IF mem = "FLASH" THEN FlashType ELSE EepromType
ByteAddr(mem) == IF mem = "FLASH" THEN hostAddr * 2 ELSE hostAddr
Units(mem, size) == IF mem = "FLASH" THEN size \div 2 ELSE size

\* not before the watchdog has struck
HostConnect ==
  /\ mode # "off" /\ host.pc = "off" /\ rx = <<>> /\ tx = <<>> /\ commands < MaxCommands
  /\ rx' = <<Start>> /\ host' = [pc |-> "await", want |-> 1, what |-> "connect"]
  /\ commands' = commands + 1
  /\ hostAddr' = None /\ selected' = FALSE
  /\ UNCHANGED <<loaderVars, memVars, tx, image, escs, losses, resets>>
HostSetDevice == Asking(<<84, DevType>>, "cr", 1) /\ selected' = TRUE /\ UNCHANGED <<hostAddr, image>>
HostAsk == \E q \in Asks : Asking(q.bytes, "ask", q.want) /\ UNCHANGED <<hostAddr, selected, image>>
HostSetAddress ==
  \E w \in Addresses :
    /\ Asking(<<65, High(w), Low(w)>>, "cr", 1) /\ hostAddr' = w /\ UNCHANGED <<selected, image>>
\* the loader answers an erase with '\r' whether it knows the device or not: first tell it
HostErase ==
  /\ selected
  /\ Asking(<<101>>, "erase", 1)
  /\ image' = NothingIn("FLASH") /\ UNCHANGED <<hostAddr, selected>>
\* a block that stays inside one page, of flash that was erased
HostBlock(b) ==
  LET at == ByteAddr(b.mem)
      cells == at..(at + Len(b.data) - 1)
  IN  /\ selected /\ hostAddr # None /\ cells \subseteq DOMAIN image[b.mem]
      /\ b.mem = "FLASH" => \A a \in cells : image["FLASH"][a] = Blank /\ PageOf(a) = PageOf(at)
      /\ Asking(<<66, High(Len(b.data)), Low(Len(b.data)), TypeOf(b.mem)>> \o b.data, "cr", 1)
      /\ image' = [image EXCEPT ![b.mem] = [a \in DOMAIN @ |-> IF a \in cells THEN b.data[a - at + 1] ELSE @[a]]]
      /\ hostAddr' = hostAddr + Units(b.mem, Len(b.data)) /\ UNCHANGED selected
\* to compare with what it knows
HostRead(mem, size) ==
  /\ hostAddr # None
  /\ \A a \in ByteAddr(mem)..(ByteAddr(mem) + size - 1) : a \in DOMAIN image[mem] /\ image[mem][a] # NoPromise
  /\ Asking(<<103, 0, size, TypeOf(mem)>>, mem, size)
  /\ hostAddr' = hostAddr + Units(mem, size) /\ UNCHANGED <<selected, image>>
HostExit == Asking(<<69>>, "exit", 1) /\ UNCHANGED <<hostAddr, selected, image>>

(* a character of the answer; an acknowledgement is '\r' and nothing else, and a read is compared *)
Expected(c) == CASE host.what \in {"cr", "erase", "exit"} -> c = CR
                 [] host.what = "connect" -> c = Boot
                 [] host.what \in DOMAIN image -> c = image[host.what][ByteAddr(host.what) - host.want]
                 [] OTHER -> TRUE
Lost == /\ host' = [Idle EXCEPT !.pc = "sync"]
        /\ hostAddr' = None /\ selected' = FALSE /\ image' = Nothing /\ escs' = 0
HostReceives ==
  /\ host.pc = "await" /\ tx # <<>>
  /\ tx' = Tail(tx)
  /\ IF ~Expected(Head(tx)) THEN Lost
     ELSE /\ host' = CASE host.want > 1 -> [host EXCEPT !.want = @ - 1]
                       [] host.what = "exit" -> [Idle EXCEPT !.pc = "off"]
                       [] OTHER -> Idle
          /\ image' = IF host.what = "erase" THEN [image EXCEPT !["FLASH"] = [a \in DOMAIN @ |-> Blank]]
                      ELSE image
          /\ UNCHANGED <<hostAddr, selected, escs>>
  /\ UNCHANGED <<loaderVars, memVars, rx, commands, losses, resets>>

(* nothing moves any more: an answer that is missing *)
LoaderQuiet == /\ rx = <<>> /\ erasing = None /\ mode \notin {"blink", "off"}
               /\ (cmd = None \/ ~Complete(cmd, args) \/ mode = "hung")
HostTimeout ==
  /\ host.pc = "await" /\ tx = <<>> /\ (LoaderQuiet \/ mode = "app")
  /\ Lost
  /\ UNCHANGED <<loaderVars, memVars, lineVars, commands, losses, resets>>
HostEscapes ==
  /\ host.pc = "sync" /\ escs < SyncLength /\ rx = <<>>
  /\ rx' = <<ESC>> /\ escs' = escs + 1
  /\ UNCHANGED <<loaderVars, memVars, tx, host, hostAddr, selected, image, commands, losses, resets>>
HostSynced ==
  /\ host.pc = "sync" /\ escs = SyncLength /\ (LoaderQuiet \/ mode = "app")
  /\ host' = [Idle EXCEPT !.pc = IF mode = "loader" THEN "idle" ELSE "off"] /\ tx' = <<>> /\ rx' = <<>>
  /\ UNCHANGED <<loaderVars, memVars, hostAddr, selected, image, escs, commands, losses, resets>>

(* the line loses the next character, one way or the other; not while the host synchronises *)
LoseToLoader ==
  /\ rx # <<>> /\ mode # "app" /\ host.pc # "sync" /\ losses < MaxLosses
  /\ rx' = Tail(rx) /\ losses' = losses + 1
  /\ UNCHANGED <<loaderVars, memVars, tx, hostVars, commands, resets>>
LoseToHost ==
  /\ tx # <<>> /\ losses < MaxLosses
  /\ tx' = Tail(tx) /\ losses' = losses + 1
  /\ UNCHANGED <<loaderVars, memVars, rx, hostVars, commands, resets>>
(* the application takes no notice of the host's characters *)
AppIgnores ==
  /\ mode \in {"app", "hung"} /\ rx # <<>>
  /\ rx' = <<>>
  /\ UNCHANGED <<loaderVars, memVars, tx, hostVars, commands, losses, resets>>

Loader == \/ WaitCharacter \/ WaitTick \/ Blink \/ CommandLetter \/ CommandErase \/ ErasePage \/ CommandExit
          \/ Argument \/ SetAddress \/ SetDevice \/ LedIgnored \/ LoadBlock \/ ReadBlock \/ WatchdogReset
          \/ AppIgnores
Host == \/ HostConnect \/ HostSetDevice \/ HostAsk \/ HostSetAddress \/ HostErase
        \/ \E b \in Blocks : HostBlock(b)
        \/ \E mem \in {"FLASH", "EEPROM"} : HostRead(mem, 2)
        \/ HostExit
HostProceeds == HostReceives \/ HostTimeout \/ HostEscapes \/ HostSynced
Next == Loader \/ Host \/ HostProceeds \/ LoseToLoader \/ LoseToHost \/ PowerFails

(* the loader runs, and a host that has begun to wait or to synchronise goes on with it *)
Fairness == WF_vars(Loader) /\ WF_vars(HostProceeds)
Spec == Init /\ [][Next]_vars /\ Fairness
=============================================================================
