-------------------------- MODULE SerialBootProps --------------------------
(***************************************************************************)
(* What the serial boot loader promises a host over a line that may lose   *)
(* characters and a power supply that may fail.                            *)
(***************************************************************************)
EXTENDS SerialBoot

Memory == [FLASH |-> flash, EEPROM |-> eeprom]

Char == 0..255

\* The commands that take arguments.
WithArguments == {65, 66, 84, 103, 120, 121}

(* A host that works: what it asks in between has the answer it waits for and leaves the memories
   alone, and a block of flash is a number of words. *)
AsksFit ==
  \A q \in Asks :
    \/ \E c \in Char \ (WithArguments \union {69, 101}) : q.bytes = <<c>> /\ q.want = Len(Answer(c))
    \/ \E c \in {120, 121}, x \in Char : q.bytes = <<c, x>> /\ q.want = 1
WholeWords == \A b \in Blocks : b.mem = "FLASH" => Len(b.data) % 2 = 0

\* A character that is a command of its own neither by its argument nor by its answer.
NoLetter == {c \in Char : c \notin WithArguments \union {69, 101} /\ Answer(c) = <<63>>}

(* What a lost character may not turn into another command: without its letter the argument of a
   question is not 'e' or the start character, the device not a letter that is answered with
   '\r' by a loader that stays, and the first byte of an address no letter at all; without its length
   the memory type of a block is not too short a length. *)
Unmistakable ==
  /\ \A q \in Asks : \A i \in DOMAIN q.bytes : q.bytes[i] \notin {Start, 101}
  /\ DevType \notin {76, 80, 101}  \* 'L' 'P' 'e'
  /\ \A w \in Addresses : High(w) \in NoLetter
  /\ \A b \in Blocks : Len(b.data) <= EepromType
OneLoss == MaxLosses <= 1

(* Types of the loader and its line; no command holds more than its arguments. *)
SerialTypeOK ==
  /\ mode \in {"wait", "blink", "loader", "app", "off", "hung"} /\ cnt \in 0..WaitValue
  /\ cmd \in {None, 65, 66, 84, 103, 120, 121} /\ (cmd = None => args = <<>>)
  /\ Len(args) <= 3 + PageSize
  /\ erasing \in {None} \union 0..FlashSize
  /\ address \in 0..(Word - 1) /\ device \in 0..255
  /\ DOMAIN flash = 0..(FlashSize - 1) /\ DOMAIN eeprom = 0..(EepromSize - 1)
  /\ hostAddr \in Nat \union {None}

(* A byte whose block was acknowledged, and a page whose erase was, is in memory, and stays there
   through lost characters, misread commands, synchronisation, resets and power failures, until
   the host itself programs or erases it or knows that something went wrong.  This is for one lost
   character (OneLoss) and bytes that are Unmistakable: with a longer block, for one, that loses its
   length the loader takes the letter of the memory type for it, finds bytes enough, and acknowledges. *)
AckedIsKept ==
  host.pc \in {"idle", "off"} =>
    \A m \in DOMAIN image : \A a \in DOMAIN image[m] : image[m][a] \in {NoPromise, Memory[m][a]}

(* ESC brings the loader back to its command loop from wherever a lost character has left it: after
   a command's longest argument list nothing that was sent is taken for an argument any more. *)
EscapesSuffice ==
  host.pc = "sync" /\ escs = SyncLength /\ rx = <<>> /\ mode = "loader" /\ erasing = None
    => cmd = None \/ Complete(cmd, args)

(* On a line without losses no command fails, goes unanswered or reads other bytes than were
   acknowledged, also when its characters arrive during the blinking, an erase or the writing
   of a page. *)
CleanLineWorks == losses = 0 /\ resets = 0 /\ host.pc = "sync" => mode = "app"

(* The loader lets go: a loader that was started, by power or by the watchdog behind 'E', reaches
   the application or is called by its start character, whatever the host sends meanwhile: each ESC
   of its synchronisation takes a turn of the wait loop, and any other character ends it. *)
EventuallyApp == mode \in {"off", "wait"} ~> mode \in {"app", "blink"}
=============================================================================
