------------------------------- MODULE Flash -------------------------------
(***************************************************************************)
(* The Writer of the flash driver (drivers/avr/flash.h) on the             *)
(* self-programming hardware, under every configuration in Configs.        *)
(* A method is a list of steps, one for every command to the hardware and  *)
(* every wait.  Between two steps the hardware goes on, power may fail, or *)
(* an interrupt may come between the two instructions of a command, which  *)
(* the hardware then ignores: the driver takes no lock.                    *)
(*                                                                         *)
(* The client keeps the driver's unwritten rules: it puts a word once, on  *)
(* an erased place unless the driver erases, writes a page before it moves *)
(* to another, and, if words are preserved, sets an address first.         *)
(***************************************************************************)
EXTENDS Naturals, Sequences

CONSTANTS
  Configs,           \* configurations: autoIncrement, autoWritePage, autoErase, preserveUnset
  pageSize,          \* bytes of a page
  flashEnd,          \* the last address
  OffsetMod,         \* values of OffsetType
  Values,            \* words a client writes
  Blank, Garbage,    \* an erased word; a word nobody wrote
  Unset              \* a word of the page buffer that was not loaded

flashPageEnd == flashEnd \div pageSize
Pages == 0..flashPageEnd
Words == 0..(pageSize \div 2 - 1)

\* preserveUnset goes with autoIncrement: without it writeCurrentPage() would preserve the word at
\* the current address, which the client has just put, and load it twice.
ASSUME FlashAssumption ==
  /\ pageSize \in Nat \ {0} /\ pageSize % 2 = 0 /\ OffsetMod \in Nat /\ OffsetMod > pageSize
  /\ flashEnd \in Nat /\ (flashEnd + 1) % pageSize = 0
  /\ Configs \subseteq [autoIncrement : BOOLEAN, autoWritePage : BOOLEAN, autoErase : BOOLEAN, preserveUnset : BOOLEAN]
  /\ \A c \in Configs : c.preserveUnset => c.autoIncrement
  /\ Blank # Garbage /\ Blank # Unset /\ Garbage # Unset /\ Values \intersect {Blank, Garbage, Unset} = {}

VARIABLES
  config,         \* the configuration, fixed at compile time
  flash, buffer,  \* the memory, and the hardware's page buffer
  busy,           \* the erase or write that is going on, or Idle
  rww,            \* the application section can be read
  writer,         \* Writer::current
  todo,           \* the steps left of the method that runs
  pending,        \* the words the client put since it last wrote a page
  placed,         \* the client set the address since then
  before,         \* the page as it was before the method that changes it
  sound           \* no command was ignored since the last start

vars == <<config, flash, buffer, busy, rww, writer, todo, pending, placed, before, sound>>

Idle == "idle"
NoWords == [w \in {} |-> Blank]
Closed == NoWords
EmptyBuffer == [w \in Words |-> Unset]
BlankPage == [w \in Words |-> Blank]
Step(do) == [do |-> do]
WordStep(do, offset, value) == [do |-> do, offset |-> offset, value |-> value]

-----------------------------------------------------------------------------
(* Address *)

Address(linear) == [page |-> linear \div pageSize, offset |-> linear % pageSize]
isValid(a) == a.page <= flashPageEnd /\ a.offset < pageSize /\ a.offset % 2 = 0
endOfPage(a) == a.offset = pageSize
next(a) == [a EXCEPT !.offset = (@ + 2) % OffsetMod]
nextPage(a) == [page |-> a.page + 1, offset |-> 0]
WordOf(offset) == offset \div 2

-----------------------------------------------------------------------------
(* methods, as lists of steps *)

\* preserveWord() for the words from first to last
Preserve(first, last) ==
  IF config.preserveUnset THEN [i \in 1..(last - first + 1) |-> WordStep("preserve", 2 * (first + i - 1), Blank)] ELSE <<>>

\* Mutant of PreserveRest: the loop starts at the beginning of the page.
PreserveAll(a) == Preserve(0, WordOf(pageSize) - 1)
PreserveRest(a) == Preserve(WordOf(a.offset), WordOf(pageSize) - 1)
eraseCurrentPage == <<Step("erase"), Step("wait"), Step("enableRWW")>>
\* Mutant of WriteAndWait: the section is enabled while the page is written.
WriteNoWait == <<Step("write")>>
WriteAndWait == <<Step("write"), Step("wait")>>
writeCurrentPage(a) ==
  PreserveRest(a)
    \o (IF config.autoErase THEN <<Step("erase"), Step("wait")>> ELSE <<>>)
    \o WriteAndWait \o <<Step("enableRWW")>>
write(data) == <<WordStep("load", writer.offset, data), Step("wait"), Step("advance")>>

-----------------------------------------------------------------------------
(* hardware *)

\* programming only clears bits
Programmed(old, new) == IF old = Blank /\ new # Unset THEN new ELSE IF new \in {Blank, Unset, old} THEN old ELSE Garbage
Loaded(w, v) == buffer' = [buffer EXCEPT ![w] = IF @ = Unset THEN v ELSE Garbage]
ReadWord(p, w) == IF rww THEN flash[p][w] ELSE Garbage

(* an erase or a write is done *)
Done ==
  /\ busy # Idle
  /\ flash' = [flash EXCEPT ![writer.page] =
       IF busy = "erase" THEN BlankPage ELSE [w \in Words |-> Programmed(@[w], buffer[w])]]
  /\ buffer' = IF busy = "write" THEN EmptyBuffer ELSE buffer
  /\ busy' = Idle
  /\ UNCHANGED <<config, rww, writer, todo, pending, placed, before, sound>>

(* everything in RAM and in the hardware starts anew; the page that is being changed is spoilt *)
PowerFails ==
  /\ flash' = IF busy = Idle THEN flash ELSE [flash EXCEPT ![writer.page] = [w \in Words |-> Garbage]]
  /\ buffer' = EmptyBuffer /\ busy' = Idle /\ rww' = TRUE
  /\ writer' = Address(0) /\ todo' = <<>>
  /\ pending' = NoWords /\ placed' = FALSE /\ before' = Closed /\ sound' = TRUE
  /\ UNCHANGED config

Init ==
  /\ config \in Configs
  /\ flash = [p \in Pages |-> BlankPage] /\ buffer = EmptyBuffer /\ busy = Idle /\ rww = TRUE
  /\ writer = Address(0) /\ todo = <<>>
  /\ pending = NoWords /\ placed = FALSE /\ before = Closed /\ sound = TRUE

-----------------------------------------------------------------------------
(* the steps of the methods *)

At(do) == todo # <<>> /\ Head(todo).do = do

(* sts and spm: carried out, or ignored because the hardware is busy or an interrupt came between them *)
Command(carriedOut) ==
  /\ todo' = Tail(todo)
  /\ \/ busy = Idle /\ carriedOut /\ UNCHANGED <<flash, sound>>
     \/ UNCHANGED <<flash, buffer, busy, rww>> /\ sound' = (sound /\ busy # Idle)
  /\ UNCHANGED <<config, writer>>

(* writeBuffer() *)
Loads(value) == Loaded(WordOf(Head(todo).offset), value) /\ UNCHANGED <<busy, rww>>
StepLoad ==
  /\ At("load") /\ Command(Loads(Head(todo).value))
  /\ UNCHANGED <<pending, placed, before>>
StepPreserve ==
  /\ At("preserve") /\ Command(Loads(ReadWord(writer.page, WordOf(Head(todo).offset))))
  /\ UNCHANGED <<pending, placed, before>>

(* erasePage() and writePage() *)
Begins(what) == busy' = what /\ rww' = FALSE /\ UNCHANGED buffer
StepChange == \E what \in {"erase", "write"} :
  /\ At(what) /\ Command(Begins(what))
  /\ before' = IF before = Closed THEN flash[writer.page] ELSE before
  /\ UNCHANGED <<pending, placed>>

(* enableRWW() *)
Enables == rww' = TRUE /\ buffer' = EmptyBuffer /\ UNCHANGED busy
StepEnableRWW ==
  /\ At("enableRWW") /\ Command(Enables)
  /\ before' = Closed /\ pending' = NoWords /\ placed' = FALSE

isDone == busy = Idle
StepWait ==
  /\ At("wait") /\ isDone /\ todo' = Tail(todo)
  /\ UNCHANGED <<config, flash, buffer, busy, rww, writer, pending, placed, before, sound>>

(* the rest of Writer::write() *)
StepAdvance ==
  /\ At("advance")
  /\ writer' = IF config.autoIncrement THEN next(writer) ELSE writer
  /\ todo' = IF config.autoWritePage /\ endOfPage(writer')
             THEN writeCurrentPage(writer') \o <<Step("nextPage")>> ELSE <<>>
  /\ UNCHANGED <<config, flash, buffer, busy, rww, pending, placed, before, sound>>
StepNextPage ==
  /\ At("nextPage") /\ writer' = nextPage(writer) /\ todo' = Tail(todo)
  /\ UNCHANGED <<config, flash, buffer, busy, rww, pending, placed, before, sound>>

Cpu == StepLoad \/ StepPreserve \/ StepChange \/ StepEnableRWW \/ StepWait \/ StepAdvance \/ StepNextPage

-----------------------------------------------------------------------------
(* the client *)

Calls == todo = <<>> /\ UNCHANGED <<config, flash, buffer, busy, rww, before, sound>>
\* with words preserved: the words in front of the address are in the page buffer
Ready == config.preserveUnset => placed \/ writer.offset = 0 \/ pending # NoWords
OnPage == writer.page \in Pages

SetWriter == \E linear \in 0..(flashEnd + pageSize) :
  /\ Calls /\ isValid(Address(linear))
  /\ IF config.preserveUnset THEN pending = NoWords /\ ~placed
     ELSE pending = NoWords \/ Address(linear).page = writer.page
  /\ writer' = Address(linear)
  /\ todo' = Preserve(0, WordOf(writer'.offset) - 1)
  /\ placed' = TRUE /\ UNCHANGED <<pending>>
Write == \E data \in Values :
  /\ Calls /\ OnPage /\ Ready /\ ~endOfPage(writer) /\ WordOf(writer.offset) \notin DOMAIN pending
  /\ ~config.autoErase /\ sound => flash[writer.page][WordOf(writer.offset)] = Blank
  /\ todo' = write(data)
  /\ pending' = [w \in {WordOf(writer.offset)} \union DOMAIN pending |->
                   IF w = WordOf(writer.offset) THEN data ELSE pending[w]]
  /\ UNCHANGED <<writer, placed>>
ErasePage ==
  /\ Calls /\ OnPage /\ pending = NoWords /\ ~(config.preserveUnset /\ placed)
  /\ todo' = eraseCurrentPage /\ UNCHANGED <<writer, pending, placed>>
WritePage ==
  /\ Calls /\ OnPage /\ Ready
  /\ todo' = writeCurrentPage(writer) /\ UNCHANGED <<writer, pending, placed>>

Client == SetWriter \/ Write \/ ErasePage \/ WritePage
Next == Client \/ Cpu \/ Done \/ PowerFails
Spec == Init /\ [][Next]_vars
=============================================================================
