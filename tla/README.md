# AVR-HaLib in TLA+

AVR-HaLib is a C++ template library for AVR microcontrollers: register maps,
drivers, frame devices, a CAN driver, and two bootloaders. This directory is a
formal model of the parts of it where order matters, that is where an interrupt, a callback
or a peer can act between two steps of a driver. It holds TLA+ modules translated from
the code, TLC runs that check them on small instances, and proofs, checked by
TLAPS, that hold for every instance.

Paths below are relative to the repository's root; `H/` stands for
`src/include/avr-halib/`, `C/` for `H/drivers/avr/not_ported/canary/` and `S/`
for `src/tools/bootloader/legacy/shumway/`.

1. [Inventory](#1-inventory)
2. [Modules](#2-modules)
3. [Runs](#3-runs)
4. [Fairness](#4-fairness)
5. [Proofs](#5-proofs)
6. [What the code does against its documentation](#6-what-the-code-does-against-its-documentation)
7. [Not modelled](#7-not-modelled)
8. [Plan](#8-plan)

## 1. Inventory

The library runs without an operating system. There are two kinds of actors,
the main program and interrupt handlers. A handler runs to its end with
interrupts off (with one exception, motor control), and can start between any
two instructions of main. Drivers share memory and I/O registers with main
and call the application back through a `Delegate`. Of the
drivers only the one-shot timer takes a lock on its own; for the others
`GlobalIntLock` (`H/locking/interruptLock.h`) is left to the application.

### Modelled

| Part | State | Operations | Interacts through |
|---|---|---|---|
| Byte stuffing `CFrame` (`H/common/cframe.h`) | two 4-bit states, `tx` and `rx`, in one byte | `startFrame`, `endFrame`, `transformOut`, `transformIn`, `resetTx/Rx` | called by the frame devices |
| `CDeviceFrame` (`H/common/cdeviceframe.h`) | a send and a receive buffer, positions, a `CFrame`, the UDRIE bit | `send`, `recv` (application), `putonReady`, `getonReceive` (interrupts) | UART interrupts, `onReady` and `onReceive` callbacks, the peer |
| `CDeviceFrameNoInt` (same file) | the local variables of the call in progress | blocking `send` and `recv` | busy waiting on the UART, the peer |
| `Uart` (`H/drivers/avr/uart.h`) | data and shift registers, ready flags | `put`, `get`, interrupt enable | the line |
| CAN driver `Canary`, `CanNoInt` (`C/`) | `msgPointers`, the page register `curMObNum`, MOb registers, interrupt masks, flags of each message | `send`, `recv`, `setAutoReply`, `stopAutoReply`, `restart`, `checkEvents` | the CAN interrupt, callbacks that call the driver, the controller, the bus |
| Shumway kernel, queue, shared memory (`S/kernel`, `S/util`, `S/ipc`) | a bounded message queue, a pool of segments | `_run`, `send`; `push`, `pop`; `get`, `free` | messages between servers, pushed by main and by the CAN interrupt |
| Shumway servers `S_Can_Phy`, `S_Id`, `S_Isp` (`S/s_can_phy`, `S/s_id`, `S/s_isp`) | session, pending close, memory, address, write buffer | one `receive()` each, callbacks of the memory drivers | the kernel, the host on the bus |
| Shumway flash and EEPROM drivers (`S/lib/mcu/flash`, `S/lib/mcu/eeprom`) | a job: addresses, what is left | start of a job; one step per SPM_READY or EE_READY interrupt | the hardware, `S_Isp` |
| Serial bootloader, AVR109 (`src/tools/bootloader/legacy/InSystemSelfProgrammingBootloader/main.c`) | address, device, page buffer, wait counter | start-up loop, one branch per command letter | a host over a serial line, flash, EEPROM, watchdog |
| Clock (`H/drivers/avr/clock.h`) | tick count | `tick`, `getTime` | its timer, a callback, callers in main and in handlers |
| One-shot timer (`H/drivers/avr/oneShotTimer.h`) | compare values and interrupt enables | `setup`, `triggerA..C` | its timer, callbacks, `GlobalIntLock` |
| Timer layers (`H/drivers/avr/timer/`) | registers of one timer | the methods the two use | hardware counter |
| Flash driver (`H/drivers/avr/flash.h`) | the Writer's address | `setCurrentAddress`, `write`, `eraseCurrentPage`, `writeCurrentPage` | self-programming hardware with a page buffer |

### Not modelled, with state of their own

| Part | State | What is hard | Why not |
|---|---|---|---|
| EEPROM (`H/drivers/avr/eeprom.h`, `H/regmaps/base/eeprom.h`) | address, write in progress | limit of the address, direction of the register-map interface | see section 7 |
| TWI and remote register maps (`H/regmaps/base/twi.h`, `remoteRegMap.h`, `H/drivers/ext/srf10.h`) | bus state, cached registers | errors at each bus step, partial synchronisation | see section 7 |
| SPI (`H/drivers/avr/spi.h`) | busy flag | completion before the flag is set | one race, listed as a hazard |
| Motor control and odometry (`H/drivers/ext/motorControl.h`, `odo.h`) | tick sums, PID state | read-and-clear races, a handler that enables interrupts | numeric; the race is listed as a hazard |
| PID and fixed-point numbers (`H/common/pid.h`, `fixPoint.h`) | error window | index at the window's border, saturation | numeric, sequential |
| Sleep (`H/common/sleep.h`), `Delegate` (`H/common/delegate.h`) | sleep-enable bit; object and function pointer | test-then-sleep, two-part update | in the callers |

The rest (ADC, PWM, external interrupts, buttons, LEDs and displays, the
compile-time interrupt manager, register and port maps, configuration, logging,
the port map generator, the terminal, platforms and examples) has no state
that two actors share, or exists at compile time only. `PROJECT.json` lists
each part with its files and its reason, and the main hazards, each at its line.

## 2. Modules

```
CFrame ──┬─ FrameCodec ─┬─ MCFrameCodec       (256 characters)
         │              └─ CodecProofs
Uart ────┤
         ├─ CDeviceFrame ─ FrameProps ─┬─ MCDeviceFrame
         │   FrameChannel ◄───┘        └─ FrameProofs
         │   (refined by FrameProps)
         └─ CDeviceFrameNoInt ─┬─ MCDeviceFrameNoInt
                               └─ PollingProofs

Canary ─ CanaryProps ─┬─ MCCanary
                      └─ CanaryProofs

ShumwayMemory ─ Shumway ─ ShumwayProps ─┬─ MCShumway
                                        └─ ShumwayProofs
SimpleQueue                            (the kernel's queue, access by access)

SerialBoot ─ SerialBootProps ─┬─ MCSerialBoot
                              └─ SerialProofs

TimerUnit ─ Timers ─ TimersProps ─┬─ MCTimers
                                  └─ TimersProofs
Flash ─ FlashProps ─┬─ MCFlash
            │       └─ FlashProofs
PagedStore ◄┘  (refined by FlashProps)
```

**CFrame** is the stuffing state machine, as operators on a state. The
configuration class (`CFrameAscii`, `CFrameReadable`, ...) becomes the
constants `Esc`, `Sofr`, `Eofr`, `Stuffed` (the map `c ^ escmod`) and `Skipped`
(xon, xoff and the none character). `StuffingAssumption` says what a sound
configuration is: distinct control characters, `Stuffed` an involution, and no
stuffed control character is a control character. TLC evaluates it on the small
instances' constants.

**FrameCodec** is one sender's `CFrame` feeding one receiver's, under a configuration
`conf` out of `Configs`, with `c ^ escmod` as the operator `Mixed`. `Feed(c)` is
`do put(transformOut(c)) while(again())` for one byte of the payload, `Close` is `endFrame`.
`MCFrameCodec` gives it five configurations of the repository on the 256 values of a char, so that
TLC evaluates `ConfigAssumption`, that is `StuffingAssumption` of each, on the real ones.

**Uart** is the transmit data register and the character in flight behind it
for each station; `Peer` is the wiring. A loop-back plug (`Peer[s] = s`) and a
cable between two stations are both instances of it.

**CDeviceFrame** has one action per branch of the code:

| Code | Action |
|---|---|
| `send()` | `AppSend` (with `Send`) |
| `recv()` | `AppRecv`, or inside `RxInterrupt` if the `onReceive` callback calls it |
| `putonReady()`, its four branches | `TxStart`, `TxIdle` (with the `onReady` callback), `TxEnd`, `TxByte` |
| `getonReceive()` and its callback | `RxInterrupt` (with `GetOnReceive`) |
| the hardware | `LineShift`, `LineLose` |

`device[s]` is the C++ object, field by field, with the UDRIE bit. A received
byte that does not fit the payload array is stored in the next member,
`sendMob.position` (`StoreByte`), as the compiler lays the object out.
`accepted`, `sent`, `delivered` and `damaged` are history variables. A refused
`send()` changes nothing and has no action.

**FrameProps** holds the properties, **FrameChannel** the abstract
specification: a channel of whole frames that may drop a frame when the
receiver is not listening but never corrupts, merges, duplicates or reorders.
The refinement puts a frame on the abstract line from the moment its `eofr` is
written to the data register until that `eofr` reaches the peer, so
a step that ends a frame, a step that delivers one and a step that reads one are the only
ones that are not stuttering.

**CDeviceFrameNoInt** has the bodies of the blocking loops as actions, one
station sending and one receiving at the same time.

**Canary** has three actors. Main's calls are one step per access to something
`checkEvents()` also touches:

| Code | Action |
|---|---|
| `send()`, `recv()`, `setAutoReply()` begin | `Call` |
| `selectMob()`: each read of `MObsAvailability`; the page write, with the caller's test of the slot | `Probe`; `TakePage` |
| `msgPointers[mob] = &msg` | `StorePointer` |
| `setInterrupt(mob)`: load and store of `MObsIntUsage` | `LoadUsage`, `StoreUsage` |
| `setWrite()`, `setRead()`, `setRTRValid()`; with an id or length out of range | `Fill`, `Start`; `Refuse` |
| `removeInterrupt(mob)` after that | `UnloadUsage`, `UnstoreUsage` |
| `stopAutoReply()`, `restart()` | `StopAutoReply`, `Restart` |
| `checkEvents()`: snapshot, one step per MOb, the end | `CheckBegin`; `HandleReceive`, `HandleTransmit`, `HandleError`; `CheckEnd` |
| the callback; what follows it in `handleReceive()` | `CallbackQuiet`, `CallbackStopCyclic`, `CallbackStartCyclic`, `CallbackCall`; `Rearm` |

With `UseInterrupts` `checkEvents()` is the interrupt, and main waits for its
end; without, main calls it between two calls. The processor executes one more
instruction of main between an event and its interrupt, also behind RETI. If that
instruction is `selectMob()`'s read, it sees a MOb whose event is still to be
collected; so `Probe` may happen with an interrupt pending. Main's other
accesses touch nothing that the event of a MOb changes (`MainAt`), so that
the interrupt may be put before them. `RearmRace` says whether that read may also
meet a MOb which its handler will start again (section 6).

The controller (`BusComplete`, `BusError`, `MobOff`) is external and follows what the driver
relies on in the AT90CAN: a MOb with an active interrupt needs its bit in CANIE
and its class in CANGIE; the enable bit falls when the frame is through; a MOb
that is switched off while it is busy still completes its frame or not; only
transmitters miss acknowledgements. Identifiers, masks and data are abstracted
to "the message the MOb was loaded with".

**ShumwayMemory** has the two asynchronous memory drivers. A job is handed over
by the main loop (`FlashWriteAsync`, `FlashEraseAsync`, `EepromWriteAsync`,
`EepromEraseAsync`) and carried out by one interrupt step at a time: blank
check, erase, fill, write, copying back the rest of a page. A page operation
closes the application section (`readable`); what is read from a closed section
is any of the outcomes the hardware gives.

**Shumway** composes them with the kernel, the shared memory and the three
servers that `servers.cpp` creates. The main loop is two steps: `Pop`, and the
`receive()` of the server the message is for, with all the sending, freeing and
putting back it does. Between any two steps an interrupt may come: the CAN
interrupt with a request of the host, SPM_READY, EE_READY. A message names its
segment (`key`); the routing arithmetic of the kernel (`Target`) is kept,
because a message that no server takes goes round by it. A frame may also come between
a `free()` inside a `receive()` and the `get()` of the acknowledgement behind it
(`FrameAfterFree`, `FrameInNoBuffer`, `FrameInReadDone`). `push()`, `pop()` and `get()` are
single steps here; `ServedInSilence` is the property that no frame comes into those of a
server that works on a request of a waiting host. The host opens and closes sessions, selects memories,
reads, writes and erases in any order; `image` is what it was promised.

**SimpleQueue** is `Bounded_Simple_Queue` on its own, one step per access to a variable that
both main and the CAN interrupt write: the claim of a place (`_wthreads`), the element, `_back`, and the load
and the store of `_fill`. The interrupt pushes, and runs whole between any two of them. What only
main writes belongs to the step before. The compiler is taken to make the
accesses in the order of the source.

**SerialBoot** is the command loop as a state: the command whose arguments are
being read, and the arguments so far. The step that receives the last argument carries
the command out, but the power may fail inside a block or an erase, whose bytes are anything then (`TornBlock`).
Around it are the start-up loop with its wait counter, where ESC takes a turn as silence does and any other character but the start
character ends the wait, the erase loop, the three characters the receiver holds while the loader is busy, the
watchdog behind `E`, a line that loses characters in either direction, and
power failures. The host is lockstep: it waits for the answer of each command, and
after a timeout sends ESC until the loader must be between commands again; then it takes
nothing it believed for granted.

**TimerUnit** has the timer hardware and the few methods of the timer layers
the two clients use. **Timers** puts `Clock` and `OneShotTimer` together as
`src/examples/src/oneShot.cpp` does: the clock's callback sets units up, the
units' callbacks read the clock. Beyond the example, one unit is set up by
another unit's callback and by main. Time is `Count`: one count of both timers, between
any two accesses of the program. `Latency` is the assumption on the processor:
the counts that may pass while an interrupt waits or a handler or a locked section runs.
`full`, `left` and `armed` are history variables.

| Code | Action |
|---|---|
| `ClockImpl::tick()` and its callback | `Tick`, then the calls of `OnTick` |
| `triggerA()`, `triggerB()`, `triggerC()` | `Trigger(u)`, then the calls of `OnMatch[u]` |
| `setup()` | `SetupCounter`, `SetupCompare`, `SetupEnable` |
| `getTime()` | `TimeTicks`, `TimeMicroTicks` |
| `GlobalIntLock`, or the callers' lock | `MainCall`, `Return` |

**Flash** has the Writer's methods as lists of steps, one per command to the
hardware and per wait. A command is carried out if the hardware is idle, and
ignored if it is busy or if an interrupt separates the store to SPMCSR from
`spm`. The hardware programs only from one to zero, takes each word of its page
buffer once, and clears the buffer with a page write and with `enableRWW`.
Power may fail between any two steps and during an erase or a write.
**PagedStore** is what a client may rely on; `FlashProps` gives the refinement:
the store is the flash memory, except while a method changes a page, when it is still
the page as it was before.

## 3. Runs

Deadlock checking is off where the application, the host or the bootloader may
stop, and nothing is left to do; `TimersExample` and `FlashWrite` check it.

| Run | Question | Bounds |
|---|---|---|
| FrameCodec | Does decoding undo encoding, do the delimiters stay unambiguous? | five configurations of the repository with all 256 characters; frames of up to 3, made of the control characters, 0, the character that is stuffed to `esc`, and any one other |
| FrameCallback | Does a station that waits for `onReady` and reads in `onReceive` deliver everything, in order, and is it a `FrameChannel`? | loop-back, payload 7, four frames of up to 7 bytes, 5 sends |
| FrameLossy | On a line that loses characters, with sends at any time and a polling reader, what can be corrupted? | loop-back, payload 7, two frames, 3 sends |
| PollingPaced | Do the blocking calls deliver every frame that fits, and recover from those that do not? | four frames of 1 to 4 bytes, buffer of 2, 3 sends |
| CanInterrupts | With the interrupt between any two accesses of main's calls: is every message served and every frame told, once, to its message, and eventually? | 4 MObs, 3 slots, one message of each kind (the reception cyclic, the transmission sometimes invalid), 2 frames each; the reception is stopped in its callback |
| CanStress | Does main find its page again after errors, calls in callbacks, `restart()` and a stolen MOb? | 3 MObs, 2 slots, a sender and a cyclic receiver, missed acknowledgements, 1 restart |
| ShumwayUpdate | Does a host that waits for answers get the right ones, is the node left in peace while it works, and is what the host programs in memory when the application starts? | pages of 2 bytes, 2 pages, 4 segments, 6 requests |
| ShumwayBurst | Does the node settle under requests that nobody spaces out, some of them between a `free()` and the `get()` behind it? | 3 segments, 3 places, 3 requests under way, 4 in all |
| QueueRaced | Is the queue safe against interrupts, as `push()` is documented? It is not: the run is a counterexample (section 6) | 2 places, 4 messages |
| SerialUpdate | Can a host program a device over a bad line and through a power failure? | pages of 4 bytes, 2 pages, 2 EEPROM bytes, 7 commands, 1 lost character, 1 power failure, a wait of 2 ticks |
| TimersExample | Are ticks, times and one-shot callbacks right while counts pass between any two accesses? | counters modulo 16, a period of 12, latency 2, 3 units, ticks modulo 3 |
| FlashWrite | Do the Writer's commands come out as changes of whole pages, one at a time, through power failures and ignored commands? | 2 pages of 2 words, one value, 3 of the configurations; no bound on calls or failures |

Why these bounds are enough to meet the interesting cases:

- Bytes of three bits keep every class the code can tell apart: `esc`, `sofr`,
  `eofr`, the three bytes that look like stuffed control characters, and two
  that are neither. `MCFrameCodec` covers the real width.
- `Payload` stands for 255. The code has `PL` as the largest value of the size
  type, and only comparison with it and the wrap-around at it matter.
  `FrameCallback` has a frame that fills it, so that one character too many
  would wrap; `RecvWithinPayload` is checked without losses, as it does not hold
  with them (see section 6).
- A second and a third frame are needed to see a state left behind by the one
  before; five sends let a frame be accepted while its predecessor is in each
  of its stages (accepted, in the data register, on the line, being read).
- Two to three MObs with a slot and one without distinguish "the next free
  MOb", "the last one" and "one too many". Two frames per message are the
  smallest number at which an event can be given to the wrong occurrence.
- In `CanInterrupts` three messages share three slots, so that a MOb is freed and
  selected again while main is preparing another. `SlotsStayInside` is about this case, no more
  messages than `maxConcurrentMsgs`; with one more the code writes behind the array (section 6).
- `QueueRaced`: one lost update of `_fill` needs one message of main and one of
  the interrupt.
- Shumway: two pages of two bytes let a job begin in the middle of a page and
  end in the next; a buffer of 3 bytes behind an acknowledgement of 1 lets a
  read be longer than a segment. Four segments are what a waiting host needs
  at most (request, answer, buffer, close); three make the pool run dry.
- SerialBoot: a block of half a page, one of a page and one of a byte; their bytes are
  also command letters and memory types, so that shifted arguments are read as
  commands. Seven commands are enough for a session: connect, device, address,
  erase, block, read, exit.
- Timers: the period (12) and the round of the free-running counter (16) have
  no common multiple below 48, so every position of a tick in a round occurs; a
  latency of 2 lets a count pass before and after each interrupt.
  `TimersAssumption` names what the run and the proofs assume: the latency is
  below the period, a time is longer than its `setup()` takes and fits the
  counter, and what a tick sets up fires before the next.
- Flash: words before and after the written one are preserved in different
  behaviours; two pages show damage beyond the one that is written.

Each property of each run has a mutant in `PROJECT.json`: a change of one
mapped definition, such as a missing reset, that TLC shows to break it. The
mutants stand next to the definitions they change.

What is checked, in short:

- *Frames.* `RoundTrip`, `Transparent`: decoding undoes encoding, and no
  delimiter appears inside a frame. `SendingHasInterrupt`: a frame that is
  going out has its interrupt enabled. `AcceptedIsSent`: when the transmitter
  is quiet, what was accepted was sent. `EventuallyDelivered`: the peer reads
  every frame in the end. `RecvWithinPayload`: on a line without losses the byte count never wraps, also with
  frames that fill the payload.
  `FinishedUntilRead`: a finished frame is not touched until it is read.
  `OnlyDamageCorrupts`: after a loss the receiver finds the next frame start and is
  right again (as long as frames stay short against the payload). `ImplementsChannel`: the refinement.
- *Polling.* `SentIsReceived`, `EventuallyReceived`: the frames that fit arrive, and a
  `send()` that has begun its bytes returns.
- *CAN.* `NoMessageStranded`: a message accepted with `SUCCESS` keeps a MOb
  that will come back to it. `EveryFrameAccounted`: frames completed = events
  told + flags standing for that message. `MainKeepsPage`: the page register
  is main's again after an interrupt. `PreparedMobIsFree`: main never prepares
  a MOb that serves another message, though `selectMob()` may have read it before its event was
  collected. `SlotsStayInside`: no write behind `msgPointers`, as long as there are no more messages than slots. `EventuallyTold`: every frame is told.
- *Shumway.* `SegmentsOwned`: every message owns a segment, so
  none is leaked or shared; `ServedInSilence`: no frame of a waiting host comes while a server
  works on a request. `AnswersFit`,
  `EventuallyAnswered`: each request gets its answer and no other, however
  often busy servers put it back. `ReadAsWritten`, `WrittenAsOrdered`: what was
  acknowledged is what is read, inside the memories, and, when no job runs, what is in memory.
  `AppStartsIdle`: the application is not entered while a memory is at work.
  `NodeSettles`: no message goes round for ever. `PaysAttention`, violated: between two calls of main
  the queue holds what was pushed and not popped.
- *Serial bootloader.* `AckedIsKept`: what was acknowledged is in memory and stays, through
  a lost character, misread commands and resets, for a host whose bytes are `Unmistakable`.
  `EscapesSuffice`: ESC leads out of the longest argument list.
  `CleanLineWorks`: without losses no command fails, also during an erase; for a host whose
  commands the loader knows (`AsksFit`, `WholeWords`; TLC evaluates these hypotheses for the run's host).
  `EventuallyApp`: a loader that was started reaches the application or is called, whatever the host sends meanwhile:
  ESC takes a turn of the wait, and another character ends it.
- *Timers.* `EveryTickCounted`: the ticks counted, with the one pending, are the
  periods that passed. `ReadingNearTheTime`: a reading is never ahead and at
  most a tick behind. `OnTime`: a
  callback belongs to one `setup()`, in time. `EventuallyFires`: a unit that the tick sets up
  waits for its own callback, never for the next tick; another one for its callback or a new
  `setup()`, and never past its time.
- *Flash.* `StoreImplemented`: the refinement. `ReadableBetweenCalls`: a method
  leaves the application readable.

## 4. Fairness

Liveness is checked under `FairSpec` (`Spec` in the newer modules), weak fairness of

- `CDeviceFrame`: the two interrupts, the UART's shift, and the `recv()` of a
  main program that polls. An enabled interrupt whose flag is up is served, as
  handlers terminate and interrupts are on in main;
- `CDeviceFrameNoInt`: the bodies of the blocking loops, which repeat until the
  call returns, the next call of `recv()`, and the shift;
- `Shumway`: the kernel loop (`Pop`, `Receive`) and the memory interrupts, which stay
  requested as long as a job is under way; not the host;
- `SerialBoot`: the loader, which is one endless loop, and the host's answers to
  what it receives (a program that reads its port); not the line, nor the power;
- `Timers`: the counters and the processor, which is never stopped in a call or a
  handler; main need not call. A due interrupt goes before main's next call:
  there are instructions between the end of a lock and the next `cli`;
- `Canary`: `CheckBegin` (the interrupt, or a main loop that calls
  `checkEvents()`), the steps of a `checkEvents()` that has begun, and the
  steps of a call that main has begun.

Nothing is assumed about the application (it need not send, nor free a
message), about the host (it need not send), about the bus (a frame need not
complete), or about losses and failures.

## 5. Proofs

Eight modules hold proofs that TLAPS checks: `CodecProofs`, `FrameProofs`, `PollingProofs`,
`CanaryProofs`, `ShumwayProofs`, `SerialProofs`, `TimersProofs` and `FlashProofs`. They start
from the assumptions named in the modules and hold for every value of the
constants that meets them: any number of stations and any wiring, any payload
and control characters; any number of MObs, slots and messages; any number of
segments, places and requests; any counter, period, latency and set of calls;
any size of device and page; any number of losses and failures. A theorem that needs
more says so as its hypothesis.

| Assumption | Says |
|---|---|
| `StuffingAssumption` (`CFrame`), `UartAssumption`, `DeviceAssumption`, `PollingAssumption`, `SenderAssumption` | a sound configuration of the stuffing, stations and wiring, sizes |
| `ConfigAssumption` (`FrameCodec`) | each configuration is sound in the sense of `StuffingAssumption`; mixing is an involution on bytes and takes no control character to one |
| `NoFrameAssumption` (`FrameProps`) | the mark for "no frame" is not a frame |
| `CanaryAssumption` | at least one slot, and more MObs than slots (`can_enums.h`: 15 and at most 14); each message is of one kind |
| `SizeAssumption`, `RequestAssumption` (`Shumway`) | no more segments than places in the queue, and a request fits a segment, as it comes in one frame; its argument is a number or none |
| `PageAssumption`, `ByteAssumption` (`ShumwayMemory`) | whole pages; garbage is not data |
| `SerialAssumption`, `HostAssumption` (`SerialBoot`) | whole pages of whole words, below 65536 bytes; an application below 2 · 65536 bytes, what a word address of 16 bits reaches (`APP_END` is 0x1FBFF); an EEPROM below 65536 bytes; blocks of 1 byte to a page, addresses of 16 bits |
| `CounterAssumption`, `TimersAssumption`, `ProgramAssumption` | the latency is below the period; a time is longer than its `setup()` takes and fits the counter; what a tick sets up fires before the next |
| `FlashAssumption` | whole pages of words; a configuration with `preserveUnset` also has `autoIncrement`, which the code does not enforce (without it words are loaded twice, section 6) |

| Theorem | States | Argument |
|---|---|---|
| `TypeCorrect` | `Spec => []TypeOK` for `CDeviceFrame` | `TypeOK` is inductive, one step per action. The interesting part is arithmetic: a size stays a value of FLT although a byte may be stored behind the buffer, into `sendMob.position`. |
| `NeverStranded` | `Spec => []SendingHasInterrupt` | inductive together with `TypeOK`. Only `TxIdle` disables the interrupt, and it does so only when the state is not sending; only an interrupt, which is enabled, starts a frame. |
| `ByteRoundTrip` | `transformIn` undoes `transformOut` for each byte, in one or two characters, with sender and receiver in step | cases on whether the byte is a control character; `StuffingAssumption` gives the involution and that the stuffed byte is ordinary. |
| `FrameRoundTrip`, `PayloadHidden` | `RoundTrip`, `Transparent` for `FrameCodec`: any sound configuration, any payload, frames of any length | `InStep`: between two bytes sender and receiver are both at the start of a frame or both inside it. `ByteThrough` follows one byte through both machines. |
| `FinishedStays` | `Spec => FinishedUntilRead` for `CDeviceFrame` | a finished machine leaves every character aside (`FinishedIgnores`); `TypeOK` holds it to one of the stations; one case per action, of which only `recv()` moves it. |
| `ChannelImplemented` | `~Lossy /\ Spec => ImplementsChannel` | `ChannelInv`: a receiver is out of a frame, or in step with the sender once it has read the characters under way; in step means that it has, in its buffer, what the sender has put out of its own. Each action is a step of the channel or a stutter; the frame is on the channel while its `eofr` is under way. |
| `NoOverrun` | `~Lossy /\ Spec => RecvWithinPayload` | from the same invariant: a receiver in step counts no further than the sender, which stops at the size it was given; so its count falls back at a new frame start only, never by wrapping. |
| `DamageOnly` | `OnlyDamageCorrupts` on a line with any losses, as long as no receive buffer overflows (`RecvWithinPayload`) | `LossyInv`: a receiver whose line was damaged is taken for one that hunts for a frame start (`Seen`), as the next start leaves both in the same state; the line is then in step as in `ChannelInv`, and a finished frame on an undamaged line is one that was sent (`FinishedKnown`). The hypothesis is needed: two near-full frames merged by a loss write over the position of the station's own transmission (section 6). |
| `AllAcceptedSent` | `AcceptedIsSent`, on a line without losses, for applications that wait for `onReady` | `ChannelInv`, and that at most the last accepted frame has not been sent. |
| `FramesArrive` | `SentIsReceived` for `CDeviceFrameNoInt`, with a pause between sends (`Paced`) | `LineInv`: what the receiver will have returned when it has read the characters under way is a function of what the sender has done so far. |
| `PageIsKept` | `Spec => []MainKeepsPage` for `Canary` | not inductive: while `checkEvents()` runs, the page is another's. `PageInv` adds that `check.saved` is then main's MOb. Holds with sends in callbacks, which change the page themselves. |
| `SlotsHold` | `SlotsStayInside`, under `Documented` (next but one row) | from `ServeInv`: the MObs that `selectMob()` has passed hold different messages, none of them the one it serves, so with no more messages than slots it stops below `maxConcurrentMsgs`. The hypothesis is needed: with more messages `recv()` and `setAutoReply()` write one slot too many (section 6). |
| `CanTypes` | `CanTypeOK`, for any errors and restarts, if there are no cyclic messages, or callbacks do not send, receive or set up replies (`SafeCallbacks`) | types, and that the pointer of a MOb in use is stored before the MOb can raise an event. Without the hypothesis "the current MOb" is started again without a pointer (section 6). |
| `MobsApart`, `MessagesServed`, `FramesAccounted` | `PreparedMobIsFree`, `NoMessageStranded`, `EveryFrameAccounted`, under `Documented`: by interrupt, no more messages than slots, no bus errors, no `restart()`, no calls in callbacks but `setCyclic(false)`, and no read of `selectMob()` at a MOb between its event and the handler that starts it again (`~RearmRace`) | `ServeInv`: a MOb in use has its slot, its interrupt and an open message to itself, and its flag tells of this message's last frame; an open message has such a MOb, or the handler that has taken its frame starts the MOb again; main prepares a MOb that is not in use, for a message that is not open; while it still searches, the MOb it has read as free is one whose event, if it has one, will free it. What main has read of `MObsIntUsage` is then never too little when it writes it back. |
| `SegmentsKeptApart` | `SegmentsOwned` for `Shumway` and a host with one request under way (`Window = 1`), with `push()` and `pop()` as single steps | ownership: `OwnInv` says that the queue, the kernel's hand and the programmer's buffer own one segment each and no other is locked. Each way a handler lets go of its message (send, free, acknowledge, keep as the buffer) is a lemma about that division; the handlers are compositions of them. |
| `ServersUndisturbed` | `ServedInSilence`, for any window | `FlowInv`: for a host with one request under way the message that asks in the kernel's hand is that request, which nobody has answered yet; so the host has nothing to send. This is what makes the single steps of `SegmentsKeptApart` sound for a `receive()`. |
| `ShumwayTypes` | `Spec => []ShumwayTypeOK` | with `BufferInv`: the buffer holds bytes of the host, never more than a segment, and none without a segment; each segment holds such bytes or an acknowledgement. |
| `AppWaitsForMemory` | `AppStartsIdle`, for a host with one request under way (`Window = 1`) | `JobInv`: the programmer's flag is up exactly while one of the drivers has a job, a write has bytes in the buffer, and a driver without a job has opened the section again. `FlowInv`: the request is one message at a time (`Token`); on the way to the end of the session no erase runs, and once it is closed all is written. |
| `HostIsAnsweredAptly` | `AnswersFit`, for such a host and four segments or more | `AnswerInv`: each message takes the way its signal says and carries the action of the request (`Routed`, `Carries`); the parts of a read leave before the request comes round again and before its answer, by the order of the queue (`Before`). Hence a request always finds a segment for the buffer (`BufferToHave`) and an idle driver, and nothing else is refused. |
| `MemoriesHoldWhatWasWritten` | `WrittenAsOrdered`, for such a host | `MemoryInv`: each byte the host was promised is in the programmer's buffer, on the page that was erased and is about to be written, or in memory (`KeptInv`); for each stage of a job, which pages are written, what the page buffer of the hardware holds, and which pages are blank. `CareInv`: flash is programmed upwards, and a write that is on its way finds room. |
| `HostReadsWhatItWrote` | `ReadAsWritten`, for such a host and four segments or more | `PartInv`: bytes on their way to the host are parts of a read, and as promised. They were taken while no job ran (`AnswerInv`), so `MemoryInv` says what they are. |
| `SerialTypes` | `Spec => []SerialTypeOK` | `LoaderInv`, `HostInv`: an erase stays in the flash, an address in 16 bits, a command at its arguments. |
| `EscapesLeadOut` | `Spec => []EscapesSuffice` | `EscapesInv`: during the synchronisation every ESC sent and not under way is an argument of the command, or the command is complete; `SyncLength` is the longest list. |
| `CleanSession` | `CleanLineWorks`, for a host whose commands the loader knows (`AsksFit`) and whose flash blocks are words (`WholeWords`) | `CleanInv`: while nothing was lost and the power stayed on, loader and host are in one phase of the session: nobody connected, the call under way, both ready, a command under way, an erase of all under way, or an answer under way. While a command is under way, the arguments the loader has and the characters on the line together are that command; in every phase both sides agree on device, address and what was stored (`Settings`, `Holds`). One lemma per command. The host has no timeout because a command that has left the line is carried out (`SentIsTaken`). |
| `AckedStays` | `AckedIsKept`, for such a host, one lost character (`OneLoss`) and bytes that cannot be mistaken (`Unmistakable`: blocks of up to 69 bytes, addresses whose high byte is no command of its own, and more); any number of power failures | `KeptInv`: loader and host agree as in `CleanInv`, or the host synchronises and counts on nothing (`Syncing`), or they have come apart in one of ten ways (`Apart`): too few answers will come, the loader was reset unnoticed, an argument is missing, the letter is missing and the arguments are read as letters, and so on. In each the host ends up synchronising, or gets answers that make it believe nothing new. One lemma per way for the loader's steps, and one per command for what its loss makes of it (`Indispensable`: without one of its arguments a command is never complete). That the loader is between commands after the synchronisation is `EscapesInv`. |
| `NoTickLost` | `Spec => []EveryTickCounted` for `Timers` | `ClockInv` adds that a tick that waits is no older than the processor has been busy: while the flag is up, the counter is at most `late`, which `Latency` keeps below the period; so no second period ends under a pending flag. |
| `TimersTypes` | `Spec => []TimersTypeOK` | every call still to make is one of its program's, and the value it has loaded is a compare value or a number of ticks. |
| `ReadingsNear` | `Spec => []ReadingNearTheTime` | the two loads of `getTime()` happen with interrupts off: a tick between them makes the reading a period late, and none can make it early. |
| `CallbacksOnTime` | `Spec => OnTime`, if only the tick sets up its units (`Punctual`) | `UnitsInv`: for a unit that is armed, the counter is as far from its compare value as there is time left. `TickedInv`: what the last tick set up has fired, so its flag is down when it is set up again. |
| `SectionOpen` | `Spec => []ReadableBetweenCalls` for `Flash` | `FlashInv` (`StagesKept`) names the stage of the method, with the words still to preserve: at each, which steps are left, when the hardware may be at work and, while no command was lost, what each place of the page buffer holds and what the page will be when the hardware is done. One lemma per action; that the lists the client's calls build are such methods is a lemma for each call. |
| `PagesStored` | `Spec => StoreImplemented`: `Flash` refines `PagedStore` | from `FlashInv`: for the client a page changes in the step that opens the section, and there it is what was put over what was kept; every other step is a stutter, a move, or a loss that touches one page only. |

Each invariant was checked by TLC on the instance of its run before it was
proved. Several had to be corrected there: `Punctual`, for one, asks that the first tick is
served before the counter comes round to the compare registers' initial 0
(section 6).

What is proved about whole frames of any length rests on induction over their
length. The library's induction theorems cannot be used here, as they take an
operator; `PollingProofs` states the property as a set of numbers instead, and `CodecProofs` and
`FrameProofs` as invariants of the steps that send a frame byte by byte.

Only model-checked is liveness (`EventuallyDelivered`, `EventuallyReceived`, `EventuallyTold`, `EventuallyAnswered`,
`NodeSettles`, `EventuallyApp`, `EventuallyFires`), which is out of this prover's
reach, as `ENABLED` is. Every other property of the runs is a theorem, some under hypotheses
their tables name; section 6 says what happens without them.

## 6. What the code does against its documentation

Met while modelling. The runs state what holds outside these cases, and the
modules name the condition where a case is excluded.

Frames and CAN:

- `CanNoInt` with two transmissions under way (`C/can_base.h:124`): `selectMob()`
  takes any MOb whose enable bit is off, also one that has sent its message
  and whose event `checkEvents()` has not collected; the first message never gets
  its event. `can_handlers.h:169-171` says: "After succesfull sending the of
  message the event-field of the Message-Struct contains TRANSMITOK". With the
  interrupt, the event is collected before the MOb is prepared, and the MOb is free then. Not so if its
  handler starts it again (a cyclic reception, an automatic reply): the one
  instruction between the event and the interrupt may be `selectMob()`'s read, which finds the MOb
  off, and after the interrupt main prepares the MOb that receives again. `PreparedMobIsFree` is
  violated when `RearmRace` is TRUE; `CanInterrupts` and `Documented` exclude it, `CanStress` does not.
- The page register has more than the number of the MOb: its low bits count
  through the data bytes (`can_regmap.h:313-322`). `checkEvents()` saves and restores the number only
  (`can_handlers.h:396-412`), and `readData()` moves the count (`can_base.h:238`), so the bytes of a message that
  main is filling may go astray when a reception comes between two of them. This is seen by reading;
  data is not in the model.
- `setCyclic(true)` in the callback of a message that is not cyclic starts the MOb again whose interrupt has
  just been removed (`can_handlers.h:126-143`), so nothing tells of its next frame. `CanInterrupts` has `setCyclic(false)` only.
- A receive callback that sends (`C/can_handlers.h:140`), as
  `src/examples/src/not_ported_yet/canRTR.cpp:98` does, takes the very MOb the message
  arrived in; the cyclic reception that should be rearmed afterwards is gone.
  `can_types.h:221`: "if true driver will continue receiving, even after one
  message was successfully received".
- `recv()` and `setAutoReply()` test `>` where `send()` tests `>=`
  (`C/can_handlers.h:93`, 243), so one message too many is written behind
  `msgPointers`; with no more messages than slots it does not come to that (`SlotsStayInside`). `can_default_configs.h:78-81`: "If the maximal number is reached
  every send/receive operation will return with NOFREEMOB".
- `send()` without a lock (`H/common/cdeviceframe.h:286`) puts back an old receive
  state when the receive interrupt finishes a frame between its load and its store, and that
  frame can no longer be read. Line 302 says of `recv()`: "Reads the last
  message received."
- The blocking `send()` does not wait before its first character
  (`H/common/cdeviceframe.h:68`), which the UART may drop after a previous
  frame; it still returns the size. Line 60: "Returns the size of the data
  send (zero if unsuccessfull)."
- `send()` overwrites a frame that was accepted but not started
  (`H/common/cdeviceframe.h:279`: `sending()` is still false). `AcceptedIsSent`
  is checked for applications that wait for `onReady`.
- The bound test of the receiver reads a position nobody advances
  (`H/common/cdeviceframe.h:191`). On a lossy line merged frames can fill the
  payload and overwrite `sendMob.position`; with near-full frames
  `OnlyDamageCorrupts` then fails.
- `getEvent()` clears one flag of several (`C/can_base.h:298`): with an error and a
  completion at once, the second flag outlives the message and is told to the next
  user of the MOb. `CanInterrupts` has no bus errors for this reason.
- An automatic reply is sent again without the transmit callback
  (`C/can_handlers.h:288`). `restart()` disables all interrupts and nothing
  enables them again (`C/can_base.h:96`).

Shumway:

- The queue is not safe against interrupts, although `Bounded_Simple_Queue.h:75`
  says "Pays attention for interruptions by others by itself": a nested push between the
  claim of a slot (line 86) and the move of `_back` writes over the other's
  element, and the fill count is read, changed and written in main and in
  the interrupt (line 124), so that an interrupt between load and store is
  forgotten. `QueueRaced` shows it (`PaysAttention`). Of a host that waits for
  its answers the servers can meet it in one place: DISABLE_APPL_START is still on its round
  of the servers when the opening of a session is answered, and the next request may come into
  the push that passes it on. The bus takes a frame for the request meanwhile, the kernel about three
  steps for the round.
- The search and the locking of a segment are two steps (`Bounded_Shared_Memory.cpp:46`): a
  frame between them takes the segment that main has found, and both have it. Likewise `S_Isp` reads a
  request's header behind its `free()` (`S_Isp.cpp:97-98`). And it asks for the buffer and for
  the running job in two steps when the session closes (`S_Isp.cpp:290-291`): if the job ends
  between them, a job for no bytes is started, whose interrupts end it within a few
  instructions, and the close goes on as if it had found the job running; that is what `IspCloseWait` and the end
  of the job give. But the end of that job frees `_isp_buffer_key` a second time, and if a
  frame has taken the segment in these few instructions, it loses it. All of this takes a frame while a server works on
  a request; a waiting host sends none (`ServedInSilence`, proved for every instance), a host that does not wait may break
  `SegmentsOwned`. `ShumwayBurst` therefore claims less.
- A close right behind an open, while DISABLE_APPL_START is still under way, is
  answered with an error, and later an acknowledgement goes out for an action nobody asked
  for (`S/s_id/S_Id.cpp:67-76`). A host that waits for answers does not do this.
- A close behind a full erase starts the application while the erase runs:
  `S/s_isp/S_Isp.cpp:289` looks at the buffer only. The host of
  `ShumwayUpdate` waits for the answer of the erase.
- A flash job over two pages reads the trailing bytes of the second with the
  section closed (`S/lib/mcu/flash/flash_drv_can128.cpp:156-182`).
- Requests sent without waiting can be reordered when one is put back, and with fewer than
  four segments answers are dropped without a word (`S/ipc/Server.cpp:53`).

Serial bootloader:

- An erase is answered with CR although the device was not set and nothing was erased
  (`main.c:410-414`); so are lock bits. The host has to set the device first.
- The answer to `g` has no end, so a host cannot tell a lost `g` from a
  block that begins with the answers of other commands except by comparing;
  `S` is both the identification and the start character; `E` is a memory type and the
  exit: with the letter in front of it lost, the loader leaves.
- A block of 70 bytes or more that loses the low byte of its length is acknowledged
  without being stored: the letter of its memory type is read as the length, and its
  first byte as the memory type (`main.c:377-391`).
- A device whose code is the letter of a command that is answered with CR, as 80, `P`: if `T` is lost
  the loader takes the code for that command, the host believes the device is set, and an
  erase is answered without being done. In the same way the argument of `x` or `y` without its letter may be
  `e`, and a host that asks with `S` wakes a loader that was reset and knows no device. `Unmistakable`
  excludes these and the long blocks; `AckedIsKept` is violated without each, which TLC
  shows within a few commands.
- With two characters lost from one command `AckedIsKept` can fail for other blocks, too: one of 65 bytes
  that loses `B` and its first zero is read as `A`, and acknowledged. Hence `OneLoss`.
- `size -= 2` until zero (`main.c:136`) never ends for an odd size, which one
  lost character can make (mode `hung`); a `g` longer than the page reads behind the buffer.
- A device that loses power in the middle of programming starts what is there when
  nobody calls the loader in time.
- An address whose high byte is a letter, as 0x50, `P`: if `A` is lost, the loader takes the byte for that command and
  answers it, and the host believes the address is set. `Unmistakable` asks for high bytes that the loader
  answers with `?`. The blocks of 256 bytes that the shipped configuration offers are
  outside `Unmistakable` as well: `AckedStays` says nothing of a host that uses them on a line that loses
  characters, `CleanSession` does on a line that does not.
- `pagebuf_t` has 8 bits for pages of 255 bytes and less (`chipdef.h:16-20`); modelled is the one of 16 bits.
- A block that runs over the end of its page is not written behind it: the bytes wrap around in
  the page buffer (`main.c:133`), over those at the beginning of the page.

Timers:

- A period of the clock is `microTickMax + 1` counts.
- `getTime()` is not atomic (`clock.h:216`): with interrupts on, a count of two or
  more bytes can be torn. With interrupts off a tick may be pending, so that a reading can
  be a tick behind, and behind an earlier reading (`ReadingNearTheTime` is
  the bound that holds).
- `setup()` does not clear the compare flag (`oneShotTimer.h:248`). A unit that
  is set up more than a round of the counter after its last match fires at
  once. `OnTime` therefore claims "not early" for the units that every tick sets up only.
- Compare registers start at 0, and nothing clears a flag before the first `setup()`. If the first
  tick is served so late that the counter has come round, the callbacks it sets up fire
  at once: `MicroTickMax + Latency` has to stay below the counter's range (part of `Punctual`).
- The callbacks of the example log; how long that takes counts as latency.

Flash driver (the client's rules in `Flash`):

- `eraseCurrentPage()` clears the page buffer: words written before it are lost
  (line 498). `setCurrentAddress()` to another page keeps them, and they are
  written to that page (line 460).
- With `preserveUnset`, a second `setCurrentAddress()`, or one without
  `autoIncrement`, loads words twice, which the hardware does not allow (lines
  462, 507); after `writeCurrentPage()` in the middle of a page, going on without
  `setCurrentAddress()` loses the words before it.
- No command is protected against interrupts (line 138), and power failing between an automatic
  erase and the write loses the words that were to be preserved. Both are in the model.
- The Reader's 16-bit offset is never carried into the page: it wraps after 64 KB.

## 7. Not modelled

- In `Uart`: baud rate, parity, frame format and error flags of the hardware.
  A corrupted character is not modelled, a lost one is.
- In `Canary`: the index of the data bytes in the page register (section 6), overload frames, the overrun callback, `getState`, time stamps,
  baud rate, and the values of identifiers, masks and data. Nested interrupts
  do not occur.
- In Shumway: what the races of the queue do to the servers (`SimpleQueue` has the queue alone), the
  inside of `get()`, and a frame between the two tests of COMM_CLOSE (section 6); the timer and UART servers, which `servers.cpp` does
  not create; the register access of the CAN driver.
- In the serial bootloader: configurations other than the one shipped, and what the
  identification commands answer.
- In the timers: other wave forms, dynamic prescalers, asynchronous clocks. In the
  flash driver: the position of the Reader, fuses and lock bits.
- EEPROM: the driver is byte access behind one busy flag. The register-map
  interface on top of it (`H/regmaps/base/eeprom.h`) calls the driver's `write` to read
  and its `read` to write, and counts through its buffer downwards from one behind its
  end; there is nothing it implements.
- TWI (`H/regmaps/base/twi.h`): blocking, main only; its peers are devices that are not in the
  repository. `read()` answers the first byte of three or more with NACK, and every
  error leaves without `stop()`, so that the bus stays claimed.
- Remote register maps: the synchroniser does not compile when it is instantiated. In
  `srf10.h`, `setRange` synchronises the gain register, and two registers have one address.
- Motor control, odometry, PID: numeric. `ticks()` and `eval()` read and clear a
  counter its interrupt adds to; the index of the error window runs one too far
  (`H/common/pid.h:93`).
- The parts named behind the second table of section 1, for the reasons in `PROJECT.json`.

## 8. Plan

What would come next:

1. `SimpleQueue` and the pool of segments with locks around their updates, shown to implement
   a bounded FIFO and a set of segments.
2. `OnTime` for units that main and other units set up: not early, given a bound on
   the rounds of the counter since their last match.
3. SPI's busy flag and the odometry counters, in one module of two-step updates.

Modules that are to be proved about declare their parameters as constants with
named assumptions, have one action per operation, and use no recursive
operators; `Bitwise` stays in `MCFrameCodec`.
