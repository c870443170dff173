# A TLA+ model of the MCU-Co firmware

MCU-Co turns an STM32G474 board into a GPIO and PWM co-processor: a host sends
framed commands over a serial link, the firmware carries each out and answers
with one response. This directory holds TLA+ modules of that firmware, the TLC
configurations that check them, and theorems about them that the TLA+ proof
system checks. Paths below are relative to `src/`, the root of the repository.

`PROJECT.json` is the machine-readable index: components, runs, the source
lines each definition translates, findings, hazards and theorems.

## 1. The system

### Components

| Component | State it keeps | Operations | Correct when |
|---|---|---|---|
| Host tool, `tools/mcu-co-cli` | a serial port and its input buffer | build a request, send it, wait for a response, time out | a response is taken for the request it answers |
| Command transport, `src/command_transport.c` | whether it is open, and on which UART | init, deinit, receive, send, flush | one link at a time, and the calls go to its UART |
| UART driver, `peripherals/uart.c` | registers, one receive ring per instance, initialised flags and modes | init, deinit, receive interrupt, read, blocking write, flush | a UART that is up is wired through; two on the same pins are never both up; a full ring loses the newest byte |
| Ring buffer, `data_structures/ring-buffer.c` | head, tail, storage | init, write (with or without overwriting), read, flush, is empty, is full | a bounded FIFO between one producer and one consumer |
| Frame parser, `src/frame_parser.c` | parser state and a partial frame | feed a byte, serialise, append and read the checksum | a frame is delivered when and only when it is intact; noise costs a bounded number of frames |
| CRC, `common/crc16.c` | none | checksum of a buffer, compare | equals the polynomial remainder; notices small damage |
| Dispatcher, `src/command_dispatcher.c` | the command table, a deferred reset | dispatch a request, build the response, hand out the reset request | every request gets one answer; a reset waits for its own |
| GPIO commands, `src/gpio_controller.c` | none of its own | configure, write, read, toggle, arm or disarm an interrupt, bind, unbind | a refused command changes nothing; a bound interrupt stays what it is |
| Interrupt bindings, `src/gpio_irq_bindings.c` | one binding per line | the action run by the handlers | only what is armed and bound acts |
| GPIO driver, `peripherals/gpio.c` | MODER, ODR, EXTICR, IMR1, RTSR1, FTSR1, PR1, NVIC, callbacks | pin and interrupt init and deinit, drive, read, seven interrupt handlers | one port per line; an armed line is served; output moves only on output pins |
| PWM commands, `src/pwm_controller.c` | none of its own | group cfg, release, get; channel cfg, set, release, get | a claimed channel drives its pin; a running group keeps its frequency |
| Timer driver, `peripherals/timer.c` | initialised and configured flags, duties, CR1, PSC, ARR, CCR, CCER and the shadow registers | init, deinit, start, stop, channel init and deinit, set and get duty, set and get frequency | time base and duties are what was asked, from the first period on |
| Clocks, `peripherals/rcc.c` | clock tree, recorded system clock | start-up configuration, clock gates | within the limits of flash and regulator at every step; completes or stops the boot |
| System tick, `peripherals/systick.c` | a millisecond counter | init, its interrupt, read, delay | delays are right across the wrap; wakes the main loop every millisecond |
| Logger, `src/logger.c` | a queue of entries | init, log, flush | never blocks a command; what is queued is written before the processor sleeps |
| Main loop, `src/main.c` | the frame being read | boot, receive, parse, check, dispatch, respond, reset, flush, sleep | every received byte is looked at; the answer precedes the reset |

### How they interact

```
 host tool ==serial==> UART ISR -> ring buffer -> main loop -> frame parser -> CRC
                                                     |
                                                     v
                       response <-- dispatcher --> GPIO commands --> GPIO driver
                                        |               |                ^
                                        |               v                | callbacks
                                        |        binding table <---- EXTI handlers <== edges
                                        +------> PWM commands --> timer driver --> GPIO driver (MODER)
                                                                       ^
                                                              update events (hardware)
```

There is one thread, the main loop, and interrupt handlers that preempt it. A
command runs to its end before the next one is read. What runs concurrently
with it:

* the EXTI handlers, which read the binding table and write the output latches
  the commands write;
* the hardware: edges set pending bits, counters reach the end of their period
  and copy preload registers to shadow registers;
* the UART receive handler, which shares a ring buffer with the main loop.

The drivers arbitrate pins through MODER only: a pin that is not in its
reset state is in use.

### Hard behaviours

`PROJECT.json` lists each at its line (`hazards`). In short:

* **Tables that must agree.** Whether a binding acts depends on the trigger
  registers, the callback table, the binding table, the NVIC and the modes of
  two pins. Nine operations change them one at a time.
* **Shared hardware.** Two ports contend for a line, lines share a vector, all
  pending bits share one register, all channels of a group share a time base.
* **Refusals half way.** Each command checks, acts, and checks again in the
  driver; a late refusal must leave nothing behind. (In the source every check
  precedes the first write, and a refused command is a step of the model that
  writes nothing: this is translated, and no property of a run says it again.)
* **Histories.** Claim, release, reconfigure, claim again: what does one owner
  leave for the next?
* **Delayed effect.** Preload registers reach the output at an update event,
  which a bad configuration can prevent for good.
* **Preemption inside a command.** Read-modify-write of ODR, the binding stored
  in several words, EXTICR passing through port A.
* **The link.** Time-outs and late answers, resynchronisation, a full queue, a
  reset that races its own answer, sleep that races a byte.

* **Waits that give up.** Every wait for the hardware is bounded: boot, UART
  init, UART deinit and flush each leave something behind when it runs out.

## 2. Modules

| Module | Models | Kind |
|---|---|---|
| `GpioPins` | pin modes and output latches of `peripherals/gpio.c` | state and operators |
| `Exti` | the interrupt half of `peripherals/gpio.c`, EXTI and NVIC registers | state and operators, extends `GpioPins` |
| `GpioController` | `src/gpio_controller.c`, `src/gpio_irq_bindings.c` and the handlers of `peripherals/gpio.c` | specification, extends `Exti` |
| `IrqLines` | what the interrupt service promises, without registers | abstract specification |
| `GpioPreempt` | the interrupt commands and `gpio_toggle` cut at every access they share with a handler | specification, extends `Exti` |
| `TimerDriver` | `peripherals/timer.c` | state and operators, extends `GpioPins` |
| `PwmController` | `src/pwm_controller.c` and update events | specification, extends `TimerDriver` |
| `TimerRetune` | `timer_set_frequency` cut at its register writes, `timer_stop` | specification, extends `TimerDriver` |
| `Firmware` | GPIO and PWM commands over one MODER | composition: extends `GpioController`, instantiates `PwmController` |
| `RingBuffer` | `data_structures/ring-buffer.c`, its calls cut where the other side can come in between | specification |
| `BoundedFifo` | what a ring buffer promises | abstract specification |
| `Crc16` | the loops of `common/crc16.c` on sets of bit positions | operators |
| `CrcLink` | sender and receiver of a checked frame, each with its own idea of where the body ends, over a wire that flips bits in any byte, LENGTH included; the long division the checksum is to agree with (`Remainder`) | specification, extends `Crc16` |
| `FrameParser` | `src/frame_parser.c` and the checks `src/main.c` makes before it dispatches | specification |
| `CommandLink` | host, wire, dispatcher, transport and reset, in whole frames | specification |
| `MainLoop` | the loop of `src/main.c` against receive interrupt, tick and log | specification |
| `UartDriver` | `peripherals/uart.c` and the link `src/command_transport.c` keeps on it | specification, extends `GpioPins` |
| `Boot` | `rcc_init`, `systick_init` and the UARTs, in the order of `main` | specification |
| `SysTick` | `peripherals/systick.c` | specification |
| `Platform` | the tick that the boot starts | composition: extends `Boot` and `SysTick` |
| `FirmwareProofs`, `GpioPreemptProofs`, `TimerProofs`, `PartsProofs`, `MainLoopProofs`, `CommandLinkProofs`, `UartDriverProofs`, `PlatformProofs` | theorems: of the module they are named after, or of `GpioController` and `Firmware`, `PwmController` and `TimerRetune`, the three parts of run `parts`, `Boot` and `SysTick` | proofs |
| `MC*` | instances for TLC; `CommandLink`, `MainLoop` and `Platform` need none | |

### State and code

* `moder`, `odr`: the registers of the same name, per pin. `MODER = 11`, the
  reset value of every pin but the debug pins, is `"ANALOG"`.
* `imr`, `rtsr`, `ftsr`, `pr`: the sets of lines whose bit is one in IMR1,
  RTSR1, FTSR1, PR1. `exticr`: the port a line's EXTICR field selects. `nvic`:
  the enabled vectors, each named by its lowest line (`get_exti_irqn`).
* `irq_callbacks`, `irq_bindings`: the tables of the same name. The only
  callback ever installed at a line is that line's entry of
  `irq_dispatch_table`, so a set of lines suffices. `isr`: the lines the running
  handler has still to look at.
* `tim[i]`: everything about one timer. `initialized`, `configured`, `duty` are
  the driver's arrays; `cen`, `psc`, `arr`, `ccr`, `ccer` the registers a
  program writes; `shadow` what the counter really uses.
* `frame`: the `command_frame_t`. `slot`, `head`, `tail`: the ring. `reg[u]`,
  `rx_buffers`, `uart_initialized`, `uart_modes`: a UART's enable bits and the
  driver's arrays of the same names. `rcc_sysclk`, `systick_ms`,
  `reset_requested`: the variables they are named after.
* `call`, `w`, `r`, `pc`, `step`: where a call that is cut into several steps
  is. `call.todo` of `GpioPreempt` lists the accesses still to make, in the
  order of the code.
* `reply`: the status the last command answered with. Variables marked
  *history* record what happened and guard nothing the code does: what the
  host was told (`bound`, `asked`), which edge set a pending bit (`cause`), the
  bytes since the start byte (`taken`), the damage done (`hits`, `flips`).

One action per command, handler or call, with a status operator
(`IoCfgStatus`, `InitStatus`, ...) that returns what the code answers, its
checks in the order of the code. A refused command is the disjunct whose status
is not `"OK"`. `LineEdge`, `PinEdge`, `EndOfPeriod`, `PeriodEnds`, `Settles`, `ShiftOut`,
`TimePasses` are the hardware; `Deliver`, `Spoil`, `Noise`, `Arrives` the wire;
`HostSends`, `Send`, `Timeout`, `HostByte` the host.

Definitions whose name is another's with a suffix (`IrqBindStatusOverwrites`,
`TimerInitNoUpdate`, ...) stand just before it and are plausible mistakes: put
in its place, each makes one property fail. They show that the property
discriminates, and no specification uses them. `PROJECT.json` lists them under
`mutants`.

### What is abstracted

* **The grain.** In `GpioController` a command is one step, and handlers run
  between commands; where the outcome depends on an edge while a line is being
  disarmed, the step offers both. `GpioPreempt` gives the same commands the
  finer grain, for one line and its two ports. The ring buffer, the retune, the
  UART calls and the boot are cut likewise; everything else is called from the
  main loop alone.
* **A command begins only when no enabled interrupt is pending**
  (`MainRuns`): the core enters the handler first. All EXTI vectors have one
  priority: a handler is not preempted by another.
* **Payload bytes are fields** in the controllers: a value or out of range; a
  payload of a wrong length is one action that refuses. **Frames are whole** in
  `CommandLink`, where a cut frame makes the parser swallow a bounded number of
  its successors; that this is what a parser does is checked in `FrameParser`.
  The bound holds for frames without an inner start byte. A request that has one
  (`inner`: `build_command` escapes nothing) can start the next bogus frame when
  a parser out of step meets it, so such requests may be swallowed for ever. A
  frame that is damaged, or put together of pieces, is never accepted in
  `CommandLink`; what the checksum lets through is the question of `CrcLink`.
  **Only intact frames** reach `MainLoop`, whose question is about queues.
* **The checksum** is a parameter of `FrameParser`. Its bit-level definition is
  `Crc16`, where a word is the set of positions that hold a one and exclusive
  or the symmetric difference.
* **Structure copies.** The assignment of an `irq_binding_t` is two stores in
  either order, pins and action with the active flag; the copy of a ring
  element is `Words` stores.

## 3. Runs

| Run | Module, cfg | Instance | Shows |
|---|---|---|---|
| `gpio` | `MCGpio`, `Gpio` | PA5, PB5, PA6: two ports on line 5, line 6 in the same vector; disarm and `BOTH`; toggling bindings | `BindingArmed`, `BoundLineFrozen`, `LineNeverStolen`, `OnlyOutputsMove`; `ImplementsIrqLines`: the registers and tables implement `IrqLines` |
| `gpio_preempt` | `MCPreempt`, `GpioPreempt` | two inputs on line 1, outputs PA0 and PA2, all three triggers | `ExactBetweenCommands`, `ExactWhileDisarming`, `TablesFollowHost` |
| `pwm` | `MCPwm`, `Pwm` | two groups of two channels whose pins lie on both ports, one pin without a timer | `ClaimedChannelDrives`, `UnclaimedChannelSilent`, `DutyIsAccurate`, `FirstPeriodOnTarget`, `FrequencyFrozen` |
| `timer_retune` | `MCRetune`, `TimerRetune` | one timer, two channels, every frequency | `TimebaseIsBest`, `MixLastsOnePeriod` |
| `firmware` | `MCFirmware`, `Firmware` | PA0 of both controllers, PB2, the debug pin PB3; lines with vectors of their own | `AfHasOwner`, `OwnVectorEnabled`, `PwmNeverTakesFromGpio`; with fairness `DutyReachesOutput`, `PendingIsServed` |
| `parts` | `MCParts`, `Parts` | a ring of four slots of two words, written with and without overwriting; frames of up to two payload bytes over three byte values; checked frames of up to two payload bytes over two byte values, with one byte damaged or up to three bits flipped | `ImplementsBoundedFifo`; `AcceptedExactly`, `LossIsBounded`; `OneHitCaught`, `ThreeFlipsCaught`, `SumIsRemainder` |
| `platform` | `Platform`, `Platform` | every wait of the boot answered late or never; a counter of 8 ticks | `WithinLimits`, `SysclkIsTrue`, `DelayLasts`; with fairness `BootEnds` |
| `command_link` | `CommandLink`, `CommandLink` | two commands in flight, one fault, two time-outs too early | `QuietExchangeIsOwn`, `AckOnWireBeforeReset`; with fairness `LinkRecovers` |
| `main_loop` | `MainLoop`, `MainLoop` | frames of 5 bytes, a ring of 16, three commands unanswered | `NothingLost`; with fairness `HostIsAnswered`, `LogIsWritten` |
| `uart_driver` | `MCUart`, `UartDriver` | four UARTs, USART2 and LPUART1 on the same pins | `InitialisedIsWired`, `HandlerHasRing`, `PinsNotShared`, `OneLinkHeld` |
| `gpio_vector` | `MCGpio`, `GpioVector` | as `gpio` | `ArmedVectorEnabled` is violated (section 5) |
| `firmware_owner` | `MCFirmware`, `FirmwareOwner` | as `firmware` | `ClaimedPinIsKept` is violated (section 5) |

`MCParts` puts three specifications side by side without interleaving them:
they share no variable, so a behaviour that mixes them shows nothing that the
three do not show one by one.

All passing runs are exhaustive, and no run has a state constraint. What is
bounded is the instance, and the counters the modules name (`MaxFaults`,
`MaxLate`, `MaxSwallow`, `MaxLength`, `MaxHits`, `MaxFlips`, `LossBound`, `ReadyTimeout`).

* *Two ports, one contended line, one more line in the vector.* Each property
  speaks of at most two ports on a line, one line, or two lines of one vector.
  Disarm and `BOTH`, and in `gpio_preempt` all three triggers, tell "the same
  edge" from "an edge".
* *A 12 Hz clock with a 2-bit reload and a 1-bit prescaler.* The arithmetic is
  that of the code with smaller limits: 6 Hz needs no prescaler, 2 Hz does, 1 Hz
  needs one that does not fit and is refused. In `firmware` the clock is 4 Hz,
  where 4 Hz asks for one tick per period. The proofs cover the real limits.
* *Three byte values.* One is the start byte and also a length beyond the
  limit, one the greatest length, one an empty payload. The stand-in checksum
  of `MCParts` weighs positions differently, so swapped bytes are noticed. The
  theorems hold for every checksum.
* *Payloads of two bytes* suffice for three flips to lie in three bytes, and for
  a damaged LENGTH to move the receiver's checksum within the frame and past its
  end. The two byte values are chosen so that the latter matters: among these
  frames is `B9 02 9A B9`, which with one bit of LENGTH flipped, 02 to 00, is
  accepted as the empty command B9, whose checksum the payload spells. So the
  exception `OneHitCaught` and `ThreeFlipsCaught` make for LENGTH is needed, and
  TLC finds both violated here without it. For the remainder, for one damaged
  byte and for odd numbers of flips the proofs cover every length, for two flips
  every frame of up to 32767 bits.
* *Four slots* is the least power of two with room for more than one element.
* *Faults.* The bound on faults is what "the wire behaves again" means in
  `LinkRecovers`; `MaxLate` allows two early time-outs in a row, after which the
  host can be one or two answers behind.
* *Polls.* A wait ends by its answer or by its budget; the model lets the
  hardware answer at any poll or none, so a budget of two or twenty differs only
  in how many polls go by. `Platform` has more because hardware that has to
  change twice (stop, then start) must be able to be late at each.

Deadlock is checked except in `parts`, where a checksum ends with its verdict,
`platform`, where a boot that fails halts, and `uart_driver`, where UARTs whose
initialisation failed can be all there are.

### Fairness

* `Firmware`: weak fairness of `Handler` and of `EndOfPeriod` for each timer.
  The NVIC enters the handler of a pending enabled interrupt as soon as nothing
  of the same priority runs, and the handlers contain no loop that waits. A
  counter that runs with a non-zero reload gets to the end of its period; the
  guard on the reload is part of the action, so fairness gives nothing to a
  blocked counter and `DutyReachesOutput` depends on GROUP_CFG refusing those
  frequencies. Nothing is assumed of commands or edges.
* `MainLoop`: weak fairness of the receive interrupt for bytes already on the
  wire, of the tick and of the loop. Strong fairness of `Drained` says that the
  loop is faster than the wire: at 115200 baud a byte takes 87 us, some
  15000 cycles, so a loop that can find the queue empty again and again does.
* `CommandLink`: weak fairness of the device's loop and transmitter, of bytes
  under way, and of a host that goes on asking, as one that polls with PROBE.
  Nothing is assumed of faults. `LinkRecovers` is about behaviours without late
  answers in which the host keeps, from some time on, to frames without an inner
  start byte; section 5 says what becomes of the others.
* `Platform`: weak fairness of `main`. The hardware owes nothing.
* No fairness elsewhere: those properties are safety.

## 4. Proofs

Every theorem holds for all values of the constants that satisfy the named
assumptions, each of which TLC evaluates for the instances above:

| Assumption | Says |
|---|---|
| `PinAssumption`, `PortAAssumption`, `WireAssumption` | pins are pairs of a port and a line; reserved pins are among those in AF at boot |
| `PreemptAssumption` | inputs and outputs are pins that are not reserved, no pin is both; lines have vectors of their own |
| `TimerAssumption`, `PwmWireAssumption`; both again as `PwmAssumption` of `Firmware` | channels have pins of their own, none of them in AF at boot; clock and limits are positive |
| `UartAssumption` | a UART's pins are pins not in AF at boot; `NoUart` is no UART; a good ring has more than one slot |
| `RingAssumption` | any positive capacity and element size |
| `CrcLinkAssumption` | frames are of bytes; bounds are numbers |
| `FrameAssumption` | the start byte, zero and the checksum's bytes are bytes; the host's frames hold no inner start byte |
| `LinkAssumption` | bounds are numbers, and a command can be in flight |
| `MainLoopAssumption` | positive sizes; the log has room for the two lines of the boot |
| `BootAssumption`, `SysTickAssumption` | any retry budget; delays are below the counter's modulus |

Four groups of theorems have a hypothesis of their own: those about
`RingBuffer` (`NoRace`: nobody overwrites, or the one who does shuts the reader
out and there is a slot to use), `ThreeFlipsAlwaysCaught` (`8 * (MaxLength + 4)
<= OrderOfX`: the frame has at most 32767 bits; one of this firmware has fewer
than 300, with `RX_MAX_PAYLOAD` at 32), `NothingEverLost` (`Outstanding * FrameSize <
RxSize`: all a host may have unanswered fits the queue) and
`AckAlwaysOnWireBeforeReset` (`~ TxTimesOut`: two bytes leave within the polls
of the flush). Without them the statements are false: section 5 shows the first
and the last; two flips 32767 bits apart cancel, as x to that power leaves the
remainder 1; a host that sends without awaiting answers overruns the queue.

Each inductive invariant was checked by TLC on the instance of its run before it
was proved, but for the two that speak of all multiples of the divisor
(`SumCongruent`, `ErrorKept`), of which TLC checks what follows from them. The
argument is the same everywhere: the initial states satisfy it, one lemma per
action (or per part of the invariant, where the parts need little of each other)
shows that a step keeps it, and the theorems follow.

### `FirmwareProofs`

*GPIO commands.* `BindingArmed` is not inductive by itself: it promises that a
bound line has its callback installed, but `IrqBind` looks at the mask, the port
and the trigger of the line and never at its callback. `IInv` is `TypeOK`,
`BindingArmed` and `ArmedHasCallback`, which says that every unmasked line has
one. A step that leaves the tables alone preserves it at once; `StepShape`
reduces the others to the disarming, arming, binding or unbinding of one line,
and each of those is a case of every proof.

* `TypeCorrect`, `InductiveInvariant`, `BindingsStayArmed`,
  `OwnVectorsStayEnabled`: invariants. The last is inductive with `TypeOK` alone.
* `BoundLinesAreFrozen`, `LinesAreNeverStolen`, `OnlyOutputsEverMove`: what a
  step may not do, by cases over the actions. The last is about a binding whose
  output pin `io_cfg` has since turned into something else: `irq_action_dispatch`
  does not ask, so it rests on the driver's guard (`DriveMoves`) and on what the
  tables hold when a handler reads them (`LatchStep`).
* `ServiceIsImplemented`: `Spec => IL!Spec`, where `IL` is `IrqLines` with a
  line's state computed from the registers and tables (`LineState`). Each
  command maps to `Arm`, `Disarm`, `Bind`, `Unbind`, `Drive` or a stutter, each
  step of a handler to `Enter`, `Serve` or a stutter.

*Both controllers.* A property of the GPIO commands is not one of the firmware:
a PWM command can rewrite MODER under a GPIO command's feet. `PwmStepShape` says
all a PWM step or an update event can do to what is shared: claim one channel
and switch its pin from analog to AF, give up channels and make their pins
inputs, or leave pins and claims alone; never touch an EXTI register, the table
or a latch. `GpioModeStep` says that a GPIO step never puts a pin into AF.
The timers themselves are out of GPIO's reach, so what is proved of a step of the
driver in `TimerProofs` (`TimerStep`, `TimersStaySound`) is used here through an
instance of that module; its statements ask nothing of the pins. What does not
carry over is `PinsFollow`: GPIO can take a claimed pin (section 5). `AfHasOwner`
is the half of it that GPIO cannot break. `FwInv` is `IInv` with
`OwnVectorEnabled`, `AfHasOwner` and `TimersSound`. From it:

* `AfAlwaysHasOwner`: no pin is left in AF once its owner has gone.
* `PwmNeverTakes`: no step switches an input or output to AF.
* `GpioKeptUnderPwm`, `ServiceKeptUnderPwm`: every theorem about GPIO above, the
  refinement included, is one about the composition; in particular no binding
  moves the latch of a pin that PWM holds.
* `WaveformKeptUnderGpio`, `FrequencyKeptUnderGpio`, `SilenceKeptUnderGpio`: the
  safety theorems about PWM hold of the composition as they stand, but for
  `ClaimedChannelDrives`. For the silence of unclaimed channels `AfHasOwner`
  stands in for `PinsFollow`: no two channels share a pin and none has one that
  was in AF at boot, so the owner could only be the channel itself.
* `OnlyThePinCanBeLost`: of `ClaimedChannelDrives` the pin is the only part at
  stake: it holds in every state in which the claims have their pins.
* `PinsAreLostToIoCfgOnly`: a pin leaves AF under a standing claim in one way
  only, an accepted IO_CFG that names it. So the disagreement that run
  `firmware_owner` shows has one cause, and a check of ownership in that command
  would remove it.

### `GpioPreemptProofs`

That handlers do only what the host has bound is false in the middle of an arm
or a bind (section 5), so an invariant has to say when it holds and what a
command has done so far. `IInv` says:

* `LinesInSync`: on every line, table and registers agree with what the host
  was told (`InSync`) unless a command is at work on that very line; a disarm
  counts as at work only once its vector is off (`Undisturbed`).
* `FiresFresh`: whatever can be taken as an interrupt now is an edge that the
  registers, as they stand, ask for; only a line being armed is excepted. This
  is the part that deals with the stale pending bit: a disarm leaves one behind,
  masked, and the arm that unmasks it has two more stores to make when the vector
  comes on, before which the handler runs and clears it.
* `CallOK`: what the command under way has still to do (`call.todo`) determines
  what it has done. The stores that are not to come any more are in the table
  (`StoresDone`); a disarm past its first access has the vector off
  (`OffQuiet`); a bind finds the trigger it checked still in the registers
  (`BindHolds`), as no handler changes one.

There is one lemma per part and per access, and the two orders of a binding's
stores are both covered. `AlwaysExactBetweenCommands`,
`AlwaysExactWhileDisarming`, `TablesAlwaysFollowHost`, `PreemptTypeCorrect`
follow. They need that a line has its vector to itself: `gpio_vector` shows what
happens otherwise.

### `TimerProofs`

*Commands.* `PwmInv` is `TypeOK`, a statement `Sound` about each timer alone,
and `PinsFollow`: a PWM pin is in AF exactly when its channel is claimed.
`Sound` is what makes the rest inductive: an initialised timer runs with a time
base its shadow registers share, only claimed channels have an output or a
compare value, and the compare value is that of the recorded duty *at the
current reload*. The last part needs that no step changes the reload of a timer
with claimed channels. Each driver call preserves `Sound` (`SoundInit`, `SoundStart`,
`SoundInitChannel`, ...), and `TimerStep` puts them together: a step replaces at
most one timer, by a sound one that keeps its time base while it stays up, and
`ClaimsBecome` says what happens to its claims and their pins.
Theorems: `InductiveInvariant`, `TypeCorrect`, `ClaimedChannelsDrive`,
`UnclaimedChannelsAreSilent`, `DutiesAreAccurate`, `PeriodsAreOnTarget`,
`FrequencyIsFrozen`.

*Retuning.* In `timer_set_frequency` the reload does change under claimed
channels, one register at a time. `Tuned` therefore says how far the writes have
come: the prescaler is that of the frequency asked for, the reload too once it
has been written, and the compare values of the channels already done are those
of their duties at the new reload. `RetuneInv` is `Tuned` of every timer with
`CallFollows`, which ties the loop's place to the frequency and to the channels
claimed when it began. `MixLastsOnePeriodOnly` follows: a period that ends
between calls loads registers of which all are done.

*Arithmetic*, stated once. `CompareExact`: a compare value is within a tick of
the asked duty and at most one above the reload. `TimebaseFits`: a time base
that passes the checks of `timer_compute_timebase` fits its registers and has no
zero reload. `TimebaseBest`: the two truncating divisions together give the
finest prescaler the reload has room for and the least period that is not below
the one asked for, which is `TimebaseAlwaysBest`.

### `PartsProofs`

*Queue.* `RingInv`: the slots between tail and head are whole (`SlotsWhole`); a
producer in its copy has written a prefix of a slot outside them
(`ProducerInv`); a consumer in its copy reads the slot at tail and has a prefix
of it (`ConsumerInv`); and an overwriting producer has the ring to itself
(`EvictAsked`, `OneAtATime`). The slot kept free between tail and head is what
keeps the copies apart (`SidesAlwaysApart`). `RingIsBoundedFifo` is the
refinement: a step that moves an index is a `Put`, `Get`, `Evict` or `Clear` of
`BoundedFifo`, an answer FULL or EMPTY a `Refuse` or `Starve`, everything else a
stutter. The queue is computed from the slots, so the lemmas `StoredStays`,
`StoredTail` and `StoredAppend` say what each move of an index does to it.

*Parser.* `FrameInv` is `FrameTypeOK`, `AcceptedExactly`, `HostPlace` and
`FieldsFromLine`, which says for each state of the parser which of its fields
hold which of the bytes since the start byte. `AcceptedExactly` at the last byte
then follows from `SerializeIsBody`: the serialised fields are those bytes.
There is one lemma per state of the parser. Type correctness includes that the
payload is never indexed past its end, which needs the length check of an
earlier byte.

*Resynchronisation.* `LossIsBounded` counts lost copies, and no state of the
parser records them. `LossInv` finds them in one of three places. While a frame
begun by noise swallows copies (`Swallowed`), all the host has sent lies among
the bytes that frame has taken, so `lost` times the length of a copy is below
the length of the longest frame. When that frame ends, the parser is hunting for
a start byte in the middle of a copy (`Hunting`), and that copy is the last one
lost, as a frame of the host holds no inner start byte. From there on it is in
step (`InStep`), and `FrameInv` makes each further copy accepted. `FeedOutside`
and `LossStep` prove the three transitions, `FewerTimes` the division.

*Checksum.* The receiver's body ends where the LENGTH it got says. As long as
LENGTH is not damaged the two sides are at the same place of the frame
(`Together`: same field, same number of payload bytes left), and every byte is
one for which both run the checksum, or the low or the high byte of it
(`Moves`: `BodyMove`, `LowMove`, `HighMove`). Each statement about damage is
therefore one about frames in which LENGTH is not hit (`lengthHit`); of the others
nothing can be said but that they are accepted if what stands where the receiver
looks for the checksum is one.

One step is injective in the old value and in the byte
(`ByteStepInjective`, from `BitStepInjective`: the bit shifted out is the low bit
of the result, because the polynomial has a constant term). So the two sides'
sums agree before a hit, and differ from the one hit to the end (`NoHit`, `OneHit`):
`OneHitAlwaysCaught` and `UndamagedAlwaysAccepted`, for bodies of any length.
One step also keeps the parity of the bits (`BitStepParity`, because the
polynomial has an even number of terms, the x^16 included), so the parities of
the two sums, of the checksum's bytes and of the number of flips add up to an
even number all along (`ParityKept`): `OddFlipsAlwaysCaught`, however many bits
flip and however long the body.

*Division.* A word, a byte, a body and a frame are polynomials over GF(2): the
sets of their exponents. `Congruent(p, q)` says that their difference is a sum of
shifted divisors (`Times`). It is kept by addition and shifting, and two sets of
degree below 16 that are congruent are equal (`RemainderUnique`: a multiple of
the divisor other than zero has a term of degree 16 or more, `TimesIsLong`).
Shifting the word and adding the polynomial is multiplying by x
(`BitStepShifts`, `ByteStepShifts`), so one byte of the loop takes a word
congruent to the dividend of a body to one congruent to the dividend of the body
with that byte (`DividendAppend`, `SumStep`). On the other side no step of the
long division leaves the class of the dividend, and after the last one the
degree is below 16 (`CancelStep`, `RemainderCongruent`). `SumIsAlwaysRemainder`
follows, for bodies of any length. The recursion of `Remainder` and the number of
shifts are inductions over numbers, done by the least counterexample (`Least`,
`Induct`), which needs no operator as a parameter.

*Flips.* `ErrorKept` is the invariant: the error, that is the set of the flipped
positions counted from the frame's last bit, has `flips` elements, lies within
the frame, and is congruent to the difference of what the receiver computed and
what it received. A frame accepted therefore has an error congruent to zero. One
flip is no multiple of the divisor (`ShiftCancels`); two flips d apart are one
only if x^d is congruent to 1 (`TwoTerms`); three are excluded by parity. The
numbers d with x^d congruent to 1 (`Period`) are closed under differences
(`PeriodClosed`). The table of squarings `Power217`, `Power1057`, `Power4681`,
`Power32768` shows that 32767 = 7 * 31 * 151 is one of them and its quotients by
7, 31 and 151 are not. The least positive one divides 32767, or the remainder
would be a lesser one, and no proper divisor qualifies: it is 32767 (`Order`). In
a frame of no more bits no two positions are that far apart:
`ThreeFlipsAlwaysCaught`.

### `MainLoopProofs`

`IInv` bounds all a sent byte can be in before its command is answered: what
is on the wire, in the queue, in the parser and in the frame being answered is
at most `owed * FrameSize` (`Backlog`). `NothingEverLost` follows with the
hypothesis on the queue's size.

### `CommandLinkProofs`

`QuietExchangeIsOwn` is about a moment at which the answer has been read;
`OnlyOwnUnderWay` carries it there: in an exchange begun with nothing under way,
every request on the wire, every answer in the transmitter, on the wire or in
the host's input is of that exchange, through losses, damage, cut frames and
resets. Messages are in sequences, so the lemmas `SequenceKept` and `AgedKept`
say what removing, appending and ageing do to sequences of one kind.
`ResetIsAcked` and `ResetIsShiftedOut` carry the acknowledgement from the
dispatcher past the flush to the reset: `AckAlwaysOnWireBeforeReset`, and without
any hypothesis `ResetAlwaysAsked`.

### `UartDriverProofs`

`InitialisedIsWired` and `PinsNotShared` are about UARTs that are up; what makes
them inductive is what an initialisation under way has done by each of its
steps (`InitSoFar`: clock, pins, ring, interrupt, enable bits, in that order, and
pins no UART that is up uses), and that a deinitialisation under way is of a UART
still recorded as up (`DeinitCallOK`). `HandlerHasRing` must survive
initialisations that fail: it rests on `ReceiverHasRing`, and on `IrqHoldsPin`,
by which a UART whose interrupt a failed call left on can never come up again,
its pins being in use. `LinkIsTransports` relates the driver's table to the
transport's variable: `OneLinkAlwaysHeld`.

### `PlatformProofs`

*Boot.* Each variable is tied to the place of `pc` in the order of the boot:
`Powered` (boost and wait states before the PLL), `PllSet`, `Switching`,
`Believed` (what is recorded is real), `Up`. `Path` turns the order into the
successor of each step, so that each invariant has one case per step.

*Tick.* `Accounted` relates the elapsed time of a wait to counter, start and
phase across the wrap: exactly as many ticks as the modular difference says,
less the part of the first one that was over. `DelayAlwaysLasts` follows for
every modulus.

*Together.* A step of `Platform` is one of the boot or of the tick and leaves
the other's variables alone (`PlatformBoots`, `PlatformTicks`), so all of it
holds of the composition: `PlatformAlwaysSound`.

### Only model-checked

* `PendingIsServed`, `DutyReachesOutput`, `HostIsAnswered`, `LogIsWritten`,
  `LinkRecovers` and `BootEnds` are liveness properties under fairness; that an
  action is enabled, on which every such argument rests, is beyond the proof
  system. These six are all that the runs check and no theorem states.
That the claims of section 5 fail is shown by TLC's counterexamples.

## 5. Where the code and its documentation disagree

The first two have a run. The others are stated in the module named and
violated under the configuration named, when the property is put in place of
those the configuration lists, with the constants changed as noted.
"Protocol" is `mcu-co_Protocol.md`.

| Property | Where | Code | Documentation |
|---|---|---|---|
| `ArmedVectorEnabled` | run `gpio_vector` | `peripherals/gpio.c:355` disables the vector of the disarmed line, which lines 5-9 and 10-15 share: the other armed lines of the group are not served any more | Protocol 285: on an edge the ISR drives the output |
| `ClaimedPinIsKept` | run `firmware_owner` | `src/gpio_controller.c:323` takes any pin that is not reserved, a claimed PWM pin included | Protocol 452: a claim "takes ownership so no other driver can use it" |
| `OnlyServedLineAcknowledged` | `GpioController`, `Gpio.cfg` | `peripherals/gpio.c:546`, `EXTI->PR1 \|= bit` clears every pending bit: an edge on another line is lost | Protocol 285 |
| `StrangerMayNotDisarm` | `GpioController`, `Gpio.cfg` | `peripherals/gpio.c:346` disarms a line whoever owns it | Protocol 260: one port owns a line; 268: off clears bindings *on that pin* |
| `ConflictAnswersBusy` | `GpioController`, `Gpio.cfg` | `src/gpio_controller.c:136` answers `ERR` for a line another port owns | Protocol 588 shows `ERR_BUSY` |
| `ReleasedChannelCanBeReclaimed` | `PwmController`, `Pwm.cfg` | `peripherals/timer.c:441` takes the input mode a release leaves for a pin in use: a released channel cannot be claimed again before a reset | Protocol 403: the channels "must then be re-claimed" |
| `OtherNackMeansOff` | `PwmController`, `Pwm.cfg` with `WireFreq = {1, 2, 6, 13}` | `peripherals/timer.c:196` checks the range before it checks whether the group runs: such a refusal leaves the group running | Protocol 405: every NACK but `ERR_BUSY` means off |
| `HandlerDriveSticks` | `GpioPreempt`, `GpioPreempt.cfg` | `peripherals/gpio.c:243` writes the port back from before a handler drove another pin of it | Protocol 285 |
| `DrivesBoundOutput` | `GpioPreempt`, `GpioPreempt.cfg` | `src/gpio_controller.c:229`, a binding half stored or half cleared drives PA0 or the old output | Protocol 285 |
| `ActsOnBoundEdge` | `GpioPreempt`, `GpioPreempt.cfg` | `src/gpio_controller.c:142`, a re-arm programs the new edge while the old binding is still in the table | `src/gpio_controller.c:205`: "binding any edge but the armed one would misfire" |
| `RetuneIsOneEvent` | `TimerRetune`, `TimerRetune.cfg` | `peripherals/timer.c:385`, a period that ends between two writes of a retune takes some of them | `peripherals/timer.c:400`: "on one update event" |
| `ReadsWholeElements` | `RingBuffer`, `Parts.cfg` with `Guarded = FALSE` | `data_structures/ring-buffer.c:66`, an overwriting producer in an interrupt hands the reader an element half old, half new | `data_structures/ring-buffer.h:13`: "Safe for single-producer/single-consumer use" |
| `LinkRecovers` without `<>[]NoInnerStart` | `CommandLink`, `CommandLink.cfg` | `src/frame_parser.c:21` restarts at any start byte it meets while it hunts, and `build_command` escapes none. A host that repeats a GROUP_CFG with the frequency bytes `A5 01 03 00` after its parser was thrown out of step may never be heard: the bogus frame that begins at the inner start byte takes the start byte and opcode of the next copy for its checksum, and the parser hunts on to that copy's inner start byte | Protocol 578: the MCU "resyncs on the next SOF"; 26: the SOF is the "Resync anchor" |
| `EventuallyInStep` | `CommandLink`, `CommandLink.cfg` | `tools/mcu-co-cli/mcuco/link.py:102`, after a time-out with the answer still under way each command can take its predecessor's answer, for ever | Protocol 82: "the host always knows which command a response answers" |
| `AckOnWireBeforeReset` | `CommandLink`, `CommandLink.cfg` with `TxTimesOut = TRUE` | `src/main.c:134` drops the result of the flush: a wait that runs out is followed by the reset | Protocol 178: the ACK is "guaranteed to be fully on the wire" |
| `DeinitReleasesPins` | `UartDriver`, `UartDriver.cfg` | `peripherals/uart.c:354` leaves the pins inputs, which `uart_init` takes for pins in use | `peripherals/uart.h:105`: "releases the peripheral, its clock, its pins" |
| `DeinitLetsByteOut` | `UartDriver`, `UartDriver.cfg` | `peripherals/uart.c:344` gives up its wait for the transmitter and cuts the byte off | `peripherals/uart.h:105`: "Blocks until any in-progress transmission completes" |
| `DelayIsMinimum` | `SysTick`, `Platform.cfg` | `peripherals/systick.c:47` counts a first tick that may be almost over | `peripherals/systick.h:29`: "at least @p ms milliseconds" |

What no command reaches today: `timer_set_frequency`, `delay_ms`, an
overwriting write (the UART and the logger both refuse on a full ring),
`uart_deinit`. Their models describe the drivers as they offer themselves.

Because a released channel cannot be claimed again, a channel of the PWM model
is claimed once per history until reset; claims after releases reach the check
that refuses them. The theorems use no fact about how often a channel was
claimed.

## 6. Plan

Done, in this order: GPIO interrupts and PWM with their proofs; the byte path
(ring buffer, parser, checksum) with its proofs; the link and the main loop;
preemption inside commands and retunes; UARTs, boot and tick; the compositions
`Firmware` and `Platform`; the proofs of those, of resynchronisation and of
parity; PWM with GPIO commands in between; the checksum as a polynomial remainder
and the order of its polynomial. Every safety property of a passing run is now
stated by a theorem.

What would come next: that `GpioPreempt` implements `IrqLines` between commands,
for all commands but the toggle, which section 5 shows to lose a handler's drive;
that any damage within sixteen consecutive bits is noticed; `CommandLink` with a
sequence number in responses as a candidate protocol under which
`EventuallyInStep` holds.

## 7. Not modelled

* **The receiver's overrun flag.** `peripherals/uart.c:204-208` clears it and goes
  on. In `MainLoop` and `UartDriver` the handler takes every byte before the next
  one is in; a byte the hardware overruns is lost before it gets to the queue,
  and `NothingLost` says nothing of it.
* **Damage the checksum cannot see.** A damaged LENGTH makes the receiver look for
  the checksum among other bytes, and a damaged start byte makes it hunt; either
  may end in a frame that checks by chance, one time in 65536 if bytes were
  random. `CrcLink` shows the former (section 3), states no bound on it, and
  begins after the start byte.
* **Data without control.** Output type, speed, pull and AF number of a pin,
  PWM polarity, baud rate and frame format, the values in responses, log lines
  and their formatting, status names.
* **Clock gates** of ports and timers; the reset value of MODER is taken to be
  read from a port that has not been clocked yet, on which the boot sequence
  itself relies. The clock source selection has one value.
* **Guards against programming errors**: null pointers and instances out of
  range, which the callers in the firmware never pass.
* **Code without a caller**: `uart_read_buffer`.
* **Start-up code and vendor headers**: what they leave behind is the initial
  state of `Boot`.
* **Host tool**: argument parsing and the client's convenience calls.
* **Build and tests**: read as statements of intent.
