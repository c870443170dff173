----------------------------- MODULE UartDriver -----------------------------
(***************************************************************************)
(* The UART driver (peripherals/uart.c) and the single link the command    *)
(* transport (src/command_transport.c) keeps on it.  uart_init and         *)
(* uart_deinit are cut where the hardware or an interrupt can come in      *)
(* between: claim the pins, arm the receiver, enable, poll for each        *)
(* acknowledge.  Baud rate and frame format are data and left out, and so  *)
(* are the refusals of a null pointer or an instance out of range.         *)
(***************************************************************************)
EXTENDS GpioPins

CONSTANTS Uart,
          UartPins,      \* uart_pins: the tx and the rx pin of each
          RxSize,        \* of a receive ring, one slot of it unused
          ReadyTimeout   \* UART_READY_TIMEOUT, in polls

UartMode == {"TX", "RX", "TX_RX"}
HasTx(mode) == mode \in {"TX", "TX_RX"}
HasRx(mode) == mode \in {"RX", "TX_RX"}

NoUart == "NONE"

ASSUME UartAssumption ==
  /\ NoUart \notin Uart
  /\ UartPins \in [Uart -> [tx : Pin \ BootAf, rx : Pin \ BootAf]]
  /\ RxSize \in Nat \ {0, 1} /\ ReadyTimeout \in Nat

VARIABLES reg,               \* the registers of each UART, and its NVIC line
          rx_buffers,        \* bytes in each receive ring
          uart_initialized, uart_modes,
          transport,         \* the instance the transport holds, or NoUart
          call,              \* the init or deinit under way
          sending            \* UARTs with a byte in the transmitter

uartVars == <<moder, reg, rx_buffers, uart_initialized, uart_modes, transport, sending>>
vars == <<uartVars, odr, call>>

NoCall == [pc |-> "NONE"]
NoRing == -1

Off == [clocked |-> FALSE, ue |-> FALSE, te |-> FALSE, re |-> FALSE, irq |-> FALSE]

TypeOK ==
  /\ PinsTypeOK
  /\ reg \in [Uart -> [clocked : BOOLEAN, ue : BOOLEAN, te : BOOLEAN, re : BOOLEAN, irq : BOOLEAN]]
  /\ rx_buffers \in [Uart -> NoRing .. RxSize - 1]
  /\ uart_initialized \in [Uart -> BOOLEAN] /\ uart_modes \in [Uart -> UartMode]
  /\ transport \in Uart \cup {NoUart}
  /\ call \in {NoCall} \cup
       [pc : {"ARM", "ENABLE", "TEACK", "REACK", "TC", "RELEASE"}, uart : Uart, mode : UartMode,
        ring : BOOLEAN, by : {"TRANSPORT", "USER"}, retries : 0 .. ReadyTimeout]
  /\ sending \in SUBSET Uart

Init ==
  /\ PinsInit
  /\ reg = [u \in Uart |-> Off] /\ rx_buffers = [u \in Uart |-> NoRing]
  /\ uart_initialized = [u \in Uart |-> FALSE] /\ uart_modes = [u \in Uart |-> "TX"]
  /\ transport = NoUart /\ call = NoCall /\ sending = {}
-----------------------------------------------------------------------------
InUse(p) == IsPinAnInput(p) \/ IsPinAnOutput(p) \/ IsPinAnAf(p)

IsGpioPinBeingUsedForTx(u) == InUse(UartPins[u].tx)
IsGpioPinBeingUsed(u) == InUse(UartPins[u].rx) \/ InUse(UartPins[u].tx)

PinsOf(u, mode) ==
  (IF HasTx(mode) THEN {UartPins[u].tx} ELSE {}) \cup (IF HasRx(mode) THEN {UartPins[u].rx} ELSE {})

InitStatusPinsUnseen(u) == IF uart_initialized[u] THEN "BUSY" ELSE "OK"
InitStatus(u) ==
  IF uart_initialized[u] THEN "BUSY" ELSE IF IsGpioPinBeingUsed(u) THEN "BUSY" ELSE "OK"

(* uart_init: checks, clock, UE off, pins.  ring: the caller's buffer is   *)
(* one a ring can be made of.                                              *)
UartInit(u, mode, ring, by) ==
  /\ call = NoCall
  /\ InitStatus(u) = "OK"
  /\ call' = [pc |-> "ARM", uart |-> u, mode |-> mode, ring |-> ring, by |-> by, retries |-> ReadyTimeout]
  /\ reg' = [reg EXCEPT ![u] = [@ EXCEPT !.clocked = TRUE, !.ue = FALSE]]
  /\ moder' = [p \in Pin |-> IF p \in PinsOf(u, mode) THEN "AF" ELSE moder[p]]
  /\ UNCHANGED <<odr, rx_buffers, uart_initialized, uart_modes, transport, sending>>

(* The receiver's ring and interrupt.  A bad buffer ends the call here,    *)
(* with the clock on and the pins taken.                                   *)
ArmUnchecked(u, mode) ==
  /\ call' = [call EXCEPT !.pc = "ENABLE"]
  /\ reg' = [reg EXCEPT ![u].irq = reg[u].irq \/ HasRx(mode)]
  /\ rx_buffers' = IF HasRx(mode) /\ call.ring THEN [rx_buffers EXCEPT ![u] = 0] ELSE rx_buffers
Arm(u, mode) ==
  IF HasRx(mode) /\ ~ call.ring
  THEN call' = NoCall /\ UNCHANGED <<reg, rx_buffers>>
  ELSE /\ call' = [call EXCEPT !.pc = "ENABLE"]
       /\ reg' = [reg EXCEPT ![u].irq = reg[u].irq \/ HasRx(mode)]
       /\ rx_buffers' = IF HasRx(mode) THEN [rx_buffers EXCEPT ![u] = 0] ELSE rx_buffers

UartArm ==
  /\ call.pc = "ARM"
  /\ Arm(call.uart, call.mode)
  /\ UNCHANGED <<odr, moder, uart_initialized, uart_modes, transport, sending>>

(* UE, then TE and RE.                                                     *)
UartEnable ==
  /\ call.pc = "ENABLE"
  /\ reg' = [reg EXCEPT ![call.uart] = [@ EXCEPT !.ue = TRUE, !.te = HasTx(call.mode),
                                                !.re = HasRx(call.mode)]]
  /\ call' = [call EXCEPT !.pc = IF HasTx(call.mode) THEN "TEACK" ELSE "REACK"]
  /\ UNCHANGED <<odr, moder, rx_buffers, uart_initialized, uart_modes, transport, sending>>

(* wait_for_ack: one more look at a flag that is not up.                   *)
Retry ==
  /\ call.retries > 0
  /\ call' = [call EXCEPT !.retries = @ - 1]
  /\ UNCHANGED <<odr, uartVars>>

WaitAgain ==
  /\ call.pc \in {"TEACK", "REACK"} \/ (call.pc = "TC" /\ call.uart \in sending)
  /\ Retry

(* The acknowledge is there, after any number of polls ...                 *)
UartReady ==
  /\ call.pc \in {"TEACK", "REACK"}
  /\ IF call.pc = "TEACK" /\ HasRx(call.mode)
     THEN /\ call' = [call EXCEPT !.pc = "REACK", !.retries = ReadyTimeout]
          /\ UNCHANGED <<uart_initialized, uart_modes, transport>>
     ELSE /\ call' = NoCall
          /\ uart_initialized' = [uart_initialized EXCEPT ![call.uart] = TRUE]
          /\ uart_modes' = [uart_modes EXCEPT ![call.uart] = call.mode]
          /\ transport' = IF call.by = "TRANSPORT" THEN call.uart ELSE transport
  /\ UNCHANGED <<odr, moder, reg, rx_buffers, sending>>

(* ... or not in time: STATUS_ERR_TIMEOUT, with everything left as it is.  *)
UartNotReady ==
  /\ call.pc \in {"TEACK", "REACK"} /\ call.retries = 0
  /\ call' = NoCall
  /\ UNCHANGED <<odr, uartVars>>

(* uart_deinit: receive interrupt off, then wait for TC.                   *)
UartDeinit(u, by) ==
  /\ call = NoCall /\ uart_initialized[u]
  /\ call' = [pc |-> "TC", uart |-> u, mode |-> uart_modes[u], ring |-> TRUE, by |-> by,
              retries |-> ReadyTimeout]
  /\ reg' = [reg EXCEPT ![u].irq = reg[u].irq /\ ~ HasRx(uart_modes[u])]
  /\ UNCHANGED <<odr, moder, rx_buffers, uart_initialized, uart_modes, transport, sending>>

(* The result of the wait is dropped.  What was being sent is cut off.     *)
Shutdown(u) == reg' = [reg EXCEPT ![u] = [@ EXCEPT !.ue = FALSE, !.te = FALSE, !.re = FALSE, !.clocked = FALSE]]

UartShutdown ==
  /\ call.pc = "TC"
  /\ call.uart \notin sending \/ call.retries = 0
  /\ Shutdown(call.uart)
  /\ sending' = sending \ {call.uart}
  /\ call' = [call EXCEPT !.pc = "RELEASE"]
  /\ UNCHANGED <<odr, moder, rx_buffers, uart_initialized, uart_modes, transport>>

UartRelease ==
  /\ call.pc = "RELEASE"
  /\ GpioDeinit(PinsOf(call.uart, call.mode))
  /\ uart_initialized' = [uart_initialized EXCEPT ![call.uart] = FALSE]
  /\ transport' = IF call.by = "TRANSPORT" THEN NoUart ELSE transport
  /\ call' = NoCall
  /\ UNCHANGED <<odr, reg, rx_buffers, uart_modes, sending>>
-----------------------------------------------------------------------------
(* command_transport_init and _deinit.                                     *)
TransportFreeAnyway == TRUE
TransportFree == transport = NoUart

TransportInit(u) == TransportFree /\ UartInit(u, "TX_RX", TRUE, "TRANSPORT")
TransportDeinit == transport # NoUart /\ UartDeinit(transport, "TRANSPORT")

(* Another user of the driver (the logger is one, on a UART of its own)    *)
(* sends or receives, and leaves the transport's UART alone.               *)
UserInit(u, mode, ring) == mode # "TX_RX" /\ UartInit(u, mode, ring, "USER")
UserDeinit(u) == u # transport /\ UartDeinit(u, "USER")

WriteByte(u) ==
  /\ call = NoCall /\ uart_initialized[u] /\ HasTx(uart_modes[u])
  /\ sending' = sending \cup {u}
  /\ UNCHANGED <<odr, moder, reg, rx_buffers, uart_initialized, uart_modes, transport, call>>

ReadByte(u) ==
  /\ call = NoCall /\ uart_initialized[u] /\ HasRx(uart_modes[u])
  /\ rx_buffers[u] > 0
  /\ rx_buffers' = [rx_buffers EXCEPT ![u] = @ - 1]
  /\ UNCHANGED <<odr, moder, reg, uart_initialized, uart_modes, transport, call, sending>>

(* A byte has come: RXNE, and the handler at once.  It goes into the ring  *)
(* or, if there is no room, nowhere; a ring never made has none.  (An      *)
(* overrun of the receive register is left out.)                           *)
Room(u) == rx_buffers[u] \in 0 .. RxSize - 2

Handled(u) == reg[u].clocked /\ reg[u].ue /\ reg[u].re /\ reg[u].irq

uart_irq_handler(u) ==
  /\ Handled(u)
  /\ Room(u)
  /\ rx_buffers' = [rx_buffers EXCEPT ![u] = @ + 1]
  /\ UNCHANGED <<odr, moder, reg, uart_initialized, uart_modes, transport, call, sending>>

ShiftOut(u) ==
  /\ u \in sending /\ reg[u].te
  /\ sending' = sending \ {u}
  /\ UNCHANGED <<odr, moder, reg, rx_buffers, uart_initialized, uart_modes, transport, call>>

CallStep ==
  UartArm \/ UartEnable \/ WaitAgain \/ UartReady \/ UartNotReady \/ UartShutdown \/ UartRelease

Next ==
  \/ CallStep \/ TransportDeinit
  \/ \E u \in Uart :
       \/ TransportInit(u) \/ UserDeinit(u)
       \/ \E mode \in UartMode, ring \in BOOLEAN : UserInit(u, mode, ring)
       \/ WriteByte(u) \/ ReadByte(u) \/ uart_irq_handler(u) \/ ShiftOut(u)

(* A call runs on whatever the hardware does: the flags owe it nothing.    *)
Spec == Init /\ [][Next]_vars
-----------------------------------------------------------------------------
Busy(u) == call # NoCall /\ call.uart = u

(* An initialised UART at rest is wired through: clocked, enabled for its  *)
(* mode, its pins handed to it, its receiver's ring made and interrupt on. *)
InitialisedIsWired ==
  \A u \in Uart : uart_initialized[u] /\ ~ Busy(u) =>
    LET mode == uart_modes[u] IN
    /\ reg[u] = [clocked |-> TRUE, ue |-> TRUE, te |-> HasTx(mode), re |-> HasRx(mode), irq |-> HasRx(mode)]
    /\ \A p \in PinsOf(u, mode) : IsPinAnAf(p)
    /\ HasRx(mode) => rx_buffers[u] # NoRing

(* The handler never runs without a ring to put the byte in, not even      *)
(* after a failed uart_init.                                               *)
HandlerHasRing == \A u \in Uart : Handled(u) => rx_buffers[u] # NoRing

(* USART2 and LPUART1 have their pins in common: never both drive or read. *)
PinsNotShared ==
  \A u, v \in Uart : uart_initialized[u] /\ uart_initialized[v] /\ u # v =>
    PinsOf(u, uart_modes[u]) \cap PinsOf(v, uart_modes[v]) = {}

(* command_transport.c 18: no second link orphans the first.  Between      *)
(* calls, the two-way UARTs that are up are exactly the transport's.       *)
OneLinkHeld ==
  call = NoCall =>
    \A u \in Uart : (uart_initialized[u] /\ uart_modes[u] = "TX_RX") <=> transport = u
-----------------------------------------------------------------------------
(* uart.h 105: uart_deinit "releases the peripheral, its clock, its pins   *)
(* and its interrupt".  A UART whose pins nobody holds could then be       *)
(* initialised again; the pins come back as inputs, which count as in use. *)
DeinitReleasesPins == \A p \in Pin : IsPinAnInput(p) => call # NoCall

(* uart.h 105: uart_deinit "Blocks until any in-progress transmission      *)
(* completes".  The wait is bounded and its result dropped.                *)
DeinitLetsByteOut == [][\A u \in sending \ sending' : reg'[u].te]_vars
=============================================================================
