-------------------------- MODULE UartDriverProofs --------------------------
(***************************************************************************)
(* What holds of the UARTs between and during uart_init and uart_deinit,   *)
(* for any set of UARTs, any sharing of pins among them, any ring size and *)
(* any number of polls.                                                    *)
(***************************************************************************)
EXTENDS UartDriver, TLAPS

Initialising == call.pc \in {"ARM", "ENABLE", "TEACK", "REACK"}
Deinitialising == call.pc \in {"TC", "RELEASE"}

Claimed(u) == PinsOf(u, uart_modes[u])

HasItsPins(u, mode) == \A p \in PinsOf(u, mode) : IsPinAnAf(p)
HasItsRing(u, mode) == HasRx(mode) => rx_buffers[u] # NoRing

(* What an initialisation has done so far, by the step it is at.           *)
InitSoFar(u, mode) ==
  /\ ~ uart_initialized[u]
  /\ reg[u].clocked
  /\ reg[u].irq = (call.pc # "ARM" /\ HasRx(mode))
  /\ call.pc # "ARM" => HasItsRing(u, mode)
  /\ call.pc \in {"TEACK", "REACK"} => reg[u].ue /\ reg[u].te = HasTx(mode) /\ reg[u].re = HasRx(mode)
  /\ HasItsPins(u, mode)
  /\ \A v \in Uart : uart_initialized[v] => PinsOf(u, mode) \cap Claimed(v) = {}
  /\ IF call.by = "TRANSPORT" THEN transport = NoUart /\ mode = "TX_RX" ELSE mode # "TX_RX"

InitCallOK == Initialising => InitSoFar(call.uart, call.mode)

DeinitCallOK ==
  Deinitialising =>
    /\ uart_initialized[call.uart] /\ call.mode = uart_modes[call.uart]
    /\ call.by = "TRANSPORT" <=> call.uart = transport

(* Pins are never given back to analog, so a UART that has ever listened   *)
(* is not initialised again.                                               *)
IrqHoldsPin == \A u \in Uart : reg[u].irq => InUse(UartPins[u].rx)

ReceiverHasRing == \A u \in Uart : reg[u].re => rx_buffers[u] # NoRing

LinkIsTransports == \A u \in Uart : (uart_initialized[u] /\ uart_modes[u] = "TX_RX") <=> transport = u

IInv ==
  /\ TypeOK
  /\ InitCallOK /\ DeinitCallOK
  /\ InitialisedIsWired /\ IrqHoldsPin /\ ReceiverHasRing
  /\ PinsNotShared /\ LinkIsTransports

LEMMA InitIInv == Init => IInv
<1> SUFFICES ASSUME Init PROVE IInv
  OBVIOUS
<1>1. TypeOK
  <2>1. PinsTypeOK
    BY DEF Init, PinsInit, PinsTypeOK, Mode
  <2>2. reg \in [Uart -> [clocked : BOOLEAN, ue : BOOLEAN, te : BOOLEAN, re : BOOLEAN, irq : BOOLEAN]]
    BY DEF Init, Off
  <2>3. rx_buffers \in [Uart -> NoRing .. RxSize - 1]
    BY UartAssumption DEF Init, NoRing
  <2> QED
    BY <2>1, <2>2, <2>3 DEF Init, TypeOK, UartMode
<1>2. ~ Initialising /\ ~ Deinitialising
  BY DEF Init, NoCall, Initialising, Deinitialising
<1> QED
  BY <1>1, <1>2, UartAssumption DEF Init, Off, IInv, InitCallOK, DeinitCallOK, InitialisedIsWired, IrqHoldsPin,
     ReceiverHasRing, PinsNotShared, LinkIsTransports

(* What every step keeps, one part of the invariant after another.         *)
Register == [clocked : BOOLEAN, ue : BOOLEAN, te : BOOLEAN, re : BOOLEAN, irq : BOOLEAN]

LEMMA ClaimedPins ==
  ASSUME NEW u \in Uart, NEW mode \in UartMode
  PROVE  /\ PinsOf(u, mode) \subseteq Pin
         /\ UartPins[u].rx \in Pin /\ UartPins[u].tx \in Pin
         /\ HasRx(mode) => UartPins[u].rx \in PinsOf(u, mode)
         /\ PinsOf(u, mode) \subseteq {UartPins[u].rx, UartPins[u].tx}
  BY UartAssumption DEF PinsOf

(* What the calls write to the registers.                                  *)
LEMMA InitWrites ==
  ASSUME reg \in [Uart -> Register], NEW u \in Uart,
         reg' = [reg EXCEPT ![u] = [@ EXCEPT !.clocked = TRUE, !.ue = FALSE]]
  PROVE  /\ reg' \in [Uart -> Register]
         /\ \A v \in Uart \ {u} : reg'[v] = reg[v]
         /\ reg'[u].clocked /\ reg'[u].irq = reg[u].irq /\ reg'[u].re = reg[u].re
  BY DEF Register

LEMMA EnableWrites ==
  ASSUME reg \in [Uart -> Register], NEW u \in Uart, NEW tx \in BOOLEAN, NEW rx \in BOOLEAN,
         reg' = [reg EXCEPT ![u] = [@ EXCEPT !.ue = TRUE, !.te = tx, !.re = rx]]
  PROVE  /\ reg' \in [Uart -> Register]
         /\ \A v \in Uart \ {u} : reg'[v] = reg[v]
         /\ reg'[u] = [clocked |-> reg[u].clocked, ue |-> TRUE, te |-> tx, re |-> rx, irq |-> reg[u].irq]
  BY DEF Register

LEMMA IrqWrites ==
  ASSUME reg \in [Uart -> Register], NEW u \in Uart, NEW on \in BOOLEAN, reg' = [reg EXCEPT ![u].irq = on]
  PROVE  /\ reg' \in [Uart -> Register]
         /\ \A v \in Uart \ {u} : reg'[v] = reg[v]
         /\ reg'[u] = [clocked |-> reg[u].clocked, ue |-> reg[u].ue, te |-> reg[u].te, re |-> reg[u].re, irq |-> on]
  BY DEF Register

LEMMA ShutdownWrites ==
  ASSUME reg \in [Uart -> Register], NEW u \in Uart, Shutdown(u)
  PROVE  /\ reg' \in [Uart -> Register]
         /\ \A v \in Uart \ {u} : reg'[v] = reg[v]
         /\ reg'[u].irq = reg[u].irq /\ ~ reg'[u].re
  BY DEF Register, Shutdown

Call == [pc : {"ARM", "ENABLE", "TEACK", "REACK", "TC", "RELEASE"}, uart : Uart, mode : UartMode,
         ring : BOOLEAN, by : {"TRANSPORT", "USER"}, retries : 0 .. ReadyTimeout]

LEMMA BusyIsTyped ==
  ASSUME TypeOK, call # NoCall
  PROVE  call \in Call /\ call.uart \in Uart /\ call.mode \in UartMode
  BY DEF TypeOK, Call

LEMMA Directions ==
  ASSUME NEW mode
  PROVE  HasRx(mode) \in BOOLEAN /\ HasTx(mode) \in BOOLEAN
  BY DEF HasRx, HasTx

LEMMA InitType ==
  ASSUME TypeOK, NEW u \in Uart, NEW mode \in UartMode, NEW ring \in BOOLEAN, NEW by \in {"TRANSPORT", "USER"},
         UartInit(u, mode, ring, by)
  PROVE  TypeOK'
<1>1. moder' \in [Pin -> Mode]
  BY DEF TypeOK, PinsTypeOK, UartInit, Mode
<1>2. reg' \in [Uart -> Register]
  BY InitWrites DEF TypeOK, UartInit, Register
<1>3. call' \in Call
  BY UartAssumption DEF UartInit, Call
<1> QED
  BY <1>1, <1>2, <1>3 DEF TypeOK, PinsTypeOK, UartInit, Register, Call

LEMMA DeinitType ==
  ASSUME TypeOK, NEW u \in Uart, NEW by \in {"TRANSPORT", "USER"}, UartDeinit(u, by)
  PROVE  TypeOK'
<1>1. reg' \in [Uart -> Register]
  BY IrqWrites, Directions DEF TypeOK, UartDeinit, Register
<1>2. call' \in Call
  BY UartAssumption DEF TypeOK, UartDeinit, Call
<1> QED
  BY <1>1, <1>2 DEF TypeOK, PinsTypeOK, UartDeinit, Register, Call

LEMMA CallStepType == TypeOK /\ CallStep => TypeOK'
<1> SUFFICES ASSUME TypeOK, CallStep PROVE TypeOK'
  OBVIOUS
<1>1. /\ call # NoCall /\ call \in Call
      /\ call.uart \in Uart /\ call.mode \in UartMode /\ call.by \in {"TRANSPORT", "USER"}
      /\ call.retries \in 0 .. ReadyTimeout
  BY BusyIsTyped DEF CallStep, UartArm, UartEnable, WaitAgain, UartReady, UartNotReady, UartShutdown,
     UartRelease, NoCall, Call
<1>2. /\ HasRx(call.mode) \in BOOLEAN /\ HasTx(call.mode) \in BOOLEAN /\ reg \in [Uart -> Register]
      /\ 0 \in NoRing .. RxSize - 1 /\ ReadyTimeout \in Nat
  BY UartAssumption, Directions DEF NoRing, TypeOK, Register
<1>3. CASE UartArm
  <2>1. call' \in Call \cup {NoCall}
    BY <1>1, <1>3 DEF UartArm, Arm, Call
  <2>2. reg' \in [Uart -> Register]
    BY <1>1, <1>2, <1>3, IrqWrites DEF UartArm, Arm, Register
  <2>3. rx_buffers' \in [Uart -> NoRing .. RxSize - 1]
    BY <1>1, <1>2, <1>3 DEF UartArm, Arm, TypeOK
  <2> QED
    BY <1>3, <2>1, <2>2, <2>3 DEF UartArm, TypeOK, PinsTypeOK, Register, Call
<1>4. CASE UartEnable
  <2>1. call' \in Call
    BY <1>1, <1>4 DEF UartEnable, Call
  <2>2. reg' \in [Uart -> Register]
    BY <1>1, <1>2, <1>4, EnableWrites DEF UartEnable
  <2> QED
    BY <1>4, <2>1, <2>2 DEF UartEnable, TypeOK, PinsTypeOK, Register, Call
<1>5. CASE WaitAgain
  <2>1. call' \in Call
    BY <1>1, <1>2, <1>5 DEF WaitAgain, Retry, Call
  <2> QED
    BY <1>5, <2>1 DEF WaitAgain, Retry, uartVars, TypeOK, PinsTypeOK, Call
<1>6. CASE UartReady
  <2>1. call' \in Call \cup {NoCall}
    <3>1. CASE call.pc = "TEACK" /\ HasRx(call.mode)
      <4>1. call' = [call EXCEPT !.pc = "REACK", !.retries = ReadyTimeout]
        BY <1>6, <3>1 DEF UartReady
      <4>2. ReadyTimeout \in 0 .. ReadyTimeout
        BY <1>2
      <4> QED
        BY <1>1, <4>1, <4>2 DEF Call
    <3> QED
      BY <1>6, <3>1 DEF UartReady
  <2>2. /\ uart_initialized' \in [Uart -> BOOLEAN] /\ uart_modes' \in [Uart -> UartMode]
        /\ transport' \in Uart \cup {NoUart}
    BY <1>1, <1>6 DEF UartReady, TypeOK
  <2> QED
    BY <1>6, <2>1, <2>2 DEF UartReady, TypeOK, PinsTypeOK, Call
<1>7. CASE UartNotReady
  BY <1>7 DEF UartNotReady, uartVars, TypeOK, PinsTypeOK
<1>8. CASE UartShutdown
  <2>1. call' \in Call
    BY <1>1, <1>8 DEF UartShutdown, Call
  <2>2. reg' \in [Uart -> Register]
    BY <1>1, <1>2, <1>8, ShutdownWrites DEF UartShutdown
  <2> QED
    BY <1>8, <2>1, <2>2 DEF UartShutdown, TypeOK, PinsTypeOK, Register, Call
<1>9. CASE UartRelease
  <2>1. moder' \in [Pin -> Mode]
    BY <1>9 DEF UartRelease, GpioDeinit, TypeOK, PinsTypeOK, Mode
  <2> QED
    BY <1>1, <1>9, <2>1 DEF UartRelease, TypeOK, PinsTypeOK, Call
<1> QED
  BY <1>3, <1>4, <1>5, <1>6, <1>7, <1>8, <1>9 DEF CallStep

LEMMA OtherType ==
  ASSUME TypeOK, NEW u \in Uart, WriteByte(u) \/ ReadByte(u) \/ uart_irq_handler(u) \/ ShiftOut(u)
  PROVE  TypeOK' /\ \A v \in Uart : rx_buffers[v] # NoRing => rx_buffers'[v] # NoRing
<1>1. CASE WriteByte(u)
  BY <1>1 DEF WriteByte, TypeOK, PinsTypeOK
<1>2. CASE ReadByte(u)
  <2>1. RxSize \in Nat /\ rx_buffers \in [Uart -> NoRing .. RxSize - 1]
    BY UartAssumption DEF TypeOK
  <2>2. /\ rx_buffers' \in [Uart -> NoRing .. RxSize - 1]
        /\ \A v \in Uart : rx_buffers[v] # NoRing => rx_buffers'[v] # NoRing
    BY <1>2, <2>1 DEF ReadByte, NoRing
  <2> QED
    BY <1>2, <2>2 DEF ReadByte, TypeOK, PinsTypeOK
<1>3. CASE uart_irq_handler(u)
  <2>1. RxSize \in Nat /\ rx_buffers \in [Uart -> NoRing .. RxSize - 1]
    BY UartAssumption DEF TypeOK
  <2>2. /\ rx_buffers' \in [Uart -> NoRing .. RxSize - 1]
        /\ \A v \in Uart : rx_buffers[v] # NoRing => rx_buffers'[v] # NoRing
    BY <1>3, <2>1 DEF uart_irq_handler, Room, NoRing
  <2> QED
    BY <1>3, <2>2 DEF uart_irq_handler, TypeOK, PinsTypeOK
<1>4. CASE ShiftOut(u)
  BY <1>4 DEF ShiftOut, TypeOK, PinsTypeOK
<1> QED
  BY <1>1, <1>2, <1>3, <1>4

(* The same call as far as it has changed anything: one wait more or less. *)
Same(c, d) ==
  \/ c = d
  \/ /\ c # NoCall /\ d # NoCall
     /\ c.uart = d.uart /\ c.mode = d.mode /\ c.by = d.by
     /\ c.pc = d.pc \/ {c.pc, d.pc} = {"TEACK", "REACK"}

(* A step that changes neither registers, pins nor what the driver knows.  *)
LEMMA DataKeeps ==
  ASSUME IInv, TypeOK', UNCHANGED <<moder, reg, uart_initialized, uart_modes, transport>>,
         Same(call', call),
         \A v \in Uart : rx_buffers[v] # NoRing => rx_buffers'[v] # NoRing
  PROVE  IInv'
<1>1. \A u \in Uart : Busy(u)' <=> Busy(u)
  BY DEF IInv, Same, Busy
<1>2. InitialisedIsWired'
  BY <1>1 DEF IInv, InitialisedIsWired, IsPinAnAf, PinsOf
<1>3. IrqHoldsPin' /\ ReceiverHasRing' /\ PinsNotShared' /\ LinkIsTransports'
  BY DEF IInv, IrqHoldsPin, ReceiverHasRing, PinsNotShared, LinkIsTransports, InUse, IsPinAnInput,
     IsPinAnOutput, IsPinAnAf
<1>4. InitCallOK'
  <2> SUFFICES ASSUME Initialising' PROVE InitSoFar(call.uart, call.mode)'
    BY DEF InitCallOK
  <2>1. /\ call'.uart = call.uart /\ call'.mode = call.mode /\ call'.by = call.by
        /\ call'.pc = call.pc \/ (call'.pc \in {"TEACK", "REACK"} /\ call.pc \in {"TEACK", "REACK"})
        /\ Initialising /\ call # NoCall
    BY DEF Initialising, Same, NoCall
  <2>2. InitSoFar(call.uart, call.mode) /\ call.uart \in Uart
    BY <2>1, BusyIsTyped DEF InitCallOK, IInv
  <2> QED
    BY <2>1, <2>2 DEF InitSoFar, HasItsRing, HasItsPins, Claimed, IsPinAnAf
<1>5. DeinitCallOK'
  <2> SUFFICES ASSUME Deinitialising'
               PROVE /\ uart_initialized'[call'.uart] /\ call'.mode = uart_modes'[call'.uart]
                     /\ call'.by = "TRANSPORT" <=> call'.uart = transport'
    BY DEF DeinitCallOK
  <2>1. /\ call'.uart = call.uart /\ call'.mode = call.mode /\ call'.by = call.by
        /\ Deinitialising
    BY DEF Deinitialising, Same, NoCall
  <2> QED
    BY <2>1 DEF DeinitCallOK, IInv
<1> QED
  BY <1>2, <1>3, <1>4, <1>5 DEF IInv

LEMMA OtherKeeps ==
  ASSUME IInv, NEW u \in Uart, WriteByte(u) \/ ReadByte(u) \/ uart_irq_handler(u) \/ ShiftOut(u)
  PROVE  IInv'
<1>1. TypeOK' /\ \A v \in Uart : rx_buffers[v] # NoRing => rx_buffers'[v] # NoRing
  BY OtherType DEF IInv
<1> QED
  BY <1>1, DataKeeps DEF WriteByte, ReadByte, uart_irq_handler, ShiftOut, Same

LEMMA WaitKeeps ==
  ASSUME IInv, WaitAgain
  PROVE  IInv'
<1>1. call # NoCall /\ call \in Call
  BY BusyIsTyped DEF WaitAgain, NoCall, IInv
<1>2. Same(call', call)
  BY <1>1 DEF WaitAgain, Retry, Same, Call, NoCall
<1> QED
  BY <1>2, CallStepType, DataKeeps DEF IInv, CallStep, WaitAgain, Retry, uartVars

LEMMA InitKeeps ==
  ASSUME IInv, NEW u \in Uart, NEW mode \in UartMode, NEW ring \in BOOLEAN, NEW by \in {"TRANSPORT", "USER"},
         UartInit(u, mode, ring, by),
         IF by = "TRANSPORT" THEN transport = NoUart /\ mode = "TX_RX" ELSE mode # "TX_RX"
  PROVE  IInv'
<1>1. /\ TypeOK /\ TypeOK' /\ call = NoCall /\ ~ uart_initialized[u]
      /\ ~ InUse(UartPins[u].rx) /\ ~ InUse(UartPins[u].tx)
      /\ call'.pc = "ARM" /\ call'.uart = u /\ call'.mode = mode /\ call'.by = by /\ call' # NoCall
      /\ moder' = [p \in Pin |-> IF p \in PinsOf(u, mode) THEN "AF" ELSE moder[p]]
      /\ UNCHANGED <<rx_buffers, uart_initialized, uart_modes, transport>>
  BY InitType DEF IInv, UartInit, InitStatus, IsGpioPinBeingUsed, NoCall
<1>2. /\ \A v \in Uart \ {u} : reg'[v] = reg[v]
      /\ reg'[u].clocked /\ reg'[u].irq = reg[u].irq /\ reg'[u].re = reg[u].re
  BY InitWrites DEF UartInit, IInv, TypeOK, Register
<1>3. \A v \in Uart : ~ Busy(v)
  BY <1>1 DEF Busy
<1>4. \A v \in Uart : uart_initialized[v] => HasItsPins(v, uart_modes[v])
  BY <1>3 DEF IInv, InitialisedIsWired, HasItsPins
<1>5. \A v \in Uart : uart_initialized[v] => PinsOf(u, mode) \cap Claimed(v) = {}
  BY <1>1, <1>4, ClaimedPins DEF HasItsPins, Claimed, InUse, TypeOK
<1>6. \A p \in Pin : InUse(p) => InUse(p)'
  BY <1>1 DEF InUse, IsPinAnAf, IsPinAnInput, IsPinAnOutput
<1>7. \A p \in Pin : IsPinAnAf(p) => IsPinAnAf(p)'
  BY <1>1 DEF IsPinAnAf
<1>8. InitialisedIsWired'
  <2> SUFFICES ASSUME NEW v \in Uart, uart_initialized'[v], ~ Busy(v)'
               PROVE /\ reg'[v] = [clocked |-> TRUE, ue |-> TRUE, te |-> HasTx(uart_modes'[v]),
                                   re |-> HasRx(uart_modes'[v]), irq |-> HasRx(uart_modes'[v])]
                     /\ \A p \in PinsOf(v, uart_modes'[v]) : IsPinAnAf(p)'
                     /\ HasRx(uart_modes'[v]) => rx_buffers'[v] # NoRing
    BY DEF InitialisedIsWired
  <2>1. v # u /\ uart_initialized[v] /\ ~ Busy(v) /\ uart_modes[v] \in UartMode
    BY <1>1, <1>3 DEF TypeOK
  <2>2. \A p \in PinsOf(v, uart_modes[v]) : IsPinAnAf(p)'
    BY <1>4, <1>7, <2>1, ClaimedPins DEF HasItsPins
  <2> QED
    BY <1>1, <1>2, <2>1, <2>2 DEF IInv, InitialisedIsWired
<1>9. IrqHoldsPin'
  BY <1>1, <1>2, <1>6, ClaimedPins DEF IInv, IrqHoldsPin
<1>10. ReceiverHasRing'
  BY <1>1, <1>2 DEF IInv, ReceiverHasRing
<1>11. PinsNotShared' /\ LinkIsTransports'
  BY <1>1 DEF IInv, PinsNotShared, LinkIsTransports
<1>12. InitCallOK'
  <2>1. ~ reg'[u].irq
    BY <1>1, <1>2 DEF IInv, IrqHoldsPin
  <2>2. HasItsPins(u, mode)'
    BY <1>1, ClaimedPins DEF HasItsPins, IsPinAnAf
  <2>3. \A v \in Uart : uart_initialized'[v] => PinsOf(u, mode) \cap Claimed(v)' = {}
    BY <1>1, <1>5 DEF Claimed
  <2>4. ~ uart_initialized'[u] /\ reg'[u].clocked
    BY <1>1, <1>2
  <2>5. reg'[u].irq = (call'.pc # "ARM" /\ HasRx(mode))
    BY <1>1, <2>1 DEF TypeOK
  <2>6. IF call'.by = "TRANSPORT" THEN transport' = NoUart /\ mode = "TX_RX" ELSE mode # "TX_RX"
    BY <1>1
  <2>7. call'.pc \notin {"TEACK", "REACK"} /\ call'.pc = "ARM"
    BY <1>1
  <2>8. InitSoFar(u, mode)'
    BY <2>2, <2>3, <2>4, <2>5, <2>6, <2>7 DEF InitSoFar
  <2> QED
    BY <1>1, <2>8 DEF InitCallOK
<1>13. DeinitCallOK'
  BY <1>1 DEF DeinitCallOK, Deinitialising
<1> QED
  BY <1>1, <1>8, <1>9, <1>10, <1>11, <1>12, <1>13 DEF IInv

LEMMA DeinitKeeps ==
  ASSUME IInv, NEW u \in Uart, NEW by \in {"TRANSPORT", "USER"}, UartDeinit(u, by),
         by = "TRANSPORT" <=> u = transport
  PROVE  IInv'
<1>1. /\ TypeOK /\ TypeOK' /\ call = NoCall /\ uart_initialized[u]
      /\ call'.pc = "TC" /\ call'.uart = u /\ call'.mode = uart_modes[u] /\ call'.by = by /\ call' # NoCall
      /\ UNCHANGED <<moder, rx_buffers, uart_initialized, uart_modes, transport>>
  BY DeinitType DEF IInv, UartDeinit, NoCall
<1>2. /\ \A v \in Uart \ {u} : reg'[v] = reg[v]
      /\ (reg'[u].irq => reg[u].irq) /\ reg'[u].re = reg[u].re
  BY IrqWrites, Directions DEF UartDeinit, IInv, TypeOK, Register
<1>3. InitialisedIsWired'
  BY <1>1, <1>2 DEF IInv, InitialisedIsWired, Busy, IsPinAnAf, PinsOf
<1>4. IrqHoldsPin' /\ ReceiverHasRing'
  BY <1>1, <1>2 DEF IInv, IrqHoldsPin, ReceiverHasRing, InUse, IsPinAnAf, IsPinAnInput, IsPinAnOutput
<1>5. PinsNotShared' /\ LinkIsTransports'
  BY <1>1 DEF IInv, PinsNotShared, LinkIsTransports
<1>6. InitCallOK' /\ DeinitCallOK'
  BY <1>1 DEF InitCallOK, DeinitCallOK, Initialising
<1> QED
  BY <1>1, <1>3, <1>4, <1>5, <1>6 DEF IInv

(* The call under way, its UART and what its initialisation has done.      *)
LEMMA CallFacts ==
  ASSUME IInv, CallStep
  PROVE  /\ TypeOK /\ TypeOK' /\ call # NoCall /\ call \in Call
         /\ call.uart \in Uart /\ call.mode \in UartMode /\ reg \in [Uart -> Register]
         /\ Initialising => InitSoFar(call.uart, call.mode)
<1>1. call # NoCall
  BY DEF CallStep, UartArm, UartEnable, WaitAgain, UartReady, UartNotReady, UartShutdown, UartRelease, NoCall
<1> QED
  BY <1>1, BusyIsTyped, CallStepType DEF IInv, InitCallOK, TypeOK, Register

LEMMA ArmKeeps == IInv /\ UartArm => IInv'
<1> SUFFICES ASSUME IInv, UartArm PROVE IInv'
  OBVIOUS
<1> DEFINE u == call.uart
           mode == call.mode
<1>1. /\ TypeOK /\ TypeOK' /\ call # NoCall /\ call \in Call /\ reg \in [Uart -> Register]
      /\ u \in Uart /\ mode \in UartMode /\ InitSoFar(u, mode) /\ call.pc = "ARM"
  BY CallFacts DEF CallStep, UartArm, Initialising
<1>2. UNCHANGED <<moder, uart_initialized, uart_modes, transport>>
  BY DEF UartArm
<1>3. /\ \A v \in Uart \ {u} : reg'[v] = reg[v] /\ rx_buffers'[v] = rx_buffers[v]
      /\ reg'[u].clocked = reg[u].clocked /\ reg'[u].re = reg[u].re
      /\ rx_buffers[u] # NoRing => rx_buffers'[u] # NoRing
  BY <1>1, IrqWrites, Directions DEF UartArm, Arm, NoRing, TypeOK
<1>4. ~ uart_initialized[u] /\ \A v \in Uart : v # u => (Busy(v)' <=> Busy(v)) /\ ~ Busy(v)
  BY <1>1 DEF UartArm, Arm, Busy, InitSoFar, Call, NoCall
<1>5. InitialisedIsWired'
  BY <1>2, <1>3, <1>4 DEF IInv, InitialisedIsWired, IsPinAnAf, PinsOf
<1>6. ReceiverHasRing' /\ PinsNotShared' /\ LinkIsTransports'
  BY <1>2, <1>3 DEF IInv, ReceiverHasRing, PinsNotShared, LinkIsTransports
<1>7. CASE HasRx(mode) /\ ~ call.ring
  <2>1. call' = NoCall /\ UNCHANGED <<reg, rx_buffers>>
    BY <1>7 DEF UartArm, Arm
  <2>2. IrqHoldsPin'
    BY <1>2, <2>1 DEF IInv, IrqHoldsPin, InUse, IsPinAnAf, IsPinAnInput, IsPinAnOutput
  <2>3. InitCallOK' /\ DeinitCallOK'
    BY <2>1 DEF InitCallOK, DeinitCallOK, Initialising, Deinitialising, NoCall
  <2> QED
    BY <1>1, <1>5, <1>6, <2>2, <2>3 DEF IInv
<1>8. CASE ~ (HasRx(mode) /\ ~ call.ring)
  <2>1. /\ call'.pc = "ENABLE" /\ call'.uart = u /\ call'.mode = mode /\ call'.by = call.by
        /\ reg' = [reg EXCEPT ![u].irq = reg[u].irq \/ HasRx(mode)]
        /\ HasRx(mode) => rx_buffers' = [rx_buffers EXCEPT ![u] = 0]
    BY <1>1, <1>8 DEF UartArm, Arm, Call
  <2>2. reg'[u].irq = HasRx(mode)
    BY <1>1, <2>1, IrqWrites, Directions DEF InitSoFar
  <2>3. IrqHoldsPin'
    <3>1. HasRx(mode) => InUse(UartPins[u].rx)
      BY <1>1, ClaimedPins DEF InitSoFar, HasItsPins, InUse
    <3> QED
      BY <1>1, <1>2, <1>3, <2>2, <3>1 DEF IInv, IrqHoldsPin, InUse, IsPinAnAf, IsPinAnInput, IsPinAnOutput
  <2>4. HasItsRing(u, mode)'
    BY <1>1, <2>1 DEF HasItsRing, NoRing, TypeOK
  <2>5. InitSoFar(u, mode)'
    BY <1>1, <1>2, <1>3, <2>1, <2>2, <2>4, Directions DEF InitSoFar, HasItsPins, IsPinAnAf, Claimed
  <2>6. InitCallOK' /\ DeinitCallOK'
    BY <2>1, <2>5 DEF InitCallOK, DeinitCallOK, Deinitialising
  <2> QED
    BY <1>1, <1>5, <1>6, <2>3, <2>6 DEF IInv
<1> QED
  BY <1>7, <1>8

LEMMA EnableKeeps == IInv /\ UartEnable => IInv'
<1> SUFFICES ASSUME IInv, UartEnable PROVE IInv'
  OBVIOUS
<1> DEFINE u == call.uart
           mode == call.mode
<1>1. /\ TypeOK /\ TypeOK' /\ call # NoCall /\ call \in Call /\ reg \in [Uart -> Register]
      /\ u \in Uart /\ mode \in UartMode /\ InitSoFar(u, mode) /\ call.pc = "ENABLE"
  BY CallFacts DEF CallStep, UartEnable, Initialising
<1>2. /\ UNCHANGED <<moder, rx_buffers, uart_initialized, uart_modes, transport>>
      /\ call'.uart = u /\ call'.mode = mode /\ call'.by = call.by /\ call'.pc \in {"TEACK", "REACK"}
  BY <1>1 DEF UartEnable, Call
<1>3. /\ \A v \in Uart \ {u} : reg'[v] = reg[v]
      /\ reg'[u] = [clocked |-> reg[u].clocked, ue |-> TRUE, te |-> HasTx(mode), re |-> HasRx(mode),
                    irq |-> reg[u].irq]
  BY <1>1, EnableWrites, Directions DEF UartEnable
<1>4. ~ uart_initialized[u] /\ \A v \in Uart : v # u => ~ Busy(v)
  BY <1>1 DEF Busy, InitSoFar
<1>5. InitialisedIsWired'
  BY <1>2, <1>3, <1>4 DEF IInv, InitialisedIsWired, IsPinAnAf, PinsOf
<1>6. PinsNotShared' /\ LinkIsTransports'
  BY <1>2 DEF IInv, PinsNotShared, LinkIsTransports
<1>7. IrqHoldsPin'
  BY <1>2, <1>3 DEF IInv, IrqHoldsPin, InUse, IsPinAnAf, IsPinAnInput, IsPinAnOutput
<1>8. ReceiverHasRing'
  BY <1>1, <1>2, <1>3 DEF IInv, ReceiverHasRing, InitSoFar, HasItsRing
<1>9. InitSoFar(u, mode)'
  <2>1. /\ ~ uart_initialized'[u] /\ reg'[u].clocked
        /\ reg'[u].irq = (call'.pc # "ARM" /\ HasRx(mode))
        /\ reg'[u].ue /\ reg'[u].te = HasTx(mode) /\ reg'[u].re = HasRx(mode)
    BY <1>1, <1>2, <1>3 DEF InitSoFar
  <2>2. HasItsRing(u, mode)' /\ HasItsPins(u, mode)'
    BY <1>1, <1>2 DEF InitSoFar, HasItsRing, HasItsPins, IsPinAnAf
  <2> QED
    BY <1>1, <1>2, <2>1, <2>2 DEF InitSoFar, Claimed
<1>10. InitCallOK' /\ DeinitCallOK'
  BY <1>2, <1>9 DEF InitCallOK, DeinitCallOK, Deinitialising
<1> QED
  BY <1>1, <1>5, <1>6, <1>7, <1>8, <1>10 DEF IInv

LEMMA ReadyKeeps == IInv /\ UartReady => IInv'
<1> SUFFICES ASSUME IInv, UartReady PROVE IInv'
  OBVIOUS
<1> DEFINE u == call.uart
           mode == call.mode
<1>1. /\ TypeOK /\ TypeOK' /\ call # NoCall /\ call \in Call
      /\ u \in Uart /\ mode \in UartMode /\ InitSoFar(u, mode) /\ call.pc \in {"TEACK", "REACK"}
      /\ UNCHANGED <<moder, reg, rx_buffers>>
  BY CallFacts DEF CallStep, UartReady, Initialising
<1>2. CASE call.pc = "TEACK" /\ HasRx(mode)
  <2>1. UNCHANGED <<uart_initialized, uart_modes, transport>> /\ Same(call', call)
    <3>1. call' = [call EXCEPT !.pc = "REACK", !.retries = ReadyTimeout]
      BY <1>2 DEF UartReady
    <3>2. call'.pc = "REACK" /\ call'.uart = call.uart /\ call'.mode = call.mode /\ call'.by = call.by
      BY <1>1, <3>1 DEF Call
    <3> QED
      BY <1>1, <1>2, <3>2 DEF UartReady, Same, NoCall
  <2> QED
    BY <1>1, <2>1, DataKeeps
<1>3. CASE ~ (call.pc = "TEACK" /\ HasRx(mode))
  <2>1. /\ call' = NoCall
        /\ uart_initialized'[u] /\ uart_modes'[u] = mode
        /\ \A v \in Uart \ {u} : uart_initialized'[v] = uart_initialized[v] /\ uart_modes'[v] = uart_modes[v]
        /\ transport' = IF call.by = "TRANSPORT" THEN u ELSE transport
    BY <1>1, <1>3 DEF UartReady, TypeOK
  <2>2. InitialisedIsWired'
    <3>1. reg[u] = [clocked |-> TRUE, ue |-> TRUE, te |-> HasTx(mode), re |-> HasRx(mode), irq |-> HasRx(mode)]
      BY <1>1 DEF InitSoFar, TypeOK
    <3>2. HasItsPins(u, mode) /\ HasItsRing(u, mode)
      BY <1>1 DEF InitSoFar
    <3>3. \A v \in Uart \ {u} : ~ Busy(v)
      BY DEF Busy
    <3> QED
      BY <1>1, <2>1, <3>1, <3>2, <3>3 DEF IInv, InitialisedIsWired, HasItsPins, HasItsRing, IsPinAnAf, PinsOf
  <2>3. IrqHoldsPin' /\ ReceiverHasRing'
    BY <1>1 DEF IInv, IrqHoldsPin, ReceiverHasRing, InUse, IsPinAnAf, IsPinAnInput, IsPinAnOutput
  <2>4. PinsNotShared'
    BY <1>1, <2>1 DEF IInv, PinsNotShared, InitSoFar, Claimed
  <2>5. LinkIsTransports'
    <3>1. transport # u /\ ~ uart_initialized[u]
      BY <1>1 DEF IInv, LinkIsTransports, InitSoFar
    <3>2. CASE call.by = "TRANSPORT"
      BY <1>1, <2>1, <3>1, <3>2, UartAssumption DEF IInv, LinkIsTransports, InitSoFar
    <3>3. CASE call.by # "TRANSPORT"
      BY <1>1, <2>1, <3>1, <3>3 DEF IInv, LinkIsTransports, InitSoFar
    <3> QED
      BY <3>2, <3>3
  <2>6. InitCallOK' /\ DeinitCallOK'
    BY <2>1 DEF InitCallOK, DeinitCallOK, Initialising, Deinitialising, NoCall
  <2> QED
    BY <1>1, <2>2, <2>3, <2>4, <2>5, <2>6 DEF IInv
<1> QED
  BY <1>2, <1>3

LEMMA NotReadyKeeps == IInv /\ UartNotReady => IInv'
<1> SUFFICES ASSUME IInv, UartNotReady PROVE IInv'
  OBVIOUS
<1>1. /\ TypeOK /\ TypeOK' /\ InitSoFar(call.uart, call.mode)
      /\ call' = NoCall /\ UNCHANGED <<moder, reg, rx_buffers, uart_initialized, uart_modes, transport>>
  BY CallFacts DEF CallStep, UartNotReady, Initialising, uartVars
<1>2. ~ uart_initialized[call.uart]
  BY <1>1 DEF InitSoFar
<1>3. InitialisedIsWired'
  BY <1>1, <1>2 DEF IInv, InitialisedIsWired, IsPinAnAf, PinsOf, Busy
<1>4. IrqHoldsPin' /\ ReceiverHasRing' /\ PinsNotShared' /\ LinkIsTransports'
  BY <1>1 DEF IInv, IrqHoldsPin, ReceiverHasRing, PinsNotShared, LinkIsTransports, InUse, IsPinAnAf,
     IsPinAnInput, IsPinAnOutput
<1>5. InitCallOK' /\ DeinitCallOK'
  BY <1>1 DEF InitCallOK, DeinitCallOK, Initialising, Deinitialising, NoCall
<1> QED
  BY <1>1, <1>3, <1>4, <1>5 DEF IInv

LEMMA ShutdownKeeps == IInv /\ UartShutdown => IInv'
<1> SUFFICES ASSUME IInv, UartShutdown PROVE IInv'
  OBVIOUS
<1> DEFINE u == call.uart
<1>1. /\ TypeOK /\ TypeOK' /\ call # NoCall /\ call \in Call /\ reg \in [Uart -> Register] /\ u \in Uart
      /\ call.pc = "TC" /\ UNCHANGED <<moder, rx_buffers, uart_initialized, uart_modes, transport>>
  BY CallFacts DEF CallStep, UartShutdown
<1>2. /\ call'.pc = "RELEASE" /\ call'.uart = u /\ call'.mode = call.mode /\ call'.by = call.by
      /\ call' # NoCall
  BY <1>1 DEF UartShutdown, Call, NoCall
<1>3. /\ \A v \in Uart \ {u} : reg'[v] = reg[v]
      /\ reg'[u].irq = reg[u].irq /\ ~ reg'[u].re
  BY <1>1, ShutdownWrites DEF UartShutdown
<1>4. \A v \in Uart : (Busy(v)' <=> Busy(v)) /\ Busy(u)
  BY <1>1, <1>2 DEF Busy
<1>5. InitialisedIsWired'
  BY <1>1, <1>3, <1>4 DEF IInv, InitialisedIsWired, IsPinAnAf, PinsOf
<1>6. IrqHoldsPin' /\ ReceiverHasRing'
  BY <1>1, <1>3 DEF IInv, IrqHoldsPin, ReceiverHasRing, InUse, IsPinAnAf, IsPinAnInput, IsPinAnOutput
<1>7. PinsNotShared' /\ LinkIsTransports'
  BY <1>1 DEF IInv, PinsNotShared, LinkIsTransports
<1>8. InitCallOK' /\ DeinitCallOK'
  BY <1>1, <1>2 DEF IInv, InitCallOK, DeinitCallOK, Initialising, Deinitialising
<1> QED
  BY <1>1, <1>5, <1>6, <1>7, <1>8 DEF IInv

LEMMA ReleaseKeeps == IInv /\ UartRelease => IInv'
<1> SUFFICES ASSUME IInv, UartRelease PROVE IInv'
  OBVIOUS
<1> DEFINE u == call.uart
<1>1. /\ TypeOK /\ TypeOK' /\ call # NoCall /\ call \in Call /\ u \in Uart
      /\ call' = NoCall /\ UNCHANGED <<reg, rx_buffers, uart_modes>>
      /\ uart_initialized[u] /\ call.mode = uart_modes[u]
      /\ call.by = "TRANSPORT" <=> u = transport
  BY CallFacts DEF CallStep, UartRelease, IInv, DeinitCallOK, Deinitialising
<1>2. /\ ~ uart_initialized'[u] /\ \A v \in Uart \ {u} : uart_initialized'[v] = uart_initialized[v]
      /\ transport' = IF call.by = "TRANSPORT" THEN NoUart ELSE transport
      /\ moder' = [p \in Pin |-> IF p \in Claimed(u) THEN "INPUT" ELSE moder[p]]
  BY <1>1 DEF UartRelease, GpioDeinit, TypeOK, Claimed
<1>3. InitialisedIsWired'
  <2>1. ASSUME NEW v \in Uart, uart_initialized'[v]
        PROVE  uart_initialized[v] /\ ~ Busy(v) /\ \A p \in Claimed(v) : IsPinAnAf(p)'
    <3>1. v # u /\ uart_initialized[v] /\ ~ Busy(v)
      BY <1>1, <1>2, <2>1 DEF Busy
    <3>2. \A p \in Claimed(v) : IsPinAnAf(p) /\ p \in Pin /\ p \notin Claimed(u)
      BY <1>1, <3>1, ClaimedPins DEF IInv, InitialisedIsWired, PinsNotShared, Claimed, TypeOK
    <3> QED
      BY <1>2, <3>1, <3>2 DEF IsPinAnAf
  <2> QED
    BY <1>1, <2>1 DEF IInv, InitialisedIsWired, Claimed
<1>4. IrqHoldsPin'
  <2>1. \A p \in Pin : InUse(p) => InUse(p)'
    BY <1>2 DEF InUse, IsPinAnAf, IsPinAnInput, IsPinAnOutput
  <2> QED
    BY <1>1, <2>1, UartAssumption DEF IInv, IrqHoldsPin
<1>5. ReceiverHasRing' /\ PinsNotShared'
  BY <1>1, <1>2 DEF IInv, ReceiverHasRing, PinsNotShared
<1>6. LinkIsTransports'
  BY <1>1, <1>2, UartAssumption DEF IInv, LinkIsTransports
<1>7. InitCallOK' /\ DeinitCallOK'
  BY <1>1 DEF InitCallOK, DeinitCallOK, Initialising, Deinitialising, NoCall
<1> QED
  BY <1>1, <1>3, <1>4, <1>5, <1>6, <1>7 DEF IInv

LEMMA CallStepKeeps == IInv /\ CallStep => IInv'
  BY ArmKeeps, EnableKeeps, WaitKeeps, ReadyKeeps, NotReadyKeeps, ShutdownKeeps, ReleaseKeeps DEF CallStep

LEMMA StepIInv == IInv /\ [Next]_vars => IInv'
<1> SUFFICES ASSUME IInv, [Next]_vars PROVE IInv'
  OBVIOUS
<1>1. CASE CallStep
  BY <1>1, CallStepKeeps
<1>2. CASE TransportDeinit
  <2>1. transport \in Uart
    BY <1>2 DEF TransportDeinit, IInv, TypeOK
  <2> QED
    BY <1>2, <2>1, DeinitKeeps DEF TransportDeinit
<1>3. CASE \E u \in Uart : TransportInit(u)
  BY <1>3, InitKeeps DEF TransportInit, TransportFree, UartMode
<1>4. CASE \E u \in Uart : UserDeinit(u)
  BY <1>4, DeinitKeeps DEF UserDeinit
<1>5. CASE \E u \in Uart, mode \in UartMode, ring \in BOOLEAN : UserInit(u, mode, ring)
  BY <1>5, InitKeeps DEF UserInit
<1>6. CASE \E u \in Uart : WriteByte(u) \/ ReadByte(u) \/ uart_irq_handler(u) \/ ShiftOut(u)
  BY <1>6, OtherKeeps
<1>7. CASE UNCHANGED vars
  BY <1>7, DataKeeps DEF vars, uartVars, Same, IInv, TypeOK, PinsTypeOK
<1> QED
  BY <1>1, <1>2, <1>3, <1>4, <1>5, <1>6, <1>7 DEF Next

LEMMA Invariance == Spec => []IInv
  BY InitIInv, StepIInv, PTL DEF Spec
-----------------------------------------------------------------------------
(* Registers, rings and the call under way stay within their types.        *)
THEOREM UartTypeCorrect == Spec => []TypeOK
<1>1. IInv => TypeOK
  BY DEF IInv
<1> QED
  BY <1>1, Invariance, PTL

(* A UART uart_init has reported up is wired through until uart_deinit     *)
(* begins on it, whatever becomes of the calls on other UARTs.             *)
THEOREM InitialisedAlwaysWired == Spec => []InitialisedIsWired
<1>1. IInv => InitialisedIsWired
  BY DEF IInv
<1> QED
  BY <1>1, Invariance, PTL

(* The receive handler never runs on a UART that has no ring, after a      *)
(* uart_init that failed at any step either.                               *)
THEOREM HandlerAlwaysHasRing == Spec => []HandlerHasRing
<1>1. IInv => HandlerHasRing
  BY DEF IInv, ReceiverHasRing, HandlerHasRing, Handled
<1> QED
  BY <1>1, Invariance, PTL

(* UARTs that share pins are never both up on them.                        *)
THEOREM PinsNeverShared == Spec => []PinsNotShared
<1>1. IInv => PinsNotShared
  BY DEF IInv
<1> QED
  BY <1>1, Invariance, PTL

(* The transport knows of every two-way link that is up, and of no other.  *)
THEOREM OneLinkAlwaysHeld == Spec => []OneLinkHeld
<1>1. IInv => OneLinkHeld
  BY DEF IInv, LinkIsTransports, OneLinkHeld
<1> QED
  BY <1>1, Invariance, PTL
=============================================================================
