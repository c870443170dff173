------------------------------ MODULE Firmware ------------------------------
(***************************************************************************)
(* GPIO and PWM commands over the same pins.  The two controllers share    *)
(* nothing but MODER and ODR, and neither asks the other: a pin belongs to *)
(* whoever its mode says.  The main loop runs one command at a time.       *)
(***************************************************************************)
EXTENDS GpioController

CONSTANTS Instance, Channel, PinOf, ClkHz, FreqMin, FreqMax, PrescalerMax, ReloadMax,
          DutyMax, BadGroup, WireFreq, WireDuty

(* What the timer driver assumes of its pin table, clock and registers and *)
(* the PWM commands of their fields, stated here for the instance below.   *)
ASSUME PwmAssumption ==
  /\ PinOf \in [Instance \X Channel -> Pin \ BootAf]
  /\ \A x, y \in Instance \X Channel : PinOf[x] = PinOf[y] => x = y
  /\ {ClkHz, FreqMin, ReloadMax, DutyMax} \subseteq Nat \ {0}
  /\ {FreqMax, PrescalerMax} \subseteq Nat
  /\ BadGroup \notin Instance
  /\ WireFreq \subseteq Nat
  /\ WireDuty \subseteq Nat

VARIABLE tim

fwVars == <<vars, tim>>

Pwm == INSTANCE PwmController

FwInit == Init /\ Pwm!TimInit

GpioStep == Next /\ UNCHANGED tim

PwmCommand == MainRuns /\ Pwm!Command /\ UNCHANGED <<extiVars, bindVars, isr>>

PwmPeriod(i) == Pwm!EndOfPeriod(i) /\ UNCHANGED <<extiVars, bindVars, isr>>

FwNext == GpioStep \/ PwmCommand \/ \E i \in Instance : PwmPeriod(i)

FwSpec == FwInit /\ [][FwNext]_fwVars

(* The core takes a pending interrupt and the handler does not block; a    *)
(* counter that runs comes to the end of its period.                       *)
FwFairSpec ==
  /\ FwSpec
  /\ WF_fwVars(Handler /\ UNCHANGED tim)
  /\ \A i \in Instance : WF_fwVars(PwmPeriod(i))
-----------------------------------------------------------------------------
Claimed(p) == \E i \in Instance : \E c \in tim[i].configured : PinOf[<<i, c>>] = p

(* A pin is in alternate function for a reason: debug port, link, or a     *)
(* claimed channel.  Neither controller leaves one behind.                 *)
AfHasOwner == \A p \in Pin : IsPinAnAf(p) => p \in BootAf \/ Claimed(p)

(* PWM never takes a pin the host has given to GPIO, so no channel can be  *)
(* claimed over the output of a live binding or the input of an armed one. *)
PwmNeverTakesFromGpio ==
  [][\A p \in Pin : IsPinAnInput(p) \/ IsPinAnOutput(p) => moder'[p] # "AF"]_fwVars

(* A duty cycle the host has set reaches the comparator, with interrupts   *)
(* and GPIO commands in between; whether the pin is still there to show it *)
(* is another question.                                                    *)
DutyReachesOutput == Pwm!DutyReachesOutput

(* mcu-co_Protocol.md 452: pwm channel cfg "takes ownership so no other    *)
(* driver can use it".  gpio cfg takes any pin that is not reserved, and   *)
(* the channel stays claimed without one.                                  *)
ClaimedPinIsKept == \A p \in Pin : Claimed(p) => IsPinAnAf(p)
=============================================================================
