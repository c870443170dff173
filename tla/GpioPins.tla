------------------------------ MODULE GpioPins ------------------------------
(***************************************************************************)
(* The pin half of the GPIO driver (peripherals/gpio.c): pin modes and     *)
(* output levels.  MODER and ODR are kept per pin; OTYPER, OSPEEDR, PUPDR  *)
(* and AFR carry nothing any property tells apart and are left out.  The   *)
(* operators are the driver's calls; the modules that issue them decide    *)
(* when.  A port's clock gate is not modelled: reading MODER of a port     *)
(* that was never enabled is taken to return the reset value, which is     *)
(* what the boot sequence itself relies on.                                *)
(***************************************************************************)
EXTENDS Integers

CONSTANTS Port,      \* GPIO ports
          Line,      \* pin numbers, which are also the EXTI line numbers
          Pin,       \* the pins of the instance
          Reserved,  \* the pins the driver refuses (SWD, JTAG)
          BootAf     \* the pins in alternate function once the link is up

VARIABLES moder,     \* the mode of each pin
          odr        \* the output latch of each pin

(* gpio->pin > MAX_PIN_COUNT is refused everywhere. *)
MaxPinCount == 15

ASSUME PinAssumption ==
  /\ Line \subseteq 0 .. MaxPinCount
  /\ Pin \subseteq [port : Port, pin : Line]
  /\ Reserved \subseteq Pin
  /\ BootAf \subseteq Pin
  /\ Reserved \subseteq BootAf

Mode == {"INPUT", "OUTPUT", "AF", "ANALOG"}

(* status.h, without the codes nothing here returns. *)
Status == {"OK", "ERR", "INVALID_ARG", "INVALID_PIN", "INVALID_STATE",
           "NOT_INIT", "BUSY", "UNSUPPORTED"}

PinsTypeOK ==
  /\ moder \in [Pin -> Mode]
  /\ odr \in [Pin -> BOOLEAN]

(* Reset values: every pin is analog but the debug pins; the link's own    *)
(* pins were switched to AF by uart_init before the first command.         *)
PinsInit ==
  /\ moder = [p \in Pin |-> IF p \in BootAf THEN "AF" ELSE "ANALOG"]
  /\ odr = [p \in Pin |-> FALSE]

IsPinAnInput(p)  == moder[p] = "INPUT"
IsPinAnOutput(p) == moder[p] = "OUTPUT"
IsPinAnAf(p)     == moder[p] = "AF"

(* is_valid_pin for a pin whose port and number are in range.              *)
IsValidPin(p) == p \notin Reserved

(* gpio_init: the mode changes whatever the pin was in use for.            *)
GpioInit(p, mode) == moder' = [moder EXCEPT ![p] = mode]

(* gpio_deinit on a set of pins: MODER is cleared, the code of INPUT.      *)
GpioDeinit(P) == moder' = [p \in Pin |-> IF p \in P THEN "INPUT" ELSE moder[p]]

(* The common guard of gpio_set, gpio_reset and gpio_toggle.               *)
DriveStatus(p) ==
  IF ~ IsValidPin(p) THEN "INVALID_PIN"
  ELSE IF ~ IsPinAnOutput(p) THEN "INVALID_STATE"
  ELSE "OK"

(* gpio_set_state and gpio_toggle: the latch moves only on STATUS_OK.      *)
GpioDriveAnyMode(p, level) == odr' = [odr EXCEPT ![p] = level]
GpioDrive(p, level) ==
  odr' = IF DriveStatus(p) = "OK" THEN [odr EXCEPT ![p] = level] ELSE odr

GpioReadStatus(p) ==
  IF ~ IsValidPin(p) THEN "INVALID_PIN"
  ELSE IF ~ IsPinAnInput(p) THEN "INVALID_STATE"
  ELSE "OK"
=============================================================================
