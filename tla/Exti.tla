-------------------------------- MODULE Exti --------------------------------
(***************************************************************************)
(* The interrupt half of the GPIO driver (peripherals/gpio.c).  The EXTI   *)
(* bit registers are sets of lines, EXTICR is a function from lines to     *)
(* the port wired to them, and the NVIC is the set of enabled vectors.     *)
(* Only irq_dispatch_table[line] is ever installed at a line, so a         *)
(* callback is either present or NULL.                                     *)
(***************************************************************************)
EXTENDS GpioPins

CONSTANT PortA       \* the port an all-zero EXTICR field selects

ASSUME PortAAssumption == PortA \in Port

VARIABLES exticr, imr, rtsr, ftsr, pr, nvic, irq_callbacks

extiVars == <<exticr, imr, rtsr, ftsr, pr, nvic, irq_callbacks>>

Trigger == {"RISING", "FALLING", "BOTH"}

(* get_exti_irqn: lines 0-4 have a vector each, 5-9 and 10-15 share one.   *)
(* A vector is named by its lowest line.                                   *)
Vector(l) == IF l <= 4 THEN l ELSE IF l <= 9 THEN 5 ELSE 10

ExtiTypeOK ==
  /\ exticr \in [Line -> Port]
  /\ imr \in SUBSET Line
  /\ rtsr \in SUBSET Line
  /\ ftsr \in SUBSET Line
  /\ pr \in SUBSET Line
  /\ nvic \in SUBSET {Vector(l) : l \in Line}
  /\ irq_callbacks \in SUBSET Line

ExtiInit ==
  /\ exticr = [l \in Line |-> PortA]
  /\ imr = {} /\ rtsr = {} /\ ftsr = {} /\ pr = {}
  /\ nvic = {}
  /\ irq_callbacks = {}

(* The edge selection a line is programmed with.                           *)
LineTrigger(l) ==
  IF l \in rtsr /\ l \in ftsr THEN "BOTH"
  ELSE IF l \in rtsr THEN "RISING"
  ELSE IF l \in ftsr THEN "FALLING"
  ELSE "NONE"

(* is_gpio_line_an_interrupt: another port has the line unmasked.          *)
LineIsTakenNever(p) == FALSE
LineIsTaken(p) == p.pin \in imr /\ exticr[p.pin] # p.port

(* gpio_get_interrupt_trigger; "NONE" stands for any error it returns.     *)
InterruptTrigger(p) ==
  IF IsValidPin(p) /\ p.pin \in imr /\ exticr[p.pin] = p.port
  THEN LineTrigger(p.pin)
  ELSE "NONE"

InitInterruptStatus(p) ==
  IF ~ IsValidPin(p) THEN "INVALID_PIN"
  ELSE IF LineIsTaken(p) THEN "BUSY"
  ELSE "OK"

(* What the register writes of gpio_init_interrupt leave behind, without   *)
(* and with the last one.                                                  *)
GpioInitInterruptVectorOff(p, t) ==
  LET l == p.pin IN
  /\ exticr' = [exticr EXCEPT ![l] = p.port]
  /\ imr' = imr \cup {l}
  /\ rtsr' = IF t \in {"RISING", "BOTH"} THEN rtsr \cup {l} ELSE rtsr \ {l}
  /\ ftsr' = IF t \in {"FALLING", "BOTH"} THEN ftsr \cup {l} ELSE ftsr \ {l}
  /\ irq_callbacks' = irq_callbacks \cup {l}
  /\ UNCHANGED <<pr, nvic>>

GpioInitInterrupt(p, t) ==
  LET l == p.pin IN
  /\ exticr' = [exticr EXCEPT ![l] = p.port]
  /\ imr' = imr \cup {l}
  /\ rtsr' = IF t \in {"RISING", "BOTH"} THEN rtsr \cup {l} ELSE rtsr \ {l}
  /\ ftsr' = IF t \in {"FALLING", "BOTH"} THEN ftsr \cup {l} ELSE ftsr \ {l}
  /\ irq_callbacks' = irq_callbacks \cup {l}
  /\ nvic' = nvic \cup {Vector(l)}
  /\ UNCHANGED pr

(* gpio_deinit_interrupt: the line's owner is not consulted, the vector is *)
(* disabled for every line that shares it, and PR1 is left as it is.  The  *)
(* vector goes first, so an edge that arrives before the triggers are      *)
(* cleared stays pending.                                                  *)
GpioDeinitInterrupt(p) ==
  LET l == p.pin IN
  /\ nvic' = nvic \ {Vector(l)}
  /\ imr' = imr \ {l}
  /\ rtsr' = rtsr \ {l}
  /\ ftsr' = ftsr \ {l}
  /\ exticr' = [exticr EXCEPT ![l] = PortA]
  /\ irq_callbacks' = irq_callbacks \ {l}
  /\ pr' \in {pr} \cup {pr \cup {l} : k \in {l} \cap (rtsr \cup ftsr)}

(* Hardware: a selected edge on the pin wired to the line sets its pending *)
(* bit, masked or not.                                                     *)
Edge(l) ==
  /\ l \in (rtsr \cup ftsr) \ pr
  /\ pr' = pr \cup {l}

(* The core takes the interrupt of an enabled vector at once.              *)
Servable(v) == v \in nvic /\ \E l \in pr \cap imr : Vector(l) = v
=============================================================================
