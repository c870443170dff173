--------------------------- MODULE GpioController ---------------------------
(***************************************************************************)
(* The GPIO commands (src/gpio_controller.c), the table of interrupt       *)
(* bindings they keep (src/gpio_irq_bindings.c) and the interrupt handlers *)
(* that act on it (peripherals/gpio.c).                                    *)
(*                                                                         *)
(* A command runs to its end in one step.  The handlers run line by line   *)
(* and edges arrive between any two steps.  The core enters a handler as   *)
(* soon as an interrupt can be taken, so a command begins only when none   *)
(* can; an interrupt that lands in the middle of a command is seen here    *)
(* after it.                                                               *)
(***************************************************************************)
EXTENDS Exti

CONSTANTS BadPin,      \* a PORT or PIN field out of range
          WireEdge,    \* the EDGE fields the host sends
          WireAction   \* the ACTION fields the host sends

VARIABLES irq_bindings,  \* the binding of each line
          bound_edge,    \* history: the EDGE_SELECT of the binding
          isr,           \* the lines the running handler has still to look at
          reply          \* the status the last step answered with, if it did

pinVars == <<moder, odr>>
bindVars == <<irq_bindings, bound_edge>>
deviceVars == <<moder, odr, extiVars, bindVars>>
vars == <<deviceVars, isr, reply>>

Action == {"LOW", "HIGH", "TOGGLE"}
Direction == {"INPUT", "OUTPUT"}

WirePin == Pin \cup {BadPin}
WireDirection == Direction \cup {"OTHER"}
WireLevel == {"LOW", "HIGH", "OTHER"}

ASSUME WireAssumption ==
  /\ BadPin \notin Pin
  /\ WireEdge \subseteq Trigger \cup {"OFF", "OTHER"}
  /\ WireAction \subseteq Action \cup {"OTHER"}

NoBinding == [active |-> FALSE]
ActiveBinding == [active : {TRUE}, input_pin : Pin, output_pin : Pin,
                  action : Action]

(* No response: the step was not a command. *)
Silent == "NONE"

TypeOK ==
  /\ PinsTypeOK
  /\ ExtiTypeOK
  /\ irq_bindings \in [Line -> ActiveBinding \cup {NoBinding}]
  /\ bound_edge \in [Line -> Trigger \cup {"NONE"}]
  /\ isr \in SUBSET Line
  /\ reply \in Status \cup {Silent}

Init ==
  /\ PinsInit
  /\ ExtiInit
  /\ irq_bindings = [l \in Line |-> NoBinding]
  /\ bound_edge = [l \in Line |-> "NONE"]
  /\ isr = {}
  /\ reply = Silent

-----------------------------------------------------------------------------
(* Commands.                                                               *)

(* The main loop runs: no handler is active and none can be entered.       *)
MainRuns == isr = {} /\ ~ \E v \in nvic : Servable(v)

Respond(s) ==
  /\ MainRuns
  /\ reply' = s
  /\ UNCHANGED isr

(* The same with nothing changed: a read, or a refusal.                    *)
RespondOnly(s) == Respond(s) /\ UNCHANGED deviceVars

(* A payload of the wrong length is refused before a field is read.        *)
BadLength == RespondOnly("INVALID_ARG")

IoCfgStatus(dir, p) ==
  IF dir \notin Direction THEN "INVALID_ARG"
  ELSE IF p = BadPin THEN "INVALID_PIN"
  ELSE IF ~ IsValidPin(p) THEN "INVALID_PIN"
  ELSE "OK"

IoCfg(dir, p) ==
  \/ /\ IoCfgStatus(dir, p) # "OK"
     /\ RespondOnly(IoCfgStatus(dir, p))
  \/ /\ IoCfgStatus(dir, p) = "OK"
     /\ Respond("OK")
     /\ GpioInit(p, dir)
     /\ UNCHANGED <<odr, extiVars, bindVars>>

WriteStatus(level, p) ==
  IF level \notin {"LOW", "HIGH"} THEN "INVALID_ARG"
  ELSE IF p = BadPin THEN "INVALID_PIN"
  ELSE DriveStatus(p)

Write(level, p) ==
  \/ /\ WriteStatus(level, p) # "OK"
     /\ RespondOnly(WriteStatus(level, p))
  \/ /\ WriteStatus(level, p) = "OK"
     /\ Respond("OK")
     /\ GpioDrive(p, level = "HIGH")
     /\ UNCHANGED <<moder, extiVars, bindVars>>

Read(p) ==
  RespondOnly(IF p = BadPin THEN "INVALID_PIN" ELSE GpioReadStatus(p))

ToggleStatus(p) == IF p = BadPin THEN "INVALID_PIN" ELSE DriveStatus(p)

Toggle(p) ==
  \/ /\ ToggleStatus(p) # "OK"
     /\ RespondOnly(ToggleStatus(p))
  \/ /\ ToggleStatus(p) = "OK"
     /\ Respond("OK")
     /\ GpioDrive(p, ~ odr[p])
     /\ UNCHANGED <<moder, extiVars, bindVars>>

ClearBinding(l) ==
  /\ irq_bindings' = [irq_bindings EXCEPT ![l] = NoBinding]
  /\ bound_edge' = [bound_edge EXCEPT ![l] = "NONE"]

(* The driver's own code is logged and replaced by STATUS_ERR.             *)
IrqCfgStatus(edge, p) ==
  IF p = BadPin THEN "INVALID_PIN"
  ELSE IF edge = "OFF" THEN IF IsValidPin(p) THEN "OK" ELSE "ERR"
  ELSE IF edge \notin Trigger THEN "INVALID_ARG"
  ELSE IF InitInterruptStatus(p) # "OK" THEN "ERR"
  ELSE "OK"

IrqCfgRefused(edge, p) ==
  /\ IrqCfgStatus(edge, p) # "OK"
  /\ RespondOnly(IrqCfgStatus(edge, p))

IrqCfgOffKeepsBinding(edge, p) ==
  /\ edge = "OFF"
  /\ IrqCfgStatus(edge, p) = "OK"
  /\ Respond("OK")
  /\ GpioDeinitInterrupt(p)
  /\ UNCHANGED <<pinVars, bindVars>>

IrqCfgOff(edge, p) ==
  /\ edge = "OFF"
  /\ IrqCfgStatus(edge, p) = "OK"
  /\ Respond("OK")
  /\ GpioDeinitInterrupt(p)
  /\ ClearBinding(p.pin)
  /\ UNCHANGED pinVars

IrqCfgArm(edge, p) ==
  /\ edge # "OFF"
  /\ IrqCfgStatus(edge, p) = "OK"
  /\ Respond("OK")
  /\ GpioInitInterrupt(p, edge)
  /\ ClearBinding(p.pin)
  /\ UNCHANGED pinVars

IrqCfg(edge, p) == IrqCfgRefused(edge, p) \/ IrqCfgOff(edge, p) \/ IrqCfgArm(edge, p)

IrqBindStatusOverwrites(edge, in, action, out) ==
  IF BadPin \in {in, out} THEN "INVALID_PIN"
  ELSE IF edge \notin Trigger \/ action \notin Action THEN "INVALID_ARG"
  ELSE IF ~ IsPinAnInput(in) \/ ~ IsPinAnOutput(out) THEN "INVALID_STATE"
  ELSE IF InterruptTrigger(in) # edge THEN "INVALID_STATE"
  ELSE "OK"

IrqBindStatus(edge, in, action, out) ==
  IF BadPin \in {in, out} THEN "INVALID_PIN"
  ELSE IF edge \notin Trigger \/ action \notin Action THEN "INVALID_ARG"
  ELSE IF ~ IsPinAnInput(in) \/ ~ IsPinAnOutput(out) THEN "INVALID_STATE"
  ELSE IF InterruptTrigger(in) # edge THEN "INVALID_STATE"
  ELSE IF irq_bindings[in.pin].active THEN "BUSY"
  ELSE "OK"

IrqBind(edge, in, action, out) ==
  \/ /\ IrqBindStatus(edge, in, action, out) # "OK"
     /\ RespondOnly(IrqBindStatus(edge, in, action, out))
  \/ /\ IrqBindStatus(edge, in, action, out) = "OK"
     /\ Respond("OK")
     /\ irq_bindings' = [irq_bindings EXCEPT ![in.pin] =
                           [active |-> TRUE, input_pin |-> in,
                            output_pin |-> out, action |-> action]]
     /\ bound_edge' = [bound_edge EXCEPT ![in.pin] = edge]
     /\ UNCHANGED <<pinVars, extiVars>>

IsBoundPin(p) ==
  LET b == irq_bindings[p.pin] IN b.active /\ b.input_pin.port = p.port

IrqUnbindStatus(p) ==
  IF p = BadPin THEN "INVALID_PIN"
  ELSE IF ~ IsBoundPin(p) THEN "INVALID_STATE"
  ELSE "OK"

IrqUnbind(p) ==
  \/ /\ IrqUnbindStatus(p) # "OK"
     /\ RespondOnly(IrqUnbindStatus(p))
  \/ /\ IrqUnbindStatus(p) = "OK"
     /\ Respond("OK")
     /\ ClearBinding(p.pin)
     /\ UNCHANGED <<pinVars, extiVars>>
-----------------------------------------------------------------------------
(* Interrupt handlers.                                                     *)

(* EXTIx_IRQHandler is entered: it will look at every line of its vector,  *)
(* lowest first.                                                           *)
EnterHandler ==
  /\ isr = {}
  /\ \E v \in nvic : Servable(v) /\ isr' = {l \in Line : Vector(l) = v}
  /\ reply' = Silent
  /\ UNCHANGED deviceVars

(* irq_action_dispatch: the result of the driver call is dropped.          *)
IrqActionDispatchOnInput(l) ==
  LET b == irq_bindings[l] IN
  IF b.active
  THEN GpioDrive(b.input_pin, \/ b.action = "HIGH"
                              \/ b.action = "TOGGLE" /\ ~ odr[b.input_pin])
  ELSE UNCHANGED odr

IrqActionDispatch(l) ==
  LET b == irq_bindings[l] IN
  IF b.active
  THEN GpioDrive(b.output_pin, \/ b.action = "HIGH"
                               \/ b.action = "TOGGLE" /\ ~ odr[b.output_pin])
  ELSE UNCHANGED odr

(* PR1 |= bit reads every pending bit and writes it back to a register     *)
(* whose bits are cleared by writing one.                                  *)
AcknowledgeForgotten(l) == UNCHANGED pr
Acknowledge(l) == pr' = {}

(* One line of the handler's loop; a line that is not pending is skipped.  *)
ServeLine(l) ==
  /\ l \in isr
  /\ \A k \in isr : l <= k
  /\ isr' = isr \ {l}
  /\ reply' = Silent
  /\ IF l \in pr
     THEN /\ Acknowledge(l)
          /\ IF l \in irq_callbacks THEN IrqActionDispatch(l) ELSE UNCHANGED odr
     ELSE UNCHANGED <<pr, odr>>
  /\ UNCHANGED <<moder, exticr, imr, rtsr, ftsr, nvic, irq_callbacks, bindVars>>

(* The pin wired to a line moves.                                          *)
LineEdge(l) ==
  /\ Edge(l)
  /\ reply' = Silent
  /\ UNCHANGED <<pinVars, exticr, imr, rtsr, ftsr, nvic, irq_callbacks,
                 bindVars, isr>>
-----------------------------------------------------------------------------
Command ==
  \/ BadLength
  \/ \E p \in WirePin :
       \/ Read(p)
       \/ Toggle(p)
       \/ IrqUnbind(p)
       \/ \E dir \in WireDirection : IoCfg(dir, p)
       \/ \E level \in WireLevel : Write(level, p)
       \/ \E edge \in WireEdge : IrqCfg(edge, p)
       \/ \E edge \in WireEdge, action \in WireAction, out \in WirePin :
            IrqBind(edge, p, action, out)

Handler == EnterHandler \/ \E l \in Line : ServeLine(l)

Next == Command \/ Handler \/ \E l \in Line : LineEdge(l)

Spec == Init /\ [][Next]_vars
-----------------------------------------------------------------------------
(* Properties.                                                             *)

(* A binding in force has everything behind it that lets it fire: its line *)
(* is unmasked, wired to the input pin's own port, programmed for exactly  *)
(* the edge the host bound, and dispatched to the binding table.           *)
(* (irq_cfg, irq_bind and the driver keep three tables in step.)           *)
BindingArmed ==
  \A l \in Line : irq_bindings[l].active =>
    /\ irq_bindings[l].input_pin.pin = l
    /\ l \in imr \cap irq_callbacks
    /\ exticr[l] = irq_bindings[l].input_pin.port
    /\ LineTrigger(l) = bound_edge[l]
    /\ bound_edge[l] \in Trigger

(* As long as a line stays bound, neither the binding nor the trigger or   *)
(* the port of its line changes: nothing is swapped out under the host.    *)
BoundLineFrozen ==
  [][\A l \in Line :
       irq_bindings[l].active /\ irq_bindings'[l].active
         => /\ irq_bindings'[l] = irq_bindings[l]
            /\ exticr'[l] = exticr[l]
            /\ LineTrigger(l)' = LineTrigger(l)]_vars

(* An armed line is never taken over by another port: is_gpio_line_an_     *)
(* interrupt makes it pass through the masked state first.                 *)
LineNeverStolen ==
  [][\A l \in Line : l \in imr \cap imr' => exticr'[l] = exticr[l]]_vars

(* An output latch moves for one of two reasons: a command the host has    *)
(* been told is carried out, or an edge on a line whose binding names that *)
(* very pin.  And whatever io_cfg has made of the pin since it was bound,  *)
(* it moves only while the pin is an output: irq_action_dispatch asks for  *)
(* no mode, and the refusal of the driver is all that holds it back.       *)
OnlyOutputsMove ==
  [][\A p \in Pin : odr'[p] # odr[p] =>
       /\ IsPinAnOutput(p) /\ IsValidPin(p)
       /\ reply' = "OK" \/ \E l \in (isr \ isr') \cap pr \cap irq_callbacks :
                            irq_bindings[l].active /\ irq_bindings[l].output_pin = p]_vars

(* A line that has a vector of its own can always be served while armed.   *)
(* (gpio_deinit_interrupt disables the vector only with the line itself.)  *)
OwnVectorEnabled ==
  \A l \in imr : (\A k \in Line : Vector(k) = Vector(l) => k = l)
                  => Vector(l) \in nvic

(* If handlers are run: an interrupt that can be taken is over at some     *)
(* time, and so is every handler: edges cannot keep a pending bit set for  *)
(* ever without its line being looked at, nor hold the main loop off by    *)
(* one handler that never returns.                                         *)
PendingIsServed ==
  \A l \in Line :
    (l \in pr \cap imr /\ Vector(l) \in nvic)
      ~> (l \notin pr \/ l \notin imr \/ Vector(l) \notin nvic)

(* The registers and the binding table implement the interrupt service.    *)
LineState(l) ==
  LET b == irq_bindings[l] IN
  IF b.active
  THEN [mode |-> "BOUND", port |-> exticr[l], trigger |-> bound_edge[l],
        out |-> b.output_pin, action |-> b.action]
  ELSE IF l \in imr
  THEN [mode |-> "ARMED", port |-> exticr[l], trigger |-> LineTrigger(l)]
  ELSE [mode |-> "OFF"]

IL == INSTANCE IrqLines WITH
        line <- [l \in Line |-> LineState(l)], level <- odr, serving <- isr

(* Every step of the driver and the controller is a step of IrqLines or    *)
(* leaves its state alone.                                                 *)
ImplementsIrqLines == IL!Spec
-----------------------------------------------------------------------------
(* What the documents say and the code does not do.                        *)

(* mcu-co_Protocol.md 285: once bound, "when the edge fires, the MCU's ISR *)
(* drives the output pin directly"; that needs the vector of every armed   *)
(* line enabled.  Disarming a line disables the vector it shares.          *)
ArmedVectorEnabled == \A l \in imr : Vector(l) \in nvic

(* The same promise, for an edge on one line while another line is served. *)
(* A handler acknowledges the line it serves and no other.                 *)
OnlyServedLineAcknowledged ==
  [][\A l \in pr \ pr' : l \notin isr \/ \A k \in isr : l <= k]_vars

(* mcu-co_Protocol.md 268: gpio irq cfg off "clears every binding on that  *)
(* pin", and 260: only one port may own a line at a time.  So while one    *)
(* port has a line armed, a disarm that names another port's pin is        *)
(* refused.  The driver disarms the line whoever owns it.                  *)
StrangerMayNotDisarm ==
  \A p \in Pin : LineIsTaken(p) => IrqCfgStatus("OFF", p) # "OK"

(* mcu-co_Protocol.md 588 shows gpio irq cfg refused with ERR_BUSY, "EXTI  *)
(* line owned by another port".                                            *)
ConflictAnswersBusy ==
  [][\A p \in Pin, edge \in Trigger :
       IrqCfg(edge, p) /\ LineIsTaken(p) => reply' = "BUSY"]_vars
=============================================================================
