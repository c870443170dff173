--------------------------- MODULE FirmwareProofs ---------------------------
(***************************************************************************)
(* What holds of the GPIO commands and interrupt handlers for every set of *)
(* ports, lines and pins, by themselves (GpioController) and with PWM      *)
(* commands and update events in between (Firmware).                       *)
(***************************************************************************)
EXTENDS Firmware, TLAPS

(* The strengthening that makes BindingArmed inductive: irq_bind looks at  *)
(* the mask and the trigger of the line but not at its callback, so an     *)
(* unmasked line must be known to have one.                                *)
ArmedHasCallback == imr \subseteq irq_callbacks

IInv == TypeOK /\ ArmedHasCallback /\ BindingArmed

(* A pin's number is a line and its port is a port.                        *)
LEMMA PinFields ==
  ASSUME NEW p \in Pin
  PROVE  p.pin \in Line /\ p.port \in Port
BY PinAssumption

(* A step keeps every register, table and response in range.               *)
LEMMA TypeStep ==
  ASSUME TypeOK, [Next]_vars
  PROVE  TypeOK'
<1>a. /\ BadPin \notin Pin
      /\ PortA \in Port
  BY WireAssumption, PortAAssumption
<1>1. CASE BadLength
  BY <1>1 DEF TypeOK, PinsTypeOK, ExtiTypeOK, BadLength, RespondOnly, Respond,
              deviceVars, extiVars, bindVars, Status
<1>2. ASSUME NEW p \in WirePin, Read(p) PROVE TypeOK'
  BY <1>2 DEF TypeOK, PinsTypeOK, ExtiTypeOK, Read, RespondOnly, Respond,
              deviceVars, extiVars, bindVars, Status, GpioReadStatus
<1>3. ASSUME NEW p \in WirePin, Toggle(p) PROVE TypeOK'
  <2>1. ToggleStatus(p) \in Status
    BY DEF ToggleStatus, DriveStatus, Status
  <2>2. ToggleStatus(p) = "OK" => p \in Pin
    BY DEF ToggleStatus, WirePin
  <2>3. CASE ToggleStatus(p) # "OK"
    BY <1>3, <2>1, <2>3 DEF TypeOK, PinsTypeOK, ExtiTypeOK, Toggle, RespondOnly,
                            Respond, deviceVars, extiVars, bindVars
  <2>4. CASE ToggleStatus(p) = "OK"
    BY <1>3, <2>2, <2>4 DEF TypeOK, PinsTypeOK, ExtiTypeOK, Toggle, Respond,
                            GpioDrive, extiVars, bindVars, Status
  <2> QED BY <2>3, <2>4
<1>4. ASSUME NEW p \in WirePin, IrqUnbind(p) PROVE TypeOK'
  <2>1. IrqUnbindStatus(p) \in Status
    BY DEF IrqUnbindStatus, Status
  <2>3. CASE IrqUnbindStatus(p) # "OK"
    BY <1>4, <2>1, <2>3 DEF TypeOK, PinsTypeOK, ExtiTypeOK, IrqUnbind, RespondOnly,
                            Respond, deviceVars, extiVars, bindVars
  <2>4. CASE IrqUnbindStatus(p) = "OK"
    BY <1>4, <2>4 DEF TypeOK, PinsTypeOK, ExtiTypeOK, IrqUnbind, Respond,
                      ClearBinding, pinVars, extiVars, Status
  <2> QED BY <2>3, <2>4
<1>5. ASSUME NEW p \in WirePin, NEW dir \in WireDirection, IoCfg(dir, p)
      PROVE TypeOK'
  <2>1. IoCfgStatus(dir, p) \in Status
    BY DEF IoCfgStatus, Status
  <2>2. IoCfgStatus(dir, p) = "OK" => dir \in Mode
    BY DEF IoCfgStatus, Direction, Mode
  <2>3. CASE IoCfgStatus(dir, p) # "OK"
    BY <1>5, <2>1, <2>3 DEF TypeOK, PinsTypeOK, ExtiTypeOK, IoCfg, RespondOnly,
                            Respond, deviceVars, extiVars, bindVars
  <2>4. CASE IoCfgStatus(dir, p) = "OK"
    BY <1>5, <2>2, <2>4 DEF TypeOK, PinsTypeOK, ExtiTypeOK, IoCfg, Respond,
                            GpioInit, extiVars, bindVars, Status
  <2> QED BY <2>3, <2>4
<1>6. ASSUME NEW p \in WirePin, NEW level \in WireLevel, Write(level, p)
      PROVE TypeOK'
  <2>1. WriteStatus(level, p) \in Status
    BY DEF WriteStatus, DriveStatus, Status
  <2>3. CASE WriteStatus(level, p) # "OK"
    BY <1>6, <2>1, <2>3 DEF TypeOK, PinsTypeOK, ExtiTypeOK, Write, RespondOnly,
                            Respond, deviceVars, extiVars, bindVars
  <2>4. CASE WriteStatus(level, p) = "OK"
    BY <1>6, <2>4 DEF TypeOK, PinsTypeOK, ExtiTypeOK, Write, Respond,
                      GpioDrive, extiVars, bindVars, Status
  <2> QED BY <2>3, <2>4
<1>7. ASSUME NEW p \in WirePin, NEW edge \in WireEdge, IrqCfg(edge, p)
      PROVE TypeOK'
  <2>1. IrqCfgStatus(edge, p) \in Status
    BY DEF IrqCfgStatus, Status
  <2>2. IrqCfgStatus(edge, p) = "OK" => p \in Pin /\ p.pin \in Line /\ p.port \in Port
    BY PinFields DEF IrqCfgStatus, WirePin
  <2>3. CASE IrqCfgRefused(edge, p)
    BY <2>1, <2>3 DEF TypeOK, PinsTypeOK, ExtiTypeOK, IrqCfgRefused, RespondOnly,
                      Respond, deviceVars, extiVars, bindVars
  <2>4. CASE IrqCfgOff(edge, p)
    BY <1>a, <2>2, <2>4
       DEF TypeOK, PinsTypeOK, ExtiTypeOK, IrqCfgOff, Respond, ClearBinding,
           GpioDeinitInterrupt, pinVars, Status
  <2>5. CASE IrqCfgArm(edge, p)
    BY <2>2, <2>5
       DEF TypeOK, PinsTypeOK, ExtiTypeOK, IrqCfgArm, Respond, ClearBinding,
           GpioInitInterrupt, pinVars, Status
  <2> QED BY <1>7, <2>3, <2>4, <2>5 DEF IrqCfg
<1>8. ASSUME NEW in \in WirePin, NEW edge \in WireEdge, NEW action \in WireAction,
             NEW out \in WirePin, IrqBind(edge, in, action, out)
      PROVE TypeOK'
  <2>1. IrqBindStatus(edge, in, action, out) \in Status
    BY DEF IrqBindStatus, Status
  <2>2. IrqBindStatus(edge, in, action, out) = "OK" =>
          /\ in \in Pin /\ out \in Pin /\ edge \in Trigger /\ action \in Action
    BY DEF IrqBindStatus, WirePin
  <2>3. CASE IrqBindStatus(edge, in, action, out) # "OK"
    BY <1>8, <2>1, <2>3 DEF TypeOK, PinsTypeOK, ExtiTypeOK, IrqBind, RespondOnly,
                            Respond, deviceVars, extiVars, bindVars
  <2>4. CASE IrqBindStatus(edge, in, action, out) = "OK"
    <3>1. [active |-> TRUE, input_pin |-> in, output_pin |-> out, action |-> action]
            \in ActiveBinding
      BY <2>2, <2>4 DEF ActiveBinding
    <3> QED
      BY <1>8, <2>2, <2>4, <3>1 DEF TypeOK, PinsTypeOK, ExtiTypeOK, IrqBind,
                                   Respond, pinVars, extiVars, Status
  <2> QED BY <2>3, <2>4
<1>9. CASE EnterHandler
  BY <1>9 DEF TypeOK, PinsTypeOK, ExtiTypeOK, EnterHandler, deviceVars, extiVars,
              bindVars, Silent
<1>10. ASSUME NEW l \in Line, ServeLine(l) PROVE TypeOK'
  <2>1. odr' \in [Pin -> BOOLEAN]
    BY <1>10 DEF TypeOK, PinsTypeOK, ServeLine, IrqActionDispatch, GpioDrive
  <2> QED
    BY <1>10, <2>1 DEF TypeOK, PinsTypeOK, ExtiTypeOK, ServeLine, Acknowledge,
                       bindVars, Silent
<1>11. ASSUME NEW l \in Line, LineEdge(l) PROVE TypeOK'
  BY <1>11 DEF TypeOK, PinsTypeOK, ExtiTypeOK, LineEdge, Edge, pinVars, bindVars,
               Silent
<1>12. CASE UNCHANGED vars
  BY <1>12 DEF TypeOK, PinsTypeOK, ExtiTypeOK, vars, deviceVars, extiVars, bindVars
<1> QED
  BY <1>1, <1>2, <1>3, <1>4, <1>5, <1>6, <1>7, <1>8, <1>9, <1>10, <1>11, <1>12
     DEF Next, Command, Handler

(* Type correctness: every register, table and response stays in range.    *)
THEOREM TypeCorrect == Spec => []TypeOK
<1>1. Init => TypeOK
  BY PinAssumption, PortAAssumption
     DEF Init, TypeOK, PinsInit, PinsTypeOK, ExtiInit, ExtiTypeOK, Mode, Silent
<1>2. TypeOK /\ [Next]_vars => TypeOK'
  BY TypeStep
<1> QED BY <1>1, <1>2, PTL DEF Spec
-----------------------------------------------------------------------------
(* The registers and tables the interrupt properties speak of. *)
tableVars == <<exticr, imr, rtsr, ftsr, nvic, irq_callbacks, irq_bindings, bound_edge>>

ArmStep(t, p)    == IrqCfgArm(t, p) /\ InitInterruptStatus(p) = "OK"
BindStep(t, in, action, out) ==
  IrqBind(t, in, action, out) /\ IrqBindStatus(t, in, action, out) = "OK"
UnbindStep(p)    == IrqUnbind(p) /\ IrqUnbindStatus(p) = "OK"

(* Only four commands, accepted, touch the tables.                         *)
LEMMA StepShape ==
  ASSUME TypeOK, [Next]_vars
  PROVE  \/ UNCHANGED tableVars
         \/ \E p \in Pin : IrqCfgOff("OFF", p)
         \/ \E p \in Pin, t \in Trigger : ArmStep(t, p)
         \/ \E in, out \in Pin, t \in Trigger, action \in Action :
              BindStep(t, in, action, out)
         \/ \E p \in Pin : UnbindStep(p)
<1> USE DEF tableVars
<1>1. CASE BadLength
  BY <1>1 DEF BadLength, RespondOnly, deviceVars, extiVars, bindVars
<1>2. ASSUME NEW p \in WirePin, Read(p) PROVE UNCHANGED tableVars
  BY <1>2 DEF Read, RespondOnly, deviceVars, extiVars, bindVars
<1>3. ASSUME NEW p \in WirePin, Toggle(p) PROVE UNCHANGED tableVars
  BY <1>3 DEF Toggle, RespondOnly, deviceVars, extiVars, bindVars
<1>4. ASSUME NEW p \in WirePin, IrqUnbind(p)
      PROVE  UNCHANGED tableVars \/ (p \in Pin /\ UnbindStep(p))
  BY <1>4 DEF UnbindStep, IrqUnbind, IrqUnbindStatus, RespondOnly, deviceVars,
              extiVars, bindVars, WirePin
<1>5. ASSUME NEW p \in WirePin, NEW dir \in WireDirection, IoCfg(dir, p)
      PROVE  UNCHANGED tableVars
  BY <1>5 DEF IoCfg, RespondOnly, deviceVars, extiVars, bindVars
<1>6. ASSUME NEW p \in WirePin, NEW level \in WireLevel, Write(level, p)
      PROVE  UNCHANGED tableVars
  BY <1>6 DEF Write, RespondOnly, deviceVars, extiVars, bindVars
<1>7. ASSUME NEW p \in WirePin, NEW edge \in WireEdge, IrqCfg(edge, p)
      PROVE  \/ UNCHANGED tableVars
             \/ p \in Pin /\ IrqCfgOff("OFF", p)
             \/ p \in Pin /\ edge \in Trigger /\ ArmStep(edge, p)
  <2>1. CASE IrqCfgRefused(edge, p)
    BY <2>1 DEF IrqCfgRefused, RespondOnly, deviceVars, extiVars, bindVars
  <2>2. CASE IrqCfgOff(edge, p)
    BY <2>2 DEF IrqCfgOff, IrqCfgStatus, WirePin
  <2>3. CASE IrqCfgArm(edge, p)
    BY <2>3 DEF IrqCfgArm, IrqCfgStatus, ArmStep, WirePin
  <2> QED BY <1>7, <2>1, <2>2, <2>3 DEF IrqCfg
<1>8. ASSUME NEW in \in WirePin, NEW edge \in WireEdge, NEW action \in WireAction,
             NEW out \in WirePin, IrqBind(edge, in, action, out)
      PROVE  \/ UNCHANGED tableVars
             \/ /\ in \in Pin /\ out \in Pin /\ edge \in Trigger /\ action \in Action
                /\ BindStep(edge, in, action, out)
  BY <1>8 DEF BindStep, IrqBind, IrqBindStatus, RespondOnly, deviceVars, extiVars,
              bindVars, WirePin
<1>9. CASE EnterHandler
  BY <1>9 DEF EnterHandler, deviceVars, extiVars, bindVars
<1>10. ASSUME NEW l \in Line, ServeLine(l) PROVE UNCHANGED tableVars
  BY <1>10 DEF ServeLine, bindVars
<1>11. ASSUME NEW l \in Line, LineEdge(l) PROVE UNCHANGED tableVars
  BY <1>11 DEF LineEdge, bindVars
<1>12. CASE UNCHANGED vars
  BY <1>12 DEF vars, deviceVars, extiVars, bindVars
<1> QED
  BY <1>1, <1>2, <1>3, <1>4, <1>5, <1>6, <1>7, <1>8, <1>9, <1>10, <1>11, <1>12
     DEF Next, Command, Handler

(* A step keeps the three tables in step with one another.                 *)
LEMMA TablesStep ==
  ASSUME TypeOK, ArmedHasCallback, BindingArmed, [Next]_vars
  PROVE  ArmedHasCallback' /\ BindingArmed'
<1>1. CASE UNCHANGED tableVars
  BY <1>1 DEF tableVars, ArmedHasCallback, BindingArmed, LineTrigger
<1>2. ASSUME NEW p \in Pin, IrqCfgOff("OFF", p)
      PROVE  ArmedHasCallback' /\ BindingArmed'
  <2>1. ArmedHasCallback'
    BY <1>2 DEF ArmedHasCallback, IrqCfgOff, GpioDeinitInterrupt
  <2>2. BindingArmed'
    BY <1>2, PinFields
       DEF TypeOK, ExtiTypeOK, BindingArmed, IrqCfgOff, GpioDeinitInterrupt,
           ClearBinding, NoBinding, LineTrigger
  <2> QED BY <2>1, <2>2
<1>3. ASSUME NEW p \in Pin, NEW t \in Trigger, ArmStep(t, p)
      PROVE  ArmedHasCallback' /\ BindingArmed'
  <2>1. ArmedHasCallback'
    BY <1>3 DEF ArmStep, ArmedHasCallback, IrqCfgArm, GpioInitInterrupt
  <2>2. BindingArmed'
    BY <1>3, PinFields
       DEF ArmStep, TypeOK, ExtiTypeOK, BindingArmed, IrqCfgArm,
           GpioInitInterrupt, ClearBinding, NoBinding, LineTrigger
  <2> QED BY <2>1, <2>2
<1>4. ASSUME NEW in \in Pin, NEW out \in Pin, NEW t \in Trigger,
             NEW action \in Action, BindStep(t, in, action, out)
      PROVE  ArmedHasCallback' /\ BindingArmed'
  <2>1. /\ in.pin \in imr
        /\ exticr[in.pin] = in.port
        /\ LineTrigger(in.pin) = t
    BY <1>4 DEF BindStep, IrqBindStatus, InterruptTrigger, Trigger
  <2>2. /\ UNCHANGED <<imr, rtsr, ftsr, exticr, irq_callbacks>>
        /\ irq_bindings' = [irq_bindings EXCEPT ![in.pin] =
                              [active |-> TRUE, input_pin |-> in,
                               output_pin |-> out, action |-> action]]
        /\ bound_edge' = [bound_edge EXCEPT ![in.pin] = t]
    BY <1>4 DEF BindStep, IrqBind, extiVars
  <2> QED
    BY <2>1, <2>2, PinFields
       DEF TypeOK, ArmedHasCallback, BindingArmed, LineTrigger
<1>5. ASSUME NEW p \in Pin, UnbindStep(p)
      PROVE  ArmedHasCallback' /\ BindingArmed'
  BY <1>5, PinFields
     DEF UnbindStep, IrqUnbind, ClearBinding, extiVars, TypeOK, NoBinding,
         ArmedHasCallback, BindingArmed, LineTrigger
<1> QED BY <1>1, <1>2, <1>3, <1>4, <1>5, StepShape

(* The tables stay in step: a binding in force is always backed by an      *)
(* unmasked line of its own port, armed for exactly the bound edge.        *)
THEOREM InductiveInvariant == Spec => []IInv
<1>1. Init => ArmedHasCallback /\ BindingArmed
  BY DEF Init, ExtiInit, ArmedHasCallback, BindingArmed, NoBinding
<1>2. TypeOK /\ ArmedHasCallback /\ BindingArmed /\ [Next]_vars => ArmedHasCallback' /\ BindingArmed'
  BY TablesStep
<1>3. QED BY <1>1, <1>2, TypeCorrect, PTL DEF Spec, IInv

(* In particular the property itself.                                      *)
THEOREM BindingsStayArmed == Spec => []BindingArmed
BY InductiveInvariant, PTL DEF IInv

(* A step leaves a line that stays bound alone.                            *)
Frozen(l) ==
  irq_bindings[l].active /\ irq_bindings'[l].active
    => /\ irq_bindings'[l] = irq_bindings[l]
       /\ exticr'[l] = exticr[l]
       /\ LineTrigger(l)' = LineTrigger(l)

LEMMA FrozenStep ==
  ASSUME TypeOK, [Next]_vars, NEW l \in Line
  PROVE  Frozen(l)
<1> USE DEF Frozen
<1>1. CASE UNCHANGED tableVars
  BY <1>1 DEF tableVars, LineTrigger
<1>2. ASSUME NEW p \in Pin, IrqCfgOff("OFF", p) PROVE Frozen(l)
  BY <1>2, PinFields DEF TypeOK, ExtiTypeOK, IrqCfgOff, GpioDeinitInterrupt,
                        ClearBinding, NoBinding, LineTrigger
<1>3. ASSUME NEW p \in Pin, NEW t \in Trigger, ArmStep(t, p) PROVE Frozen(l)
  BY <1>3, PinFields DEF ArmStep, TypeOK, ExtiTypeOK, IrqCfgArm, GpioInitInterrupt,
                        ClearBinding, NoBinding, LineTrigger
<1>4. ASSUME NEW in \in Pin, NEW out \in Pin, NEW t \in Trigger,
             NEW action \in Action, BindStep(t, in, action, out)
      PROVE  Frozen(l)
  BY <1>4, PinFields DEF BindStep, IrqBind, IrqBindStatus, extiVars, TypeOK,
                        LineTrigger
<1>5. ASSUME NEW p \in Pin, UnbindStep(p) PROVE Frozen(l)
  BY <1>5, PinFields DEF UnbindStep, IrqUnbind, ClearBinding, extiVars, TypeOK,
                        NoBinding, LineTrigger
<1> QED BY <1>1, <1>2, <1>3, <1>4, <1>5, StepShape

(* A bound line is frozen: neither the binding nor the port or trigger of  *)
(* its line changes while it stays bound.                                  *)
THEOREM BoundLinesAreFrozen == Spec => BoundLineFrozen
<1>1. TypeOK /\ [Next]_vars => [\A l \in Line : Frozen(l)]_vars
  BY FrozenStep
<1> QED BY <1>1, TypeCorrect, PTL DEF Spec, BoundLineFrozen, Frozen

(* A step does not move an armed line to another port.                     *)
LEMMA StolenStep ==
  ASSUME TypeOK, [Next]_vars, NEW l \in Line, l \in imr, l \in imr'
  PROVE  exticr'[l] = exticr[l]
<1>1. CASE UNCHANGED tableVars
  BY <1>1 DEF tableVars
<1>2. ASSUME NEW p \in Pin, IrqCfgOff("OFF", p) PROVE exticr'[l] = exticr[l]
  BY <1>2, PinFields DEF TypeOK, ExtiTypeOK, IrqCfgOff, GpioDeinitInterrupt
<1>3. ASSUME NEW p \in Pin, NEW t \in Trigger, ArmStep(t, p)
      PROVE  exticr'[l] = exticr[l]
  <2>1. ~ LineIsTaken(p)
    BY <1>3 DEF ArmStep, InitInterruptStatus
  <2> QED
    BY <1>3, <2>1, PinFields
       DEF ArmStep, LineIsTaken, TypeOK, ExtiTypeOK, IrqCfgArm, GpioInitInterrupt
<1>4. ASSUME NEW in \in Pin, NEW out \in Pin, NEW t \in Trigger,
             NEW action \in Action, BindStep(t, in, action, out)
      PROVE  exticr'[l] = exticr[l]
  BY <1>4 DEF BindStep, IrqBind, extiVars
<1>5. ASSUME NEW p \in Pin, UnbindStep(p) PROVE exticr'[l] = exticr[l]
  BY <1>5 DEF UnbindStep, IrqUnbind, extiVars
<1> QED BY <1>1, <1>2, <1>3, <1>4, <1>5, StepShape

(* No command takes an armed line over for another port.                   *)
THEOREM LinesAreNeverStolen == Spec => LineNeverStolen
<1>1. TypeOK /\ [Next]_vars
        => [\A l \in Line : l \in imr \cap imr' => exticr'[l] = exticr[l]]_vars
  BY StolenStep
<1> QED BY <1>1, TypeCorrect, PTL DEF Spec, LineNeverStolen

(* A step keeps the vector of an armed line enabled if no other shares it. *)
LEMMA OwnVectorStep ==
  ASSUME TypeOK, OwnVectorEnabled, [Next]_vars
  PROVE  OwnVectorEnabled'
<1> USE DEF OwnVectorEnabled
<1>1. CASE UNCHANGED tableVars
  BY <1>1 DEF tableVars
<1>2. ASSUME NEW p \in Pin, IrqCfgOff("OFF", p) PROVE OwnVectorEnabled'
  BY <1>2, PinFields DEF TypeOK, ExtiTypeOK, IrqCfgOff, GpioDeinitInterrupt
<1>3. ASSUME NEW p \in Pin, NEW t \in Trigger, ArmStep(t, p)
      PROVE  OwnVectorEnabled'
  BY <1>3, PinFields DEF ArmStep, TypeOK, ExtiTypeOK, IrqCfgArm, GpioInitInterrupt
<1>4. ASSUME NEW in \in Pin, NEW out \in Pin, NEW t \in Trigger,
             NEW action \in Action, BindStep(t, in, action, out)
      PROVE  OwnVectorEnabled'
  BY <1>4 DEF BindStep, IrqBind, extiVars
<1>5. ASSUME NEW p \in Pin, UnbindStep(p) PROVE OwnVectorEnabled'
  BY <1>5 DEF UnbindStep, IrqUnbind, extiVars
<1> QED BY <1>1, <1>2, <1>3, <1>4, <1>5, StepShape

(* A line that shares its vector with no other can be served as long as it *)
(* is armed.                                                               *)
THEOREM OwnVectorsStayEnabled == Spec => []OwnVectorEnabled
<1>1. Init => OwnVectorEnabled
  BY DEF Init, ExtiInit, OwnVectorEnabled
<1>2. TypeOK /\ OwnVectorEnabled /\ [Next]_vars => OwnVectorEnabled'
  BY OwnVectorStep
<1> QED BY <1>1, <1>2, TypeCorrect, PTL DEF Spec

(* What a call of gpio_set_state or gpio_toggle can move.                  *)
LEMMA DriveMoves ==
  ASSUME TypeOK, NEW p \in Pin, NEW v, GpioDrive(p, v), NEW q \in Pin, odr'[q] # odr[q]
  PROVE  q = p /\ IsPinAnOutput(q) /\ IsValidPin(q)
<1>1. CASE DriveStatus(p) = "OK"
  <2>1. odr' = [odr EXCEPT ![p] = v] /\ odr \in [Pin -> BOOLEAN]
    BY <1>1 DEF GpioDrive, TypeOK, PinsTypeOK
  <2>2. q = p
    BY <2>1
  <2>3. IsPinAnOutput(p) /\ IsValidPin(p)
    BY <1>1 DEF DriveStatus
  <2> QED BY <2>2, <2>3
<1>2. CASE DriveStatus(p) # "OK"
  BY <1>2 DEF GpioDrive
<1> QED BY <1>1, <1>2

LatchMayMove(p) ==
  /\ IsPinAnOutput(p) /\ IsValidPin(p)
  /\ reply' = "OK" \/ \E l \in (isr \ isr') \cap pr \cap irq_callbacks :
                       irq_bindings[l].active /\ irq_bindings[l].output_pin = p

(* A step moves a latch only for a reason, and only that of an output.     *)
LEMMA LatchStep ==
  ASSUME TypeOK, [Next]_vars, NEW q \in Pin, odr'[q] # odr[q]
  PROVE  LatchMayMove(q)
<1>1. CASE UNCHANGED odr
  BY <1>1
<1>2. ASSUME NEW p \in WirePin, Toggle(p) PROVE LatchMayMove(q)
  <2>1. CASE ToggleStatus(p) # "OK"
    BY <1>1, <1>2, <2>1 DEF Toggle, RespondOnly, deviceVars
  <2>2. CASE ToggleStatus(p) = "OK"
    <3>1. p \in Pin
      BY <2>2 DEF ToggleStatus, WirePin
    <3>2. GpioDrive(p, ~ odr[p]) /\ reply' = "OK"
      BY <1>2, <2>2 DEF Toggle, Respond
    <3> QED BY <3>1, <3>2, DriveMoves DEF LatchMayMove
  <2> QED BY <2>1, <2>2
<1>3. ASSUME NEW p \in WirePin, NEW level \in WireLevel, Write(level, p)
      PROVE  LatchMayMove(q)
  <2>1. CASE WriteStatus(level, p) # "OK"
    BY <1>1, <1>3, <2>1 DEF Write, RespondOnly, deviceVars
  <2>2. CASE WriteStatus(level, p) = "OK"
    <3>1. p \in Pin
      BY <2>2 DEF WriteStatus, WirePin
    <3>2. GpioDrive(p, level = "HIGH") /\ reply' = "OK"
      BY <1>3, <2>2 DEF Write, Respond
    <3> QED BY <3>1, <3>2, DriveMoves DEF LatchMayMove
  <2> QED BY <2>1, <2>2
<1>4. ASSUME NEW l \in Line, ServeLine(l) PROVE LatchMayMove(q)
  <2>1. l \in pr \cap irq_callbacks /\ IrqActionDispatch(l)
    BY <1>1, <1>4 DEF ServeLine
  <2> DEFINE level == \/ irq_bindings[l].action = "HIGH"
                      \/ irq_bindings[l].action = "TOGGLE" /\ ~ odr[irq_bindings[l].output_pin]
  <2>2. irq_bindings[l].active /\ GpioDrive(irq_bindings[l].output_pin, level)
    BY <1>1, <2>1 DEF IrqActionDispatch
  <2>3. irq_bindings[l].output_pin \in Pin
    <3>1. irq_bindings[l] \in ActiveBinding \cup {NoBinding}
      BY DEF TypeOK
    <3>2. irq_bindings[l] # NoBinding
      BY <2>2 DEF NoBinding
    <3> QED BY <3>1, <3>2 DEF ActiveBinding
  <2> HIDE DEF level
  <2>4. q = irq_bindings[l].output_pin /\ IsPinAnOutput(q) /\ IsValidPin(q)
    BY <2>2, <2>3, DriveMoves
  <2>5. l \in isr \ isr'
    BY <1>4 DEF ServeLine
  <2> QED BY <2>1, <2>2, <2>4, <2>5 DEF LatchMayMove
<1>5. CASE BadLength \/ EnterHandler \/ \E l \in Line : LineEdge(l)
  BY <1>1, <1>5 DEF BadLength, EnterHandler, LineEdge, RespondOnly, deviceVars, pinVars
<1>6. ASSUME NEW p \in WirePin, Read(p) \/ IrqUnbind(p) \/ \E dir \in WireDirection : IoCfg(dir, p)
      PROVE  LatchMayMove(q)
  BY <1>1, <1>6 DEF Read, IrqUnbind, IoCfg, RespondOnly, deviceVars, pinVars
<1>7. ASSUME NEW p \in WirePin, NEW edge \in WireEdge, IrqCfg(edge, p) PROVE LatchMayMove(q)
  BY <1>1, <1>7 DEF IrqCfg, IrqCfgRefused, IrqCfgOff, IrqCfgArm, RespondOnly, deviceVars, pinVars
<1>8. ASSUME NEW in \in WirePin, NEW edge \in WireEdge, NEW action \in WireAction,
             NEW out \in WirePin, IrqBind(edge, in, action, out)
      PROVE  LatchMayMove(q)
  BY <1>1, <1>8 DEF IrqBind, RespondOnly, deviceVars, pinVars
<1> QED
  BY <1>1, <1>2, <1>3, <1>4, <1>5, <1>6, <1>7, <1>8 DEF Next, Command, Handler, vars, deviceVars

(* A latch moves only for an accepted command or for an edge on a line     *)
(* bound to its pin, and only while that pin is an output: a binding whose *)
(* output the host has since made an input is idle, whatever happened      *)
(* between.                                                                *)
THEOREM OnlyOutputsEverMove == Spec => OnlyOutputsMove
<1>1. TypeOK /\ [Next]_vars
        => [\A p \in Pin : odr'[p] # odr[p] => LatchMayMove(p)]_vars
  BY LatchStep
<1> QED BY <1>1, TypeCorrect, PTL DEF Spec, OnlyOutputsMove, LatchMayMove
-----------------------------------------------------------------------------
(* The service state of a line depends on the tables alone.                *)
LEMMA SameTablesSameLines ==
  ASSUME UNCHANGED tableVars
  PROVE  [l \in Line |-> LineState(l)]' = [l \in Line |-> LineState(l)]
BY DEF tableVars, LineState, LineTrigger

(* A step is one of the interrupt service or leaves its state alone.       *)
LEMMA ServiceStep ==
  ASSUME IInv, [Next]_vars
  PROVE  IL!Next \/ UNCHANGED <<[l \in Line |-> LineState(l)], odr, isr>>
<1> DEFINE L == [l \in Line |-> LineState(l)]
<1> USE DEF IL!Trigger, IL!Off, IL!Armed, IL!Bound
<1>t. TypeOK /\ BindingArmed
  BY DEF IInv
<1>1. ASSUME UNCHANGED deviceVars, UNCHANGED isr
      PROVE  UNCHANGED <<L, odr, isr>>
  BY <1>1, SameTablesSameLines DEF deviceVars, tableVars, extiVars, bindVars
<1>2. ASSUME NEW p \in WirePin, NEW v, p \in Pin, GpioDrive(p, v), v \in BOOLEAN,
             Respond("OK"), UNCHANGED <<moder, extiVars, bindVars>>
      PROVE  IL!Next \/ UNCHANGED <<L, odr, isr>>
  <2>1. UNCHANGED L
    BY <1>2, SameTablesSameLines DEF tableVars, extiVars, bindVars
  <2>2. CASE DriveStatus(p) = "OK"
    <3>1. IL!Drive(p, v)
      BY <1>2, <2>1, <2>2 DEF IL!Drive, GpioDrive, Respond, MainRuns
    <3> QED BY <1>2, <3>1 DEF IL!Next
  <2>3. CASE DriveStatus(p) # "OK"
    BY <1>2, <2>1, <2>3 DEF GpioDrive, Respond
  <2> QED BY <2>2, <2>3
<1>3. CASE BadLength
  BY <1>1, <1>3 DEF BadLength, RespondOnly, Respond
<1>4. ASSUME NEW p \in WirePin, Read(p) PROVE UNCHANGED <<L, odr, isr>>
  BY <1>1, <1>4 DEF Read, RespondOnly, Respond
<1>5. ASSUME NEW p \in WirePin, Toggle(p)
      PROVE  IL!Next \/ UNCHANGED <<L, odr, isr>>
  <2>1. CASE ToggleStatus(p) # "OK"
    BY <1>1, <1>5, <2>1 DEF Toggle, RespondOnly, Respond
  <2>2. CASE ToggleStatus(p) = "OK"
    <3>1. p \in Pin
      BY <2>2 DEF ToggleStatus, WirePin
    <3>2. (~ odr[p]) \in BOOLEAN
      BY <3>1, <1>t DEF TypeOK, PinsTypeOK
    <3> QED BY <1>2, <1>5, <2>2, <3>1, <3>2 DEF Toggle
  <2> QED BY <2>1, <2>2
<1>6. ASSUME NEW p \in WirePin, NEW level \in WireLevel, Write(level, p)
      PROVE  IL!Next \/ UNCHANGED <<L, odr, isr>>
  <2>1. CASE WriteStatus(level, p) # "OK"
    BY <1>1, <1>6, <2>1 DEF Write, RespondOnly, Respond
  <2>2. CASE WriteStatus(level, p) = "OK"
    <3>1. p \in Pin
      BY <2>2 DEF WriteStatus, WirePin
    <3> QED BY <1>2, <1>6, <2>2, <3>1 DEF Write
  <2> QED BY <2>1, <2>2
<1>7. ASSUME NEW p \in WirePin, NEW dir \in WireDirection, IoCfg(dir, p)
      PROVE  UNCHANGED <<L, odr, isr>>
  <2>1. CASE IoCfgStatus(dir, p) # "OK"
    BY <1>1, <1>7, <2>1 DEF IoCfg, RespondOnly, Respond
  <2>2. CASE IoCfgStatus(dir, p) = "OK"
    BY <1>7, <2>2, SameTablesSameLines
       DEF IoCfg, Respond, tableVars, extiVars, bindVars
  <2> QED BY <2>1, <2>2
<1>8. ASSUME NEW p \in Pin, IrqCfgOff("OFF", p) PROVE IL!Next
  <2>1. IL!Disarm(p.pin)
    BY <1>8, <1>t, PinFields
       DEF IL!Disarm, IL!Change, IrqCfgOff, Respond, MainRuns, ClearBinding,
           GpioDeinitInterrupt, LineState, LineTrigger, TypeOK, ExtiTypeOK,
           NoBinding, pinVars
  <2> QED BY <2>1, PinFields DEF IL!Next
<1>9. ASSUME NEW p \in Pin, NEW t \in Trigger, ArmStep(t, p) PROVE IL!Next
  <2>1. L[p.pin] # [mode |-> "OFF"] => L[p.pin].port = p.port
    BY <1>9, <1>t, PinFields
       DEF ArmStep, InitInterruptStatus, LineIsTaken, LineState, BindingArmed
  <2>2. L' = [L EXCEPT ![p.pin] = [mode |-> "ARMED", port |-> p.port, trigger |-> t]]
    BY <1>9, <1>t, PinFields
       DEF ArmStep, IrqCfgArm, ClearBinding, GpioInitInterrupt, LineState,
           LineTrigger, Trigger, TypeOK, ExtiTypeOK, NoBinding
  <2>3. IL!Arm(p.pin, p.port, t)
    BY <1>9, <2>1, <2>2
       DEF IL!Arm, IL!Change, ArmStep, IrqCfgArm, Respond, MainRuns, pinVars
  <2> QED BY <2>3, PinFields DEF IL!Next, Trigger
<1>10. ASSUME NEW in \in Pin, NEW out \in Pin, NEW t \in Trigger,
              NEW action \in Action, BindStep(t, in, action, out)
       PROVE  IL!Next
  <2>1. L[in.pin] = [mode |-> "ARMED", port |-> in.port, trigger |-> t]
    BY <1>10, PinFields
       DEF BindStep, IrqBindStatus, InterruptTrigger, LineState, Trigger
  <2>2. L' = [L EXCEPT ![in.pin] =
                [mode |-> "BOUND", port |-> in.port, trigger |-> t,
                 out |-> out, action |-> action]]
    <3>1. /\ UNCHANGED <<exticr, imr, rtsr, ftsr>>
          /\ exticr[in.pin] = in.port
          /\ irq_bindings' = [irq_bindings EXCEPT ![in.pin] =
                                [active |-> TRUE, input_pin |-> in,
                                 output_pin |-> out, action |-> action]]
          /\ bound_edge' = [bound_edge EXCEPT ![in.pin] = t]
      BY <1>10 DEF BindStep, IrqBind, IrqBindStatus, InterruptTrigger, extiVars, Trigger
    <3>2. LineState(in.pin)' = [mode |-> "BOUND", port |-> in.port, trigger |-> t,
                                out |-> out, action |-> action]
      BY <3>1, <1>t, PinFields DEF LineState, TypeOK
    <3>3. \A l \in Line : l # in.pin => LineState(l)' = LineState(l)
      BY <3>1, <1>t, PinFields DEF LineState, LineTrigger, TypeOK
    <3> QED BY <3>2, <3>3, PinFields
  <2>3. IL!Bind(in.pin, out, action)
    BY <1>10, <2>1, <2>2
       DEF IL!Bind, IL!Change, BindStep, IrqBind, Respond, MainRuns, pinVars
  <2> QED BY <2>3, PinFields DEF IL!Next, Action
<1>11. ASSUME NEW p \in Pin, UnbindStep(p) PROVE IL!Next
  <2>1. L[p.pin].mode = "BOUND"
    BY <1>11, PinFields DEF UnbindStep, IrqUnbindStatus, IsBoundPin, LineState
  <2>2. L' = [L EXCEPT ![p.pin] = [mode |-> "ARMED", port |-> L[p.pin].port,
                                   trigger |-> L[p.pin].trigger]]
    BY <1>11, <1>t, PinFields
       DEF UnbindStep, IrqUnbind, IrqUnbindStatus, IsBoundPin, ClearBinding,
           LineState, LineTrigger, TypeOK, BindingArmed, NoBinding, extiVars
  <2>3. IL!Unbind(p.pin)
    BY <1>11, <2>1, <2>2
       DEF IL!Unbind, IL!Change, UnbindStep, IrqUnbind, Respond, MainRuns, pinVars
  <2> QED BY <2>3, PinFields DEF IL!Next
<1>12. CASE EnterHandler
  <2>1. UNCHANGED L
    BY <1>12, SameTablesSameLines
       DEF EnterHandler, deviceVars, tableVars, extiVars, bindVars
  <2>2. IL!Enter(isr')
    BY <1>12, <2>1 DEF IL!Enter, EnterHandler, deviceVars
  <2>3. isr' \in SUBSET Line
    BY <1>12 DEF EnterHandler
  <2> QED BY <2>2, <2>3 DEF IL!Next
<1>13. ASSUME NEW l \in Line, ServeLine(l) PROVE IL!Next
  <2>1. UNCHANGED L
    BY <1>13, SameTablesSameLines DEF ServeLine, tableVars, bindVars
  <2>2. \/ UNCHANGED odr
        \/ /\ L[l].mode = "BOUND"
           /\ odr' = [odr EXCEPT ![L[l].out] = IL!ActionLevel(L[l])]
    BY <1>13 DEF ServeLine, IrqActionDispatch, GpioDrive, LineState, IL!ActionLevel
  <2>3. IL!Serve(l)
    BY <1>13, <2>1, <2>2 DEF IL!Serve, ServeLine
  <2> QED BY <2>3 DEF IL!Next
<1>14. ASSUME NEW l \in Line, LineEdge(l) PROVE UNCHANGED <<L, odr, isr>>
  BY <1>14, SameTablesSameLines DEF LineEdge, pinVars, tableVars, bindVars
<1>15. CASE UNCHANGED vars
  BY <1>1, <1>15 DEF vars
<1> QED
  <2>1. ASSUME NEW p \in WirePin, IrqUnbind(p)
        PROVE  IL!Next \/ UNCHANGED <<L, odr, isr>>
    BY <1>1, <1>11, <2>1
       DEF UnbindStep, IrqUnbind, IrqUnbindStatus, RespondOnly, Respond, WirePin
  <2>2. ASSUME NEW p \in WirePin, NEW edge \in WireEdge, IrqCfg(edge, p)
        PROVE  IL!Next \/ UNCHANGED <<L, odr, isr>>
    <3>1. CASE IrqCfgRefused(edge, p)
      BY <1>1, <3>1 DEF IrqCfgRefused, RespondOnly, Respond
    <3>2. CASE IrqCfgOff(edge, p)
      BY <1>8, <3>2 DEF IrqCfgOff, IrqCfgStatus, WirePin
    <3>3. CASE IrqCfgArm(edge, p)
      BY <1>9, <3>3 DEF IrqCfgArm, IrqCfgStatus, ArmStep, WirePin
    <3> QED BY <2>2, <3>1, <3>2, <3>3 DEF IrqCfg
  <2>3. ASSUME NEW in \in WirePin, NEW edge \in WireEdge, NEW action \in WireAction,
               NEW out \in WirePin, IrqBind(edge, in, action, out)
        PROVE  IL!Next \/ UNCHANGED <<L, odr, isr>>
    BY <1>1, <1>10, <2>3
       DEF BindStep, IrqBind, IrqBindStatus, RespondOnly, Respond, WirePin
  <2> QED
    BY <1>3, <1>4, <1>5, <1>6, <1>7, <1>12, <1>13, <1>14, <1>15, <2>1, <2>2, <2>3
       DEF Next, Command, Handler

(* The registers, the binding table and the handlers implement the         *)
(* interrupt service: what a line is to the host changes only as IrqLines  *)
(* allows, and a handler moves no output but its bound line's.             *)
THEOREM ServiceIsImplemented == Spec => ImplementsIrqLines
<1>1. Init => IL!Init
  BY DEF Init, ExtiInit, PinsInit, IL!Init, LineState, NoBinding, IL!Off
<1>2. IInv /\ [Next]_vars => [IL!Next]_IL!lineVars
  BY ServiceStep DEF IL!lineVars
<1> QED BY <1>1, <1>2, InductiveInvariant, PTL DEF Spec, IL!Spec, ImplementsIrqLines
-----------------------------------------------------------------------------
(* GPIO and PWM commands together.  What TimerProofs shows of a step of    *)
(* the timer driver needs nothing to be known of the pins, so it holds     *)
(* here too; the half of that module about retuning is not used, and any   *)
(* variable will do for its own two.                                       *)
T == INSTANCE TimerProofs WITH call <- reply, asked <- reply

FwInv == TypeOK /\ ArmedHasCallback /\ BindingArmed /\ OwnVectorEnabled
           /\ T!TimersSound /\ AfHasOwner

LEMMA TimerAssumptions == T!PinAssumption /\ T!TimerAssumption /\ T!PwmWireAssumption
BY PinAssumption, WireAssumption, PwmAssumption
   DEF T!PinAssumption, T!MaxPinCount, MaxPinCount, T!TimerAssumption, T!PwmWireAssumption

(* A PWM command or the end of a period is a step of PwmController.        *)
LEMMA PwmStepIsTimerStep ==
  ASSUME PwmCommand \/ \E i \in Instance : PwmPeriod(i)
  PROVE  T!Next
<1>1. CASE PwmCommand
  BY <1>1, Zenon
  DEF PwmCommand, T!Next, Pwm!Command, T!Command, Pwm!BadPayload,
      T!BadPayload, Pwm!GroupCfg, T!GroupCfg, Pwm!GroupCfgStatus,
      T!GroupCfgStatus, Pwm!GroupRelease, T!GroupRelease,
      Pwm!GroupReleaseStatus, T!GroupReleaseStatus, Pwm!GroupGet, T!GroupGet,
      Pwm!ResolveStatus, T!ResolveStatus, Pwm!Resolved, T!Resolved,
      Pwm!ChannelCfg, T!ChannelCfg, Pwm!ChannelSet, T!ChannelSet,
      Pwm!ClaimedStatus, T!ClaimedStatus, Pwm!ChannelRelease,
      T!ChannelRelease, Pwm!ChannelGet, T!ChannelGet, Pwm!ChannelCommand,
      T!ChannelCommand, Pwm!Respond, T!Respond, Pwm!RespondOnly,
      T!RespondOnly, Pwm!WirePin, T!WirePin, Pwm!WireGroup, T!WireGroup,
      Pwm!InitStatus, T!InitStatus, Pwm!Reachable, T!Reachable, Pwm!Frequency,
      T!Frequency, Pwm!TimerInit, T!TimerInit, Pwm!TimerStart, T!TimerStart,
      Pwm!ReleaseChannels, T!ReleaseChannels, Pwm!TimerDeinit, T!TimerDeinit,
      Pwm!ReleasePins, T!ReleasePins, Pwm!ChannelInitStatus,
      T!ChannelInitStatus, Pwm!ChannelInit, T!ChannelInit, Pwm!SetDutyStatus,
      T!SetDutyStatus, Pwm!SetDuty, T!SetDuty, Pwm!LoadShadowIfStopped,
      T!LoadShadowIfStopped, Pwm!Preload, T!Preload, Pwm!DutyToCompare,
      T!DutyToCompare, Pwm!Ticks, T!Ticks, Pwm!Prescaler, T!Prescaler,
      Pwm!Reload, T!Reload, Pwm!GpioInit, T!GpioInit, Pwm!GpioDeinit,
      T!GpioDeinit, Pwm!IsPinAnInput, T!IsPinAnInput, Pwm!IsPinAnOutput,
      T!IsPinAnOutput, Pwm!IsPinAnAf, T!IsPinAnAf
<1>2. ASSUME NEW i \in Instance, PwmPeriod(i)
      PROVE  T!Next
  BY <1>2, Zenon
  DEF PwmPeriod, Pwm!EndOfPeriod, Pwm!UpdateEvent, Pwm!Preload, Pwm!Silent,
      T!Next, T!EndOfPeriod, T!UpdateEvent, T!Preload, T!Silent
<1> QED
  BY <1>1, <1>2

(* Such a step takes a pin nobody uses for a channel, gives the pins of    *)
(* channels back, or leaves pins and claims alone.                         *)
TakesPin(i, c) ==
  /\ moder[PinOf[<<i, c>>]] \notin {"INPUT", "OUTPUT", "AF"}
  /\ moder' = [moder EXCEPT ![PinOf[<<i, c>>]] = "AF"]
  /\ tim'[i].configured = tim[i].configured \cup {c}
  /\ \A j \in Instance : j # i => tim'[j] = tim[j]

GivesPins(i, C) ==
  /\ moder' = [p \in Pin |-> IF p \in {PinOf[<<i, c>>] : c \in C} THEN "INPUT" ELSE moder[p]]
  /\ tim'[i].configured = tim[i].configured \ C
  /\ \A j \in Instance : j # i => tim'[j] = tim[j]

LeavesPins ==
  /\ moder' = moder
  /\ \A j \in Instance : tim'[j].configured = tim[j].configured

ClaimsMove ==
  \/ LeavesPins
  \/ \E i \in Instance, c \in Channel : TakesPin(i, c)
  \/ \E i \in Instance : \E C \in SUBSET tim[i].configured : GivesPins(i, C)

(* It leaves the timers sound, and a group that stays up on its time base. *)
LEMMA PwmStepShape ==
  ASSUME TypeOK, T!TimersSound, PwmCommand \/ \E i \in Instance : PwmPeriod(i)
  PROVE  /\ T!TimersSound'
         /\ \A i \in Instance : T!SameBase(tim[i], tim'[i])
         /\ ClaimsMove
         /\ UNCHANGED <<odr, extiVars, bindVars, isr>>
         /\ reply' \in Status \cup {Silent}
<1>1. T!PinAssumption /\ T!TimerAssumption /\ T!PwmWireAssumption
  BY TimerAssumptions
<1>2. T!TypeOK
  BY DEF TypeOK, PinsTypeOK, Mode, Status, Silent, T!TypeOK, T!PinsTypeOK,
         T!TimTypeOK, T!TimersSound, T!Mode, T!Status, T!Silent
<1>3. [T!Next]_T!vars
  BY PwmStepIsTimerStep
<1>4. T!TimersSound' /\ \A i \in Instance : T!SameBase(tim[i], tim'[i])
  BY <1>1, <1>2, <1>3, T!TimersStaySound
<1>5. ClaimsMove
  <2>1. CASE UNCHANGED <<moder, tim>>
    BY <2>1 DEF ClaimsMove, LeavesPins
  <2>2. ASSUME NEW i \in Instance, NEW t \in T!Timer, tim' = [tim EXCEPT ![i] = t],
               T!ClaimsBecome(i, t.configured)
        PROVE  ClaimsMove
    <3>1. tim'[i] = t /\ \A j \in Instance : j # i => tim'[j] = tim[j]
      BY <2>2 DEF T!TimersSound
    <3>2. CASE UNCHANGED moder /\ t.configured = tim[i].configured
      BY <3>1, <3>2 DEF ClaimsMove, LeavesPins
    <3>3. ASSUME NEW c \in Channel, T!ChannelInitStatus(i, c) = "OK",
                 T!GpioInit(PinOf[<<i, c>>], "AF"),
                 t.configured = tim[i].configured \cup {c}
          PROVE  ClaimsMove
      <4>1. moder[PinOf[<<i, c>>]] \notin {"INPUT", "OUTPUT", "AF"}
        BY <3>3 DEF T!ChannelInitStatus, T!IsPinAnInput, T!IsPinAnOutput, T!IsPinAnAf
      <4>2. TakesPin(i, c)
        BY <3>1, <3>3, <4>1 DEF TakesPin, T!GpioInit
      <4> QED
        BY <4>2 DEF ClaimsMove
    <3>4. ASSUME NEW C \in SUBSET tim[i].configured, T!ReleasePins(i, C),
                 t.configured = tim[i].configured \ C
          PROVE  ClaimsMove
      <4>1. GivesPins(i, C)
        BY <3>1, <3>4 DEF GivesPins, T!ReleasePins, T!GpioDeinit
      <4> QED
        BY <4>1 DEF ClaimsMove
    <3> QED
      BY <2>2, <3>2, <3>3, <3>4 DEF T!ClaimsBecome
  <2> QED
    BY <1>1, <1>2, <1>3, <2>1, <2>2, T!TimerStep
<1>6. odr' = odr /\ reply' \in Status \cup {Silent}
  BY <1>1, <1>2, <1>3, T!StepShape DEF T!Status, T!Silent, Status, Silent
<1> QED
  BY <1>4, <1>5, <1>6 DEF PwmCommand, PwmPeriod

(* A step of the GPIO side changes no mode unless it is an accepted IO_CFG *)
(* and then sets the one the host asked for.                               *)
Sets(p, dir) == IoCfg(dir, p) /\ reply' = "OK" /\ moder' = [moder EXCEPT ![p] = dir]

LEMMA GpioModeStep ==
  ASSUME TypeOK, [Next]_vars
  PROVE  moder' = moder \/ \E p \in Pin, dir \in Direction : Sets(p, dir)
<1>1. CASE BadLength
  BY <1>1 DEF BadLength, RespondOnly, deviceVars
<1>2. ASSUME NEW p \in WirePin, \/ Read(p) \/ Toggle(p) \/ IrqUnbind(p)
      PROVE  moder' = moder
  BY <1>2 DEF Read, Toggle, IrqUnbind, RespondOnly, deviceVars, pinVars
<1>3. ASSUME NEW p \in WirePin, NEW dir \in WireDirection, IoCfg(dir, p)
      PROVE  \/ moder' = moder
             \/ p \in Pin /\ dir \in Direction /\ Sets(p, dir)
  BY <1>3 DEF IoCfg, IoCfgStatus, Respond, RespondOnly, deviceVars, GpioInit, WirePin, Sets
<1>4. ASSUME NEW p \in WirePin, NEW level \in WireLevel, Write(level, p)
      PROVE  moder' = moder
  BY <1>4 DEF Write, RespondOnly, deviceVars
<1>5. ASSUME NEW p \in WirePin, NEW edge \in WireEdge, IrqCfg(edge, p)
      PROVE  moder' = moder
  BY <1>5 DEF IrqCfg, IrqCfgRefused, IrqCfgOff, IrqCfgArm, RespondOnly, deviceVars, pinVars
<1>6. ASSUME NEW in \in WirePin, NEW edge \in WireEdge, NEW action \in WireAction,
             NEW out \in WirePin, IrqBind(edge, in, action, out)
      PROVE  moder' = moder
  BY <1>6 DEF IrqBind, RespondOnly, deviceVars, pinVars
<1>7. CASE Handler
  BY <1>7 DEF Handler, EnterHandler, ServeLine, deviceVars
<1>8. ASSUME NEW l \in Line, LineEdge(l) PROVE moder' = moder
  BY <1>8 DEF LineEdge, pinVars
<1>9. CASE UNCHANGED vars
  BY <1>9 DEF vars, deviceVars
<1> QED
  BY <1>1, <1>2, <1>3, <1>4, <1>5, <1>6, <1>7, <1>8, <1>9 DEF Next, Command

LEMMA FwInit_Inv == FwInit => FwInv
<1> SUFFICES ASSUME FwInit PROVE FwInv
  OBVIOUS
<1>1. TypeOK
  BY PinAssumption, PortAAssumption
     DEF FwInit, Init, TypeOK, PinsInit, PinsTypeOK, ExtiInit, ExtiTypeOK, Mode, Silent
<1>2. ArmedHasCallback /\ BindingArmed /\ OwnVectorEnabled
  BY DEF FwInit, Init, ExtiInit, ArmedHasCallback, BindingArmed, OwnVectorEnabled, NoBinding
<1>3. T!TimersSound
  <2>1. T!TimInit
    BY DEF FwInit, Pwm!TimInit, T!TimInit, Pwm!AllZero, T!AllZero,
           Pwm!ResetRegisters, T!ResetRegisters
  <2>2. \A i \in Instance : T!Sound(tim[i])
    BY <2>1, TimerAssumptions, T!SoundInit
  <2> QED
    BY <2>1, <2>2 DEF T!TimInit, T!TimersSound, T!Sound
<1>4. AfHasOwner
  BY DEF FwInit, Init, PinsInit, AfHasOwner, IsPinAnAf
<1> QED
  BY <1>1, <1>2, <1>3, <1>4 DEF FwInv

(* What a PWM command does with the modes and the claims keeps every pin   *)
(* in alternate function owned.                                            *)
LEMMA PwmKeepsOwners ==
  ASSUME TypeOK, T!TimersSound, AfHasOwner,
         PwmCommand \/ \E i \in Instance : PwmPeriod(i)
  PROVE  AfHasOwner' /\ moder' \in [Pin -> Mode]
<1>0. moder \in [Pin -> Mode]
  BY DEF TypeOK, PinsTypeOK
<1>1. CASE LeavesPins
  BY <1>0, <1>1 DEF LeavesPins, AfHasOwner, Claimed, IsPinAnAf
<1>2. ASSUME NEW i \in Instance, NEW c \in Channel, TakesPin(i, c)
      PROVE  AfHasOwner' /\ moder' \in [Pin -> Mode]
  <2>1. \A j \in Instance : tim[j].configured \subseteq tim'[j].configured
    BY <1>2 DEF TakesPin
  <2>2. \A p \in Pin : moder'[p] = IF p = PinOf[<<i, c>>] THEN "AF" ELSE moder[p]
    BY <1>0, <1>2 DEF TakesPin
  <2>3. c \in tim'[i].configured
    BY <1>2 DEF TakesPin
  <2>4. AfHasOwner'
    BY <2>1, <2>2, <2>3 DEF AfHasOwner, Claimed, IsPinAnAf
  <2> QED
    BY <1>0, <1>2, <2>4 DEF TakesPin, Mode
<1>3. ASSUME NEW i \in Instance, NEW C, GivesPins(i, C)
      PROVE  AfHasOwner' /\ moder' \in [Pin -> Mode]
  <2>1. ASSUME NEW p \in Pin, moder'[p] = "AF", p \notin BootAf
        PROVE  \E j \in Instance : \E c \in tim'[j].configured : PinOf[<<j, c>>] = p
    <3>1. moder[p] = "AF" /\ p \notin {PinOf[<<i, c>>] : c \in C}
      BY <1>3, <2>1 DEF GivesPins
    <3>2. PICK j \in Instance : \E c \in tim[j].configured : PinOf[<<j, c>>] = p
      BY <2>1, <3>1 DEF AfHasOwner, Claimed, IsPinAnAf
    <3>3. PICK c \in tim[j].configured : PinOf[<<j, c>>] = p
      BY <3>2
    <3>4. c \in tim'[j].configured
      BY <1>3, <3>1, <3>3 DEF GivesPins
    <3> QED
      BY <3>3, <3>4
  <2>2. AfHasOwner'
    BY <2>1 DEF AfHasOwner, Claimed, IsPinAnAf
  <2> QED
    BY <1>0, <1>3, <2>2 DEF GivesPins, Mode
<1> QED
  BY <1>1, <1>2, <1>3, PwmStepShape DEF ClaimsMove

LEMMA FwStep_Inv == FwInv /\ [FwNext]_fwVars => FwInv'
<1> SUFFICES ASSUME FwInv, [FwNext]_fwVars PROVE FwInv'
  OBVIOUS
<1>t. TypeOK /\ ArmedHasCallback /\ BindingArmed /\ OwnVectorEnabled
        /\ T!TimersSound /\ AfHasOwner
  BY DEF FwInv
<1>1. CASE [Next]_vars /\ UNCHANGED tim
  <2>1. TypeOK' /\ ArmedHasCallback' /\ BindingArmed' /\ OwnVectorEnabled'
    BY <1>t, <1>1, TypeStep, TablesStep, OwnVectorStep
  <2>2. T!TimersSound'
    BY <1>t, <1>1 DEF T!TimersSound
  <2>3. AfHasOwner'
    <3>1. \A p \in Pin : moder'[p] = "AF" => moder[p] = "AF"
      BY <1>t, <1>1, GpioModeStep DEF TypeOK, PinsTypeOK, Direction, Sets
    <3> QED
      BY <1>t, <1>1, <3>1 DEF AfHasOwner, Claimed, IsPinAnAf
  <2> QED
    BY <2>1, <2>2, <2>3 DEF FwInv
<1>2. CASE PwmCommand \/ \E i \in Instance : PwmPeriod(i)
  <2>1. /\ T!TimersSound'
        /\ UNCHANGED <<odr, extiVars, bindVars, isr>>
        /\ reply' \in Status \cup {Silent}
    BY <1>t, <1>2, PwmStepShape
  <2>2. AfHasOwner' /\ moder' \in [Pin -> Mode]
    BY <1>t, <1>2, PwmKeepsOwners
  <2>3. TypeOK'
    BY <1>t, <2>1, <2>2 DEF TypeOK, PinsTypeOK, ExtiTypeOK, extiVars, bindVars
  <2>4. ArmedHasCallback' /\ BindingArmed' /\ OwnVectorEnabled'
    BY <1>t, <2>1 DEF ArmedHasCallback, BindingArmed, OwnVectorEnabled, LineTrigger,
                      extiVars, bindVars
  <2> QED
    BY <2>1, <2>2, <2>3, <2>4 DEF FwInv
<1> QED
  BY <1>1, <1>2 DEF FwNext, GpioStep, fwVars

LEMMA FwInvariance == FwSpec => []FwInv
BY FwInit_Inv, FwStep_Inv, PTL DEF FwSpec

(* Neither controller leaves a pin in alternate function behind: such a    *)
(* pin is the debug port's, the link's or a claimed channel's.             *)
THEOREM AfAlwaysHasOwner == FwSpec => []AfHasOwner
<1>1. FwInv => AfHasOwner
  BY DEF FwInv
<1> QED
  BY <1>1, FwInvariance, PTL

(* With PWM commands in between the bindings stay armed and a vector that  *)
(* one line has to itself stays enabled.                                   *)
THEOREM GpioKeptUnderPwm == FwSpec => [](TypeOK /\ BindingArmed /\ OwnVectorEnabled)
<1>1. FwInv => TypeOK /\ BindingArmed /\ OwnVectorEnabled
  BY DEF FwInv
<1> QED
  BY <1>1, FwInvariance, PTL

(* No step of either side switches a pin that is an input or an output to  *)
(* alternate function.                                                     *)
THEOREM PwmNeverTakes == FwSpec => PwmNeverTakesFromGpio
<1>1. FwInv /\ [FwNext]_fwVars
        => [\A p \in Pin : IsPinAnInput(p) \/ IsPinAnOutput(p) => moder'[p] # "AF"]_fwVars
  <2> SUFFICES ASSUME FwInv, [FwNext]_fwVars, NEW p \in Pin,
                      moder[p] \in {"INPUT", "OUTPUT"}
               PROVE  moder'[p] # "AF"
    BY DEF IsPinAnInput, IsPinAnOutput
  <2>t. TypeOK /\ T!TimersSound /\ moder \in [Pin -> Mode]
    BY DEF FwInv, TypeOK, PinsTypeOK
  <2>1. CASE [Next]_vars
    BY <2>t, <2>1, GpioModeStep DEF Direction, Sets
  <2>2. CASE PwmCommand \/ \E i \in Instance : PwmPeriod(i)
    <3>1. ASSUME NEW i \in Instance, NEW c \in Channel, TakesPin(i, c)
          PROVE  moder'[p] # "AF"
      BY <2>t, <3>1 DEF TakesPin
    <3>2. ASSUME NEW i \in Instance, NEW C, GivesPins(i, C)
          PROVE  moder'[p] # "AF"
      BY <2>t, <3>2 DEF GivesPins
    <3>3. CASE LeavesPins
      BY <3>3 DEF LeavesPins
    <3> QED
      BY <2>t, <2>2, <3>1, <3>2, <3>3, PwmStepShape DEF ClaimsMove
  <2> QED
    BY <2>1, <2>2 DEF FwNext, GpioStep, fwVars
<1> QED
  BY <1>1, FwInvariance, PTL DEF FwSpec, PwmNeverTakesFromGpio

(* The interrupt service, its frozen bindings, its lines that no other     *)
(* port can steal and its latches that move for a reason are the same with *)
(* PWM commands in between: what PWM changes is outside of them.  In       *)
(* particular no binding reaches a pin that PWM holds.                     *)
THEOREM ServiceKeptUnderPwm ==
  FwSpec => ImplementsIrqLines /\ BoundLineFrozen /\ LineNeverStolen /\ OnlyOutputsMove
<1> DEFINE L == [l \in Line |-> LineState(l)]
           Kept == \A l \in Line : l \in imr \cap imr' => exticr'[l] = exticr[l]
           Moved == \A p \in Pin : odr'[p] # odr[p] => LatchMayMove(p)
<1>1. FwInit => IL!Init
  BY DEF FwInit, Init, ExtiInit, PinsInit, IL!Init, LineState, NoBinding, IL!Off
<1>2. FwInv /\ [FwNext]_fwVars
        => /\ [IL!Next]_IL!lineVars
           /\ [\A l \in Line : Frozen(l)]_vars
           /\ [Kept]_vars
           /\ [Moved]_vars
  <2> SUFFICES ASSUME FwInv, [FwNext]_fwVars
               PROVE  /\ IL!Next \/ UNCHANGED <<L, odr, isr>>
                      /\ \A l \in Line : Frozen(l)
                      /\ Kept
                      /\ Moved
    BY DEF IL!lineVars
  <2>t. TypeOK /\ T!TimersSound /\ IInv
    BY DEF FwInv, IInv
  <2>1. CASE [Next]_vars
    BY <2>t, <2>1, ServiceStep, FrozenStep, StolenStep, LatchStep
  <2>2. CASE PwmCommand \/ \E i \in Instance : PwmPeriod(i)
    <3>1. UNCHANGED tableVars /\ UNCHANGED <<odr, isr>>
      BY <2>t, <2>2, PwmStepShape DEF tableVars, extiVars, bindVars
    <3> QED
      BY <3>1, SameTablesSameLines DEF tableVars, Frozen, LineTrigger
  <2> QED
    BY <2>1, <2>2 DEF FwNext, GpioStep, fwVars
<1> QED
  BY <1>1, <1>2, FwInvariance, PTL
     DEF FwSpec, IL!Spec, ImplementsIrqLines, BoundLineFrozen, LineNeverStolen, Frozen,
         OnlyOutputsMove, LatchMayMove

(* GPIO commands and interrupts in between do not spoil what the PWM       *)
(* commands promise of the waveform: every compare value is the requested  *)
(* duty to within a tick, and a counter that runs is on the time base that *)
(* was configured.                                                         *)
THEOREM WaveformKeptUnderGpio == FwSpec => [](Pwm!DutyIsAccurate /\ Pwm!FirstPeriodOnTarget)
<1>1. FwInv => Pwm!DutyIsAccurate /\ Pwm!FirstPeriodOnTarget
  BY DEF FwInv, T!TimersSound, T!Sound, T!Exact, Pwm!DutyIsAccurate, Pwm!FirstPeriodOnTarget
<1> QED
  BY <1>1, FwInvariance, PTL

(* Nor does anything retune a group that stays up.                         *)
THEOREM FrequencyKeptUnderGpio == FwSpec => Pwm!FrequencyFrozen
<1> DEFINE Kept == \A i \in Instance :
       tim[i].initialized /\ tim'[i].initialized =>
         tim'[i].psc = tim[i].psc /\ tim'[i].arr = tim[i].arr
<1>1. FwInv /\ [FwNext]_fwVars => [Kept]_Pwm!vars
  <2> SUFFICES ASSUME FwInv, [FwNext]_fwVars PROVE Kept
    OBVIOUS
  <2>1. CASE UNCHANGED tim
    BY <2>1
  <2>2. CASE PwmCommand \/ \E i \in Instance : PwmPeriod(i)
    <3>1. \A i \in Instance : T!SameBase(tim[i], tim'[i])
      BY <2>2, PwmStepShape DEF FwInv
    <3> QED
      BY <3>1 DEF T!SameBase
  <2> QED
    BY <2>1, <2>2 DEF FwNext, GpioStep, fwVars
<1> QED
  BY <1>1, FwInvariance, PTL DEF FwSpec, Pwm!FrequencyFrozen

(* A channel nobody holds stays silent.  GPIO never makes a pin alternate  *)
(* function, and the pin of a channel belongs to no other and not to the   *)
(* link: its owner could only be the channel itself.                       *)
THEOREM SilenceKeptUnderGpio == FwSpec => []Pwm!UnclaimedChannelSilent
<1>1. ASSUME FwInv, NEW i \in Instance, NEW c \in Channel \ tim[i].configured
      PROVE  /\ c \notin tim[i].ccer
             /\ tim[i].ccr[c] = 0 /\ tim[i].shadow.ccr[c] = 0
             /\ moder[PinOf[<<i, c>>]] # "AF"
  <2>1. T!Sound(tim[i]) /\ \A j \in Instance : tim[j].configured \subseteq Channel
    BY <1>1 DEF FwInv, T!TimersSound, T!Timer
  <2>2. /\ PinOf[<<i, c>>] \in Pin \ BootAf
        /\ \A j \in Instance, d \in Channel :
              PinOf[<<j, d>>] = PinOf[<<i, c>>] => j = i /\ d = c
    BY PwmAssumption
  <2>3. ~ Claimed(PinOf[<<i, c>>])
    BY <2>1, <2>2 DEF Claimed
  <2>4. moder[PinOf[<<i, c>>]] # "AF"
    BY <1>1, <2>2, <2>3 DEF FwInv, AfHasOwner, IsPinAnAf
  <2> QED
    BY <2>1, <2>4 DEF T!Sound
<1>2. FwInv => Pwm!UnclaimedChannelSilent
  BY <1>1 DEF Pwm!UnclaimedChannelSilent, Pwm!IsPinAnAf
<1> QED
  BY <1>2, FwInvariance, PTL

(* The pin is all that GPIO can take from a channel: as long as the claims *)
(* keep their pins, every claimed channel drives its pin, its group up and *)
(* its counter running.  A run shows that a claim can lose its pin.        *)
THEOREM OnlyThePinCanBeLost == FwSpec => [](ClaimedPinIsKept => Pwm!ClaimedChannelDrives)
<1>1. ASSUME FwInv, ClaimedPinIsKept, NEW i \in Instance, NEW c \in tim[i].configured
      PROVE  /\ tim[i].initialized /\ tim[i].cen /\ c \in tim[i].ccer
             /\ moder[PinOf[<<i, c>>]] = "AF"
  <2>1. T!Sound(tim[i]) /\ c \in Channel
    BY <1>1 DEF FwInv, T!TimersSound, T!Timer
  <2>2. PinOf[<<i, c>>] \in Pin
    BY <2>1, PwmAssumption
  <2>3. Claimed(PinOf[<<i, c>>])
    BY DEF Claimed
  <2> QED
    BY <1>1, <2>1, <2>2, <2>3 DEF T!Sound, ClaimedPinIsKept, IsPinAnAf
<1>2. FwInv => (ClaimedPinIsKept => Pwm!ClaimedChannelDrives)
  BY <1>1 DEF Pwm!ClaimedChannelDrives, Pwm!IsPinAnAf
<1> QED
  BY <1>2, FwInvariance, PTL

(* And it is taken by one command alone: a pin that leaves alternate       *)
(* function while its claim stands has been named by an accepted IO_CFG.   *)
PinLost(p) == Claimed(p) /\ Claimed(p)' /\ IsPinAnAf(p) /\ ~ IsPinAnAf(p)'

LostToIoCfgOnly ==
  [][\A p \in Pin : PinLost(p) => reply' = "OK" /\ \E dir \in Direction : IoCfg(dir, p)]_fwVars

THEOREM PinsAreLostToIoCfgOnly == FwSpec => LostToIoCfgOnly
<1>1. ASSUME FwInv, [FwNext]_fwVars, NEW p \in Pin, PinLost(p)
      PROVE  reply' = "OK" /\ \E dir \in Direction : IoCfg(dir, p)
  <2>t. /\ TypeOK /\ T!TimersSound /\ moder \in [Pin -> Mode]
        /\ \A j \in Instance : tim[j].configured \subseteq Channel
    BY <1>1 DEF FwInv, TypeOK, PinsTypeOK, T!TimersSound, T!Timer
  <2>1. moder[p] = "AF" /\ moder'[p] # "AF" /\ Claimed(p)'
    BY <1>1 DEF PinLost, IsPinAnAf
  <2>2. CASE [Next]_vars
    BY <2>t, <2>1, <2>2, GpioModeStep DEF Sets
  <2>3. CASE PwmCommand \/ \E i \in Instance : PwmPeriod(i)
    <3>1. ~ LeavesPins
      BY <2>1 DEF LeavesPins
    <3>2. ASSUME NEW i \in Instance, NEW c \in Channel, TakesPin(i, c)
          PROVE  FALSE
      BY <2>t, <2>1, <3>2 DEF TakesPin
    <3>3. ASSUME NEW i \in Instance, NEW C \in SUBSET tim[i].configured, GivesPins(i, C)
          PROVE  FALSE
      <4>1. PICK k \in C : PinOf[<<i, k>>] = p
        BY <2>1, <3>3 DEF GivesPins
      <4>2. PICK j \in Instance : \E d \in tim'[j].configured : PinOf[<<j, d>>] = p
        BY <2>1 DEF Claimed
      <4>3. PICK d \in tim'[j].configured : PinOf[<<j, d>>] = p
        BY <4>2
      <4>4. d \in Channel /\ k \in Channel
        BY <2>t, <3>3, <4>1, <4>3 DEF GivesPins
      <4>5. j = i /\ d = k
        BY <4>1, <4>3, <4>4, PwmAssumption
      <4> QED
        BY <3>3, <4>1, <4>3, <4>5 DEF GivesPins
    <3> QED
      BY <2>t, <2>3, <3>1, <3>2, <3>3, PwmStepShape DEF ClaimsMove
  <2> QED
    BY <1>1, <2>1, <2>2, <2>3 DEF FwNext, GpioStep, fwVars
<1>2. FwInv /\ [FwNext]_fwVars
        => [\A p \in Pin : PinLost(p) => reply' = "OK" /\ \E dir \in Direction : IoCfg(dir, p)]_fwVars
  BY <1>1
<1> QED
  BY <1>2, FwInvariance, PTL DEF FwSpec, LostToIoCfgOnly
=============================================================================
