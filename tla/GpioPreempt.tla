----------------------------- MODULE GpioPreempt -----------------------------
(***************************************************************************)
(* GPIO commands cut at the accesses an interrupt can come between: each   *)
(* write of gpio_init_interrupt and gpio_deinit_interrupt, the two stores  *)
(* a binding takes, the read and the write of gpio_toggle.  GpioController *)
(* runs a command in one step; this is what that leaves out.               *)
(*                                                                         *)
(* All pins here have been configured, and each line has its own vector.   *)
(* irq_bindings is not volatile, so the order of a binding's stores is the *)
(* compiler's.                                                             *)
(***************************************************************************)
EXTENDS Exti, Sequences

CONSTANTS Input, Output,   \* the pins configured as such
          ZeroPin,         \* PA0, the pin an all-zero field names
          HostEdge,        \* the EDGE fields the host sends
          HostAction       \* the ACTION fields the host sends

ASSUME PreemptAssumption ==
  /\ Input \subseteq Pin \ Reserved /\ Output \subseteq Pin \ Reserved
  /\ Input \cap Output = {} /\ ZeroPin \in Pin
  /\ HostEdge \subseteq Trigger /\ HostAction \subseteq {"LOW", "HIGH", "TOGGLE"}
  /\ \A k, l \in Line : Vector(k) = Vector(l) => k = l

VARIABLES irq_bindings,   \* as the handlers see it
          call,           \* the command under way: the accesses still to make
          bound,          \* history: what the host was told is bound
          cause,          \* history: the edge that set the pending bit
          act             \* history: what the last step's handler did

vars == <<moder, odr, extiVars, irq_bindings, call, bound, cause, act>>

NoBinding == [in |-> ZeroPin, out |-> ZeroPin, action |-> "LOW", active |-> FALSE]
None == [pin |-> "NONE"]

Promise == [pin : Input, edge : HostEdge, out : Output, action : HostAction]
EdgeKind == {"RISING", "FALLING"}

TypeOK ==
  /\ PinsTypeOK /\ ExtiTypeOK
  /\ irq_bindings \in [Line -> [in : Pin, out : Pin, action : HostAction \cup {"LOW"}, active : BOOLEAN]]
  /\ bound \in [Line -> Promise \cup {None}]
  /\ cause \in [Line -> [pin : Input, kind : EdgeKind] \cup {None}]
  /\ act = None \/ act.out \in Pin
  /\ call = None \/ call.op \in {"ARM", "OFF", "BIND", "UNBIND", "TOGGLE"}

Init ==
  /\ moder = [p \in Pin |-> IF p \in Input THEN "INPUT" ELSE IF p \in Output THEN "OUTPUT" ELSE "ANALOG"]
  /\ odr = [p \in Pin |-> FALSE]
  /\ ExtiInit
  /\ irq_bindings = [l \in Line |-> NoBinding]
  /\ call = None /\ act = None
  /\ bound = [l \in Line |-> None] /\ cause = [l \in Line |-> None]
-----------------------------------------------------------------------------
(* The accesses of each command, in order.                                 *)
Stores == {<<"PINS", "VERB">>, <<"VERB", "PINS">>}

SelectEdges(t) ==
  <<"RTSR0", "FTSR0">> \o (IF t = "FALLING" THEN <<>> ELSE <<"RTSR">>)
                       \o (IF t = "RISING" THEN <<>> ELSE <<"FTSR">>)

ArmAccesses(t) == <<"EXTICR0", "EXTICR", "IMR">> \o SelectEdges(t) \o <<"CALLBACK", "NVIC">>

DeinitAccesses == <<"NVIC0", "IMR0", "RTSR0", "FTSR0", "EXTICR0", "CALLBACK0">>
OffAccessesClearFirst(clear) == clear \o DeinitAccesses
OffAccesses(clear) == DeinitAccesses \o clear

(* No handler runs and none can be entered.                                *)
MainRuns == ~ \E v \in nvic : Servable(v)

Begin(op, p, todo, new, promise) ==
  /\ call = None /\ MainRuns
  /\ call' = [op |-> op, pin |-> p, todo |-> todo, new |-> new, promise |-> promise, latched |-> odr]
  /\ act' = None
  /\ UNCHANGED <<moder, odr, extiVars, irq_bindings, bound, cause>>

ClearingKept(p) == {<<>>}
Clearing(p) == Stores

Arm(p, t) ==
  /\ InitInterruptStatus(p) = "OK"
  /\ \E clear \in Clearing(p) : Begin("ARM", p, ArmAccesses(t) \o clear, NoBinding, None)

Disarm(p) == \E clear \in Stores : Begin("OFF", p, OffAccesses(clear), NoBinding, None)

BindAllowedAnyEdge(p, t) == InterruptTrigger(p) # "NONE" /\ ~ irq_bindings[p.pin].active
BindAllowed(p, t) == InterruptTrigger(p) = t /\ ~ irq_bindings[p.pin].active

Bind(p, t, out, action) ==
  /\ BindAllowed(p, t)
  /\ \E store \in Stores :
       Begin("BIND", p, store, [in |-> p, out |-> out, action |-> action, active |-> TRUE],
             [pin |-> p, edge |-> t, out |-> out, action |-> action])

Unbind(p) ==
  /\ irq_bindings[p.pin].active /\ irq_bindings[p.pin].in.port = p.port
  /\ \E clear \in Stores : Begin("UNBIND", p, clear, NoBinding, None)

Toggle(p) == p \in Output /\ Begin("TOGGLE", p, <<"READ", "WRITE">>, NoBinding, None)

(* One access.                                                             *)
Changed(S, bit, set, clear) ==
  LET step == Head(call.todo) IN
  IF step = set THEN S \cup {bit} ELSE IF step = clear THEN S \ {bit} ELSE S

Step ==
  /\ call # None /\ MainRuns
  /\ LET l == call.pin.pin
         step == Head(call.todo)
     IN
     /\ exticr' = CASE step = "EXTICR0" -> [exticr EXCEPT ![l] = PortA]
                    [] step = "EXTICR" -> [exticr EXCEPT ![l] = call.pin.port]
                    [] OTHER -> exticr
     /\ imr' = Changed(imr, l, "IMR", "IMR0")
     /\ rtsr' = Changed(rtsr, l, "RTSR", "RTSR0") /\ ftsr' = Changed(ftsr, l, "FTSR", "FTSR0")
     /\ irq_callbacks' = Changed(irq_callbacks, l, "CALLBACK", "CALLBACK0")
     /\ nvic' = Changed(nvic, Vector(l), "NVIC", "NVIC0")
     /\ irq_bindings' =
          CASE step = "PINS" -> [irq_bindings EXCEPT ![l] = [@ EXCEPT !.in = call.new.in, !.out = call.new.out]]
            [] step = "VERB" -> [irq_bindings EXCEPT ![l] = [@ EXCEPT !.action = call.new.action,
                                                                      !.active = call.new.active]]
            [] OTHER -> irq_bindings
     /\ odr' = IF step = "WRITE" THEN [call.latched EXCEPT ![call.pin] = ~ @] ELSE odr
     /\ IF Len(call.todo) > 1
        THEN /\ call' = [call EXCEPT !.todo = Tail(@), !.latched = odr]
             /\ UNCHANGED bound
        ELSE /\ call' = None
             /\ bound' = IF call.op = "TOGGLE" THEN bound ELSE [bound EXCEPT ![l] = call.promise]
  /\ act' = None
  /\ UNCHANGED <<moder, pr, cause>>
-----------------------------------------------------------------------------
(* An input moves.                                                         *)
PinEdge(p, kind) ==
  LET l == p.pin IN
  /\ exticr[l] = p.port
  /\ l \in (IF kind = "RISING" THEN rtsr ELSE ftsr) \ pr
  /\ pr' = pr \cup {l}
  /\ cause' = [cause EXCEPT ![l] = [pin |-> p, kind |-> kind]]
  /\ act' = None
  /\ UNCHANGED <<moder, odr, exticr, imr, rtsr, ftsr, nvic, irq_callbacks, irq_bindings, call, bound>>

(* The handler, which nothing preempts.  It acknowledges all that is       *)
(* pending.                                                                *)
Handler(l) ==
  LET b == irq_bindings[l] IN
  /\ Servable(Vector(l)) /\ l \in pr \cap imr
  /\ pr' = {}
  /\ IF l \in irq_callbacks /\ b.active
     THEN /\ GpioDrive(b.out, b.action = "HIGH" \/ (b.action = "TOGGLE" /\ ~ odr[b.out]))
          /\ act' = [pin |-> cause[l].pin, kind |-> cause[l].kind, out |-> b.out]
     ELSE UNCHANGED odr /\ act' = None
  /\ UNCHANGED <<moder, exticr, imr, rtsr, ftsr, nvic, irq_callbacks, irq_bindings, call, bound, cause>>

Next ==
  \/ Step
  \/ \E p \in Input :
       \/ Disarm(p) \/ Unbind(p)
       \/ \E t \in HostEdge : Arm(p, t) \/ \E out \in Output, action \in HostAction : Bind(p, t, out, action)
       \/ \E kind \in EdgeKind : PinEdge(p, kind)
  \/ \E p \in Output : Toggle(p)
  \/ \E l \in Line : Handler(l)

Spec == Init /\ [][Next]_vars
-----------------------------------------------------------------------------
(* The promises in force: the one ACKed, and the one a command under way   *)
(* is putting in place.                                                    *)
InForce(l) ==
  ({bound[l]} \cup (IF call # None /\ call.pin.pin = l THEN {call.promise} ELSE {})) \ {None}

RightEdge(b) == b.pin = act.pin /\ (b.edge = "BOTH" \/ b.edge = act.kind)

Exact == act # None => \E b \in InForce(act.pin.pin) : RightEdge(b) /\ b.out = act.out

(* While no command is under way a handler acts only on an edge, and on an *)
(* output, that the host has bound.  No edge from before an arm, a re-arm  *)
(* or a disarm is left to fire later.                                      *)
ExactBetweenCommands == call = None => Exact

(* Nor does one go wrong while a line is disarmed: gpio_deinit_interrupt   *)
(* has silenced it before its binding is taken apart.                      *)
ExactWhileDisarming == call # None /\ call.op = "OFF" => Exact

(* Once a command is over, table and registers say what the host was told, *)
(* however it was interrupted.                                             *)
TablesFollowHost ==
  call = None => \A l \in Line :
    LET b == bound[l] IN
    /\ irq_bindings[l].active <=> b # None
    /\ b # None => /\ irq_bindings[l].out = b.out
                   /\ InterruptTrigger(b.pin) = b.edge
-----------------------------------------------------------------------------
(* What the documents say and the code does not do.                        *)

(* mcu-co_Protocol.md 285: once bound, "the MCU's ISR drives the output    *)
(* pin directly".  gpio_toggle writes the whole port back from a value it  *)
(* read before the handler ran, and undoes what the handler did.           *)
HandlerDriveSticks == [][Step => \A p \in Output : p # call.pin => odr'[p] = odr[p]]_vars

(* The same promise: the pin a handler drives is the one that was bound,   *)
(* not PA0.  A handler may find a binding half stored or half cleared.     *)
DrivesBoundOutput ==
  act # None => \E b \in InForce(act.pin.pin) : b.out = act.out

(* gpio_controller.c 205: "binding any edge but the armed one would        *)
(* misfire".  A re-arm programs the new edge while the binding of the old  *)
(* one is still in the table.                                              *)
ActsOnBoundEdge ==
  act # None /\ call # None /\ call.op = "ARM" /\ call.pin.pin = act.pin.pin =>
    \E b \in InForce(act.pin.pin) : RightEdge(b)
=============================================================================
