------------------------- MODULE GpioPreemptProofs --------------------------
(***************************************************************************)
(* What an interrupt that comes in the middle of a GPIO command can and    *)
(* cannot do, for every set of pins and of lines that have a vector each,  *)
(* every choice of edges and actions and both orders of a binding's        *)
(* stores.                                                                 *)
(***************************************************************************)
EXTENDS GpioPreempt, SequenceTheorems, TLAPS

Access ==
  {"EXTICR0", "EXTICR", "IMR", "RTSR0", "FTSR0", "RTSR", "FTSR", "CALLBACK", "NVIC",
   "NVIC0", "IMR0", "CALLBACK0", "PINS", "VERB", "READ", "WRITE"}
Op == {"ARM", "OFF", "BIND", "UNBIND", "TOGGLE"}
Binding == [in : Pin, out : Pin, action : HostAction \cup {"LOW"}, active : BOOLEAN]
Call ==
  [op : Op, pin : Pin, todo : Seq(Access), new : Binding, promise : Promise \cup {None},
   latched : [Pin -> BOOLEAN]]

Started(l) == call # None /\ call.pin.pin = l
ToCome(a) == \E i \in 1 .. Len(call.todo) : call.todo[i] = a

(* An interrupt of line l can be taken.                                    *)
CanFire(l) == l \in pr \cap imr /\ Vector(l) \in nvic

(* The pending edge of line l is one its registers, as they are now, ask   *)
(* for.                                                                    *)
Fresh(l) ==
  /\ cause[l] # None
  /\ cause[l].pin = [port |-> exticr[l], pin |-> l]
  /\ l \in IF cause[l].kind = "RISING" THEN rtsr ELSE ftsr

(* Table and registers of line l say what the host was told.               *)
InSync(l) ==
  LET b == bound[l] IN
  /\ irq_bindings[l].active <=> b # None
  /\ b # None => /\ b.pin.pin = l
                 /\ irq_bindings[l].out = b.out
                 /\ InterruptTrigger(b.pin) = b.edge

(* A line is out of step only while a command is at work on it, and a      *)
(* disarm has disabled its vector by then.                                 *)
Undisturbed(l) ==
  Started(l) => call.op = "TOGGLE" \/ (call.op = "OFF" /\ Head(call.todo) = "NVIC0")
LinesInSync == \A l \in Line : Undisturbed(l) => InSync(l)

(* Nothing stale can fire but on a line being armed.                       *)
FiresFresh ==
  \A l \in Line : CanFire(l) /\ ~ (Started(l) /\ call.op = "ARM") => Fresh(l)

(* What a command under way has done and has still to do.                  *)
StoresDone ==
  LET b == irq_bindings[call.pin.pin] IN
  /\ call.todo[Len(call.todo)] \in {"PINS", "VERB"}
  /\ ~ ToCome("PINS") => b.out = call.new.out
  /\ ~ ToCome("VERB") => b.active = call.new.active

OffQuiet ==
  /\ Head(call.todo) = "NVIC0" \/ Vector(call.pin.pin) \notin nvic
  /\ \A i \in 1 .. Len(call.todo) : call.todo[i] # "NVIC" /\ (i > 1 => call.todo[i] # "NVIC0")

BindHolds ==
  /\ \A i \in 1 .. Len(call.todo) : call.todo[i] \in {"PINS", "VERB"}
  /\ call.promise \in Promise /\ call.promise.pin = call.pin
  /\ call.promise.out = call.new.out /\ call.new.active
  /\ InterruptTrigger(call.pin) = call.promise.edge

CallOK ==
  call # None =>
    /\ call \in Call /\ call.todo # <<>>
    /\ call.op # "TOGGLE" => StoresDone
    /\ call.op \in {"ARM", "OFF", "UNBIND"} => call.promise = None /\ call.new = NoBinding
    /\ call.op = "OFF" => OffQuiet
    /\ call.op = "BIND" => BindHolds
    /\ call.op = "UNBIND" => \A i \in 1 .. Len(call.todo) : call.todo[i] \in {"PINS", "VERB"}
    /\ call.op = "TOGGLE" => \A i \in 1 .. Len(call.todo) : call.todo[i] \in {"READ", "WRITE"}

IInv ==
  /\ TypeOK /\ CallOK
  /\ LinesInSync /\ FiresFresh
  /\ ExactBetweenCommands /\ ExactWhileDisarming
-----------------------------------------------------------------------------
(* Data.                                                                   *)
LEMMA PinFields ==
  ASSUME NEW p \in Pin
  PROVE  p.pin \in Line /\ p.port \in Port /\ p = [port |-> p.port, pin |-> p.pin]
BY PinAssumption

LEMMA InputsOutputs == Input \subseteq Pin /\ Output \subseteq Pin
BY PreemptAssumption

LEMMA NoneIsNothing ==
  /\ None \notin Promise /\ None \notin Call
  /\ None \notin [pin : Input, kind : EdgeKind]
<1>1. DOMAIN None = {"pin"}
  BY DEF None
<1>2. \A r \in Promise : "edge" \in DOMAIN r
  BY DEF Promise
<1>3. \A r \in Call : "op" \in DOMAIN r
  BY DEF Call
<1>4. \A r \in [pin : Input, kind : EdgeKind] : "kind" \in DOMAIN r
  OBVIOUS
<1>5. "edge" \notin {"pin"} /\ "op" \notin {"pin"} /\ "kind" \notin {"pin"}
  OBVIOUS
<1> QED
  BY <1>1, <1>2, <1>3, <1>4, <1>5

LEMMA NewBindings ==
  /\ NoBinding \in Binding
  /\ \A p \in Input, out \in Output, action \in HostAction :
       [in |-> p, out |-> out, action |-> action, active |-> TRUE] \in Binding
BY PreemptAssumption, InputsOutputs DEF NoBinding, Binding

(* The two stores of a binding, in either order.                           *)
LEMMA StoresAre ==
  ASSUME NEW c \in Stores
  PROVE  /\ c \in Seq(Access) /\ Len(c) = 2 /\ c # <<>>
         /\ c[1] \in {"PINS", "VERB"} /\ c[2] \in {"PINS", "VERB"} /\ c[1] # c[2]
<1>1. CASE c = <<"PINS", "VERB">>
  BY <1>1 DEF Access
<1>2. CASE c = <<"VERB", "PINS">>
  BY <1>2 DEF Access
<1> QED
  BY <1>1, <1>2 DEF Stores

(* A list of accesses that ends in the two stores.                         *)
LEMMA EndsInStores ==
  ASSUME NEW s \in Seq(Access), NEW c \in Stores
  PROVE  /\ s \o c \in Seq(Access) /\ s \o c # <<>> /\ Len(s \o c) = Len(s) + 2
         /\ (s \o c)[Len(s) + 1] = c[1] /\ (s \o c)[Len(s) + 2] = c[2]
         /\ \A i \in 1 .. Len(s) : (s \o c)[i] = s[i]
<1>1. c \in Seq(Access) /\ Len(c) = 2
  BY StoresAre
<1>2. Len(s) \in Nat
  BY LenProperties
<1>3. /\ s \o c \in Seq(Access) /\ Len(s \o c) = Len(s) + Len(c)
      /\ \A i \in 1 .. Len(s) + Len(c) : (s \o c)[i] = IF i <= Len(s) THEN s[i] ELSE c[i - Len(s)]
  BY <1>1, ConcatProperties
<1>4. s \o c # <<>>
  BY <1>1, <1>2, <1>3, EmptySeq
<1>5. Len(s) + 1 \in 1 .. Len(s) + Len(c) /\ Len(s) + 2 \in 1 .. Len(s) + Len(c)
  BY <1>1, <1>2
<1>6. (s \o c)[Len(s) + 1] = c[1]
  BY <1>2, <1>3, <1>5
<1>7. (s \o c)[Len(s) + 2] = c[2]
  BY <1>2, <1>3, <1>5
<1>8. \A i \in 1 .. Len(s) : (s \o c)[i] = s[i]
  BY <1>1, <1>2, <1>3
<1> QED
  BY <1>1, <1>3, <1>4, <1>6, <1>7, <1>8

LEMMA ArmIsAccesses == \A t : ArmAccesses(t) \in Seq(Access)
<1> SUFFICES ASSUME NEW t PROVE ArmAccesses(t) \in Seq(Access)
  OBVIOUS
<1> DEFINE a == <<"RTSR0", "FTSR0">>
           b == IF t = "FALLING" THEN <<>> ELSE <<"RTSR">>
           c == IF t = "RISING" THEN <<>> ELSE <<"FTSR">>
<1>0. /\ <<>> \in Seq(Access) /\ <<"RTSR">> \in Seq(Access) /\ <<"FTSR">> \in Seq(Access)
      /\ a \in Seq(Access)
  BY EmptySeq DEF Access
<1>1. b \in Seq(Access) /\ c \in Seq(Access)
  BY <1>0
<1>2. SelectEdges(t) \in Seq(Access)
  BY <1>0, <1>1, ConcatProperties DEF SelectEdges
<1>3. <<"EXTICR0", "EXTICR", "IMR">> \in Seq(Access) /\ <<"CALLBACK", "NVIC">> \in Seq(Access)
  BY DEF Access
<1> QED
  BY <1>2, <1>3, ConcatProperties DEF ArmAccesses

LEMMA DeinitIsAccesses ==
  /\ DeinitAccesses \in Seq(Access) /\ Len(DeinitAccesses) = 6
  /\ DeinitAccesses[1] = "NVIC0"
  /\ \A i \in 1 .. 6 : DeinitAccesses[i] # "NVIC" /\ (i > 1 => DeinitAccesses[i] # "NVIC0")
<1>1. DeinitAccesses \in Seq(Access) /\ Len(DeinitAccesses) = 6 /\ DeinitAccesses[1] = "NVIC0"
  BY DEF DeinitAccesses, Access
<1>2. /\ DeinitAccesses[2] \in {"IMR0"} /\ DeinitAccesses[3] \in {"RTSR0"} /\ DeinitAccesses[4] \in {"FTSR0"}
      /\ DeinitAccesses[5] \in {"EXTICR0"} /\ DeinitAccesses[6] \in {"CALLBACK0"}
  BY DEF DeinitAccesses
<1>3. ASSUME NEW i \in 1 .. 6
      PROVE  DeinitAccesses[i] # "NVIC" /\ (i > 1 => DeinitAccesses[i] # "NVIC0")
  <2>1. i = 1 \/ i = 2 \/ i = 3 \/ i = 4 \/ i = 5 \/ i = 6
    OBVIOUS
  <2> QED
    BY <1>1, <1>2, <2>1
<1> QED
  BY <1>1, <1>3

LEMMA InitIInv == Init => IInv
<1> SUFFICES ASSUME Init PROVE IInv
  OBVIOUS
<1>1. TypeOK
  BY PinAssumption, PortAAssumption, PreemptAssumption
     DEF Init, TypeOK, PinsTypeOK, Mode, ExtiInit, ExtiTypeOK, NoBinding
<1>2. LinesInSync
  BY DEF Init, LinesInSync, InSync, NoBinding
<1>3. FiresFresh
  BY DEF Init, ExtiInit, FiresFresh, CanFire
<1> QED
  BY <1>1, <1>2, <1>3 DEF Init, IInv, CallOK, ExactBetweenCommands, ExactWhileDisarming, Exact
-----------------------------------------------------------------------------
(* A command begins.  Until its first access nothing has changed.          *)
LEMMA BeginKeeps ==
  ASSUME IInv, NEW op \in Op, NEW p \in Pin, NEW todo \in Seq(Access), NEW new \in Binding,
         NEW promise \in Promise \cup {None}, Begin(op, p, todo, new, promise), CallOK'
  PROVE  IInv'
<1>1. /\ call = None /\ MainRuns /\ act' = None
      /\ call' = [op |-> op, pin |-> p, todo |-> todo, new |-> new, promise |-> promise, latched |-> odr]
      /\ UNCHANGED <<moder, odr, exticr, imr, rtsr, ftsr, pr, nvic, irq_callbacks, irq_bindings, bound, cause>>
  BY DEF Begin, extiVars
<1>2. call'.op = op
  BY <1>1
<1>3. TypeOK'
  BY <1>1, <1>2 DEF IInv, TypeOK, PinsTypeOK, ExtiTypeOK, Op
<1>4. LinesInSync'
  BY <1>1 DEF IInv, LinesInSync, Undisturbed, Started, InSync, InterruptTrigger, LineTrigger
<1>5. FiresFresh'
  BY <1>1 DEF FiresFresh, CanFire, MainRuns, Servable
<1> QED
  BY <1>1, <1>3, <1>4, <1>5 DEF IInv, ExactBetweenCommands, ExactWhileDisarming, Exact

(* A command that ends in the two stores of a binding has made neither.    *)
LEMMA StoresAhead ==
  ASSUME NEW s \in Seq(Access), NEW c \in Stores,
         call' # None, call'.todo = s \o c
  PROVE  StoresDone'
<1>1. /\ s \o c \in Seq(Access) /\ Len(s \o c) = Len(s) + 2
      /\ (s \o c)[Len(s) + 1] = c[1] /\ (s \o c)[Len(s) + 2] = c[2]
  BY EndsInStores
<1>2. c[1] \in {"PINS", "VERB"} /\ c[2] \in {"PINS", "VERB"} /\ c[1] # c[2]
  BY StoresAre
<1>3. Len(s) \in Nat
  BY LenProperties
<1>4. Len(s) + 1 \in 1 .. Len(call'.todo) /\ Len(s) + 2 \in 1 .. Len(call'.todo)
  BY <1>1, <1>3
<1>5. ToCome("PINS")' /\ ToCome("VERB")'
  BY <1>1, <1>2, <1>4 DEF ToCome
<1>6. call'.todo[Len(call'.todo)] \in {"PINS", "VERB"}
  BY <1>1, <1>2
<1> QED
  BY <1>5, <1>6 DEF StoresDone

LEMMA ArmKeeps ==
  ASSUME IInv, NEW p \in Input, NEW t \in HostEdge, Arm(p, t)
  PROVE  IInv'
<1>1. PICK c \in Stores : Begin("ARM", p, ArmAccesses(t) \o c, NoBinding, None)
  BY DEF Arm, Clearing
<1>2. /\ ArmAccesses(t) \in Seq(Access) /\ ArmAccesses(t) \o c \in Seq(Access)
      /\ ArmAccesses(t) \o c # <<>>
  BY ArmIsAccesses, EndsInStores
<1>3. call' = [op |-> "ARM", pin |-> p, todo |-> ArmAccesses(t) \o c, new |-> NoBinding,
               promise |-> None, latched |-> odr]
  BY <1>1 DEF Begin
<1>4. p \in Pin /\ NoBinding \in Binding /\ odr \in [Pin -> BOOLEAN]
  BY InputsOutputs, NewBindings DEF IInv, TypeOK, PinsTypeOK
<1>5. call' \in Call
  BY <1>2, <1>3, <1>4 DEF Call, Op
<1>6. StoresDone'
  BY <1>2, <1>3, <1>5, NoneIsNothing, StoresAhead
<1>7. CallOK'
  BY <1>2, <1>3, <1>5, <1>6 DEF CallOK
<1> QED
  BY <1>1, <1>2, <1>4, <1>7, BeginKeeps DEF Op

LEMMA DisarmKeeps ==
  ASSUME IInv, NEW p \in Input, Disarm(p)
  PROVE  IInv'
<1> DEFINE d == DeinitAccesses
<1>1. PICK c \in Stores : Begin("OFF", p, d \o c, NoBinding, None)
  BY DEF Disarm, OffAccesses
<1>2. d \in Seq(Access) /\ d \o c \in Seq(Access) /\ d \o c # <<>> /\ Len(d) = 6
  BY DeinitIsAccesses, EndsInStores
<1>3. call' = [op |-> "OFF", pin |-> p, todo |-> d \o c, new |-> NoBinding,
               promise |-> None, latched |-> odr]
  BY <1>1 DEF Begin
<1>4. p \in Pin /\ NoBinding \in Binding /\ odr \in [Pin -> BOOLEAN]
  BY InputsOutputs, NewBindings DEF IInv, TypeOK, PinsTypeOK
<1>5. call' \in Call
  BY <1>2, <1>3, <1>4 DEF Call, Op
<1>6. StoresDone'
  BY <1>2, <1>3, <1>5, NoneIsNothing, StoresAhead
<1>7. OffQuiet'
  <2>1. /\ Len(d \o c) = 8 /\ \A i \in 1 .. 6 : (d \o c)[i] = d[i]
        /\ (d \o c)[7] = c[1] /\ (d \o c)[8] = c[2]
    <3>1. /\ Len(d \o c) = Len(d) + 2 /\ \A i \in 1 .. Len(d) : (d \o c)[i] = d[i]
          /\ (d \o c)[Len(d) + 1] = c[1] /\ (d \o c)[Len(d) + 2] = c[2]
      BY <1>2, EndsInStores
    <3>2. Len(d) + 1 = 7 /\ Len(d) + 2 = 8
      BY <1>2
    <3> QED
      BY <1>2, <3>1, <3>2
  <2>2. c[1] \in {"PINS", "VERB"} /\ c[2] \in {"PINS", "VERB"}
    BY StoresAre
  <2>3. Head(d \o c) = "NVIC0"
    BY <1>2, <2>1, DeinitIsAccesses
  <2>4. ASSUME NEW i \in 1 .. 8
        PROVE  (d \o c)[i] # "NVIC" /\ (i > 1 => (d \o c)[i] # "NVIC0")
    <3>1. i \in 1 .. 6 \/ i = 7 \/ i = 8
      OBVIOUS
    <3> QED
      BY <2>1, <2>2, <3>1, DeinitIsAccesses
  <2> QED
    BY <1>3, <2>1, <2>3, <2>4 DEF OffQuiet
<1>8. CallOK'
  BY <1>2, <1>3, <1>5, <1>6, <1>7 DEF CallOK
<1> QED
  BY <1>1, <1>2, <1>4, <1>8, BeginKeeps DEF Op

(* The two stores alone.                                                   *)
LEMMA StoresAlone ==
  ASSUME NEW c \in Stores, call' # None, call'.todo = c
  PROVE  /\ StoresDone'
         /\ \A i \in 1 .. Len(c) : c[i] \in {"PINS", "VERB"}
<1>1. c \in Seq(Access) /\ <<>> \in Seq(Access) /\ <<>> \o c = c
  BY StoresAre, EmptySeq, ConcatEmptySeq
<1>2. StoresDone'
  BY <1>1, StoresAhead
<1>3. ASSUME NEW i \in 1 .. Len(c) PROVE c[i] \in {"PINS", "VERB"}
  <2>1. Len(c) = 2
    BY StoresAre
  <2>2. i = 1 \/ i = 2
    BY <2>1
  <2> QED
    BY <2>2, StoresAre
<1> QED
  BY <1>2, <1>3

LEMMA BindKeeps ==
  ASSUME IInv, NEW p \in Input, NEW t \in HostEdge, NEW out \in Output, NEW action \in HostAction,
         Bind(p, t, out, action)
  PROVE  IInv'
<1> DEFINE new == [in |-> p, out |-> out, action |-> action, active |-> TRUE]
           promise == [pin |-> p, edge |-> t, out |-> out, action |-> action]
<1>1. PICK c \in Stores : Begin("BIND", p, c, new, promise)
  BY DEF Bind
<1>2. call' = [op |-> "BIND", pin |-> p, todo |-> c, new |-> new, promise |-> promise, latched |-> odr]
  BY <1>1 DEF Begin
<1>3. /\ p \in Pin /\ new \in Binding /\ promise \in Promise
      /\ odr \in [Pin -> BOOLEAN] /\ c \in Seq(Access) /\ c # <<>>
  BY InputsOutputs, NewBindings, StoresAre DEF IInv, TypeOK, PinsTypeOK, Promise
<1>4. call' \in Call
  BY <1>2, <1>3 DEF Call, Op
<1>5. StoresDone' /\ \A i \in 1 .. Len(c) : c[i] \in {"PINS", "VERB"}
  BY <1>2, <1>4, NoneIsNothing, StoresAlone
<1>6. InterruptTrigger(p)' = t
  BY <1>1 DEF Bind, BindAllowed, Begin, extiVars, InterruptTrigger, LineTrigger
<1>7. BindHolds'
  <2>1. call'.pin = p /\ call'.promise = promise /\ call'.new = new /\ call'.todo = c
    BY <1>2
  <2>2. InterruptTrigger(call.pin)' = t
    BY <1>6, <2>1 DEF InterruptTrigger
  <2> QED
    BY <1>3, <1>5, <2>1, <2>2 DEF BindHolds
<1>8. CallOK'
  BY <1>2, <1>3, <1>4, <1>5, <1>7 DEF CallOK
<1> QED
  BY <1>1, <1>3, <1>8, BeginKeeps DEF Op

LEMMA UnbindKeeps ==
  ASSUME IInv, NEW p \in Input, Unbind(p)
  PROVE  IInv'
<1>1. PICK c \in Stores : Begin("UNBIND", p, c, NoBinding, None)
  BY DEF Unbind
<1>2. call' = [op |-> "UNBIND", pin |-> p, todo |-> c, new |-> NoBinding, promise |-> None, latched |-> odr]
  BY <1>1 DEF Begin
<1>3. p \in Pin /\ NoBinding \in Binding /\ odr \in [Pin -> BOOLEAN] /\ c \in Seq(Access) /\ c # <<>>
  BY InputsOutputs, NewBindings, StoresAre DEF IInv, TypeOK, PinsTypeOK
<1>4. call' \in Call
  BY <1>2, <1>3 DEF Call, Op
<1>5. StoresDone' /\ \A i \in 1 .. Len(c) : c[i] \in {"PINS", "VERB"}
  BY <1>2, <1>4, NoneIsNothing, StoresAlone
<1>6. CallOK'
  BY <1>2, <1>3, <1>4, <1>5 DEF CallOK
<1> QED
  BY <1>1, <1>3, <1>6, BeginKeeps DEF Op

LEMMA ToggleKeeps ==
  ASSUME IInv, NEW p \in Output, Toggle(p)
  PROVE  IInv'
<1> DEFINE c == <<"READ", "WRITE">>
<1>1. Begin("TOGGLE", p, c, NoBinding, None)
  BY DEF Toggle
<1>2. call' = [op |-> "TOGGLE", pin |-> p, todo |-> c, new |-> NoBinding, promise |-> None, latched |-> odr]
  BY <1>1 DEF Begin
<1>3. p \in Pin /\ NoBinding \in Binding /\ odr \in [Pin -> BOOLEAN]
  BY InputsOutputs, NewBindings DEF IInv, TypeOK, PinsTypeOK
<1>4. c \in Seq(Access) /\ c # <<>> /\ Len(c) = 2
  BY DEF Access
<1>5. \A i \in 1 .. Len(c) : c[i] \in {"READ", "WRITE"}
  OBVIOUS
<1>6. call' \in Call
  BY <1>2, <1>3, <1>4 DEF Call, Op
<1>7. CallOK'
  BY <1>2, <1>4, <1>5, <1>6 DEF CallOK
<1> QED
  BY <1>1, <1>3, <1>4, <1>7, BeginKeeps DEF Op
-----------------------------------------------------------------------------
(* One access.  No handler can be entered then, and only the line at work  *)
(* is touched, since no other has its vector.                              *)
LEMMA MainRunsMeansSilent ==
  ASSUME MainRuns, NEW l \in Line
  PROVE  ~ CanFire(l)
BY DEF MainRuns, Servable, CanFire

LEMMA StepFacts ==
  ASSUME IInv, Step
  PROVE  LET l == call.pin.pin
             step == Head(call.todo)
         IN /\ l \in Line /\ step \in Access /\ call \in Call /\ call.pin \in Pin
            /\ call.new \in Binding /\ call.promise \in Promise \cup {None}
            /\ call.latched \in [Pin -> BOOLEAN] /\ call.op \in Op
            /\ call.todo \in Seq(Access) /\ call.todo # <<>> /\ call # None
            /\ act' = None /\ moder' = moder /\ pr' = pr /\ cause' = cause
<1>1. call # None /\ call \in Call /\ call.todo # <<>>
  BY DEF Step, IInv, CallOK
<1>2. /\ call.pin \in Pin /\ call.new \in Binding /\ call.promise \in Promise \cup {None}
      /\ call.latched \in [Pin -> BOOLEAN] /\ call.op \in Op /\ call.todo \in Seq(Access)
  BY <1>1 DEF Call
<1>3. call.pin.pin \in Line /\ Head(call.todo) \in Access
  BY <1>1, <1>2, PinFields, HeadTailProperties
<1> QED
  BY <1>1, <1>2, <1>3 DEF Step

LEMMA StepType ==
  ASSUME IInv, Step
  PROVE  TypeOK'
<1> DEFINE l == call.pin.pin
           step == Head(call.todo)
<1>1. /\ l \in Line /\ call.pin \in Pin /\ call.new \in Binding /\ call.promise \in Promise \cup {None}
      /\ call.latched \in [Pin -> BOOLEAN] /\ call.op \in Op
      /\ act' = None /\ moder' = moder /\ pr' = pr /\ cause' = cause /\ call \in Call
  BY StepFacts
<1>2. TypeOK
  BY DEF IInv
<1> HIDE DEF l, step
<1>3. exticr' \in [Line -> Port]
  <2>1. exticr' \in {[exticr EXCEPT ![l] = PortA], [exticr EXCEPT ![l] = call.pin.port], exticr}
    BY DEF Step, l
  <2> QED
    BY <1>1, <1>2, <2>1, PinFields, PortAAssumption DEF TypeOK, ExtiTypeOK
<1>4. /\ imr' \in SUBSET Line /\ rtsr' \in SUBSET Line /\ ftsr' \in SUBSET Line
      /\ irq_callbacks' \in SUBSET Line
  BY <1>1, <1>2 DEF Step, Changed, TypeOK, ExtiTypeOK, l
<1>5. nvic' \in SUBSET {Vector(k) : k \in Line}
  <2>1. nvic' \subseteq nvic \cup {Vector(l)}
    BY DEF Step, Changed, l
  <2> QED
    BY <1>1, <1>2, <2>1 DEF TypeOK, ExtiTypeOK
<1>6. odr' \in [Pin -> BOOLEAN]
  <2>1. odr' \in {[call.latched EXCEPT ![call.pin] = ~ @], odr}
    BY DEF Step
  <2>2. [call.latched EXCEPT ![call.pin] = ~ @] \in [Pin -> BOOLEAN]
    BY <1>1
  <2> QED
    BY <1>2, <2>1, <2>2 DEF TypeOK, PinsTypeOK
<1>7. irq_bindings' \in [Line -> Binding]
  <2>1. irq_bindings' \in {[irq_bindings EXCEPT ![l] = [@ EXCEPT !.in = call.new.in, !.out = call.new.out]],
                           [irq_bindings EXCEPT ![l] = [@ EXCEPT !.action = call.new.action,
                                                                 !.active = call.new.active]],
                           irq_bindings}
    BY DEF Step, l
  <2>2. irq_bindings \in [Line -> Binding]
    BY <1>2 DEF TypeOK, Binding
  <2>3. /\ [irq_bindings[l] EXCEPT !.in = call.new.in, !.out = call.new.out] \in Binding
        /\ [irq_bindings[l] EXCEPT !.action = call.new.action, !.active = call.new.active] \in Binding
    BY <1>1, <2>2 DEF Binding
  <2> QED
    BY <1>1, <2>1, <2>2, <2>3
<1>8. bound' \in [Line -> Promise \cup {None}]
  <2>1. bound' \in {bound, [bound EXCEPT ![l] = call.promise]}
    BY DEF Step, l
  <2> QED
    BY <1>1, <1>2, <2>1 DEF TypeOK
<1>9. call' = None \/ call'.op \in Op
  <2>1. call' = None \/ call' = [call EXCEPT !.todo = Tail(@), !.latched = odr]
    BY DEF Step
  <2> QED
    BY <1>1, <2>1 DEF Call
<1> QED
  BY <1>1, <1>2, <1>3, <1>4, <1>5, <1>6, <1>7, <1>8, <1>9
     DEF TypeOK, PinsTypeOK, ExtiTypeOK, Binding, Op

(* Other lines.                                                            *)
LEMMA StepElsewhere ==
  ASSUME IInv, Step, NEW k \in Line, k # call.pin.pin
  PROVE  /\ exticr'[k] = exticr[k] /\ irq_bindings'[k] = irq_bindings[k] /\ bound'[k] = bound[k]
         /\ k \in imr' <=> k \in imr
         /\ k \in rtsr' <=> k \in rtsr
         /\ k \in ftsr' <=> k \in ftsr
         /\ Vector(k) \in nvic' <=> Vector(k) \in nvic
<1> DEFINE l == call.pin.pin
<1>1. l \in Line /\ Vector(l) # Vector(k)
  BY StepFacts, PreemptAssumption
<1>2. /\ exticr \in [Line -> Port] /\ DOMAIN irq_bindings = Line /\ DOMAIN bound = Line
  BY DEF IInv, TypeOK, ExtiTypeOK
<1>3. exticr'[k] = exticr[k]
  BY <1>1, <1>2 DEF Step
<1>4. irq_bindings'[k] = irq_bindings[k]
  BY <1>1, <1>2 DEF Step
<1>5. bound'[k] = bound[k]
  BY <1>1, <1>2 DEF Step
<1>6. /\ k \in imr' <=> k \in imr
      /\ k \in rtsr' <=> k \in rtsr
      /\ k \in ftsr' <=> k \in ftsr
  BY DEF Step, Changed
<1>7. Vector(k) \in nvic' <=> Vector(k) \in nvic
  BY <1>1 DEF Step, Changed
<1> QED
  BY <1>3, <1>4, <1>5, <1>6, <1>7

(* What is left of a command after an access: the tail of its list.        *)
LEMMA StepLeaves ==
  ASSUME IInv, Step
  PROVE  /\ Len(call.todo) \in Nat /\ Len(call.todo) > 0 /\ Head(call.todo) = call.todo[1]
         /\ Len(call.todo) > 1 =>
              /\ call' # None /\ call' \in Call /\ bound' = bound
              /\ call'.op = call.op /\ call'.pin = call.pin /\ call'.new = call.new
              /\ call'.promise = call.promise /\ call'.todo # <<>>
              /\ Len(call'.todo) = Len(call.todo) - 1
              /\ \A i \in 1 .. Len(call'.todo) : i + 1 \in 1 .. Len(call.todo) /\ call'.todo[i] = call.todo[i + 1]
         /\ Len(call.todo) = 1 =>
              /\ call' = None
              /\ bound' = IF call.op = "TOGGLE" THEN bound ELSE [bound EXCEPT ![call.pin.pin] = call.promise]
<1> DEFINE todo == call.todo
<1>1. /\ call \in Call /\ todo \in Seq(Access) /\ todo # <<>>
  BY StepFacts
<1>2. Len(todo) \in Nat /\ Len(todo) > 0 /\ Head(todo) = todo[1]
  BY <1>1, LenProperties, EmptySeq
<1>3. ASSUME Len(todo) > 1
      PROVE  /\ call' # None /\ call' \in Call /\ bound' = bound
             /\ call'.op = call.op /\ call'.pin = call.pin /\ call'.new = call.new
             /\ call'.promise = call.promise /\ call'.todo # <<>>
             /\ Len(call'.todo) = Len(todo) - 1
             /\ \A i \in 1 .. Len(call'.todo) : i + 1 \in 1 .. Len(todo) /\ call'.todo[i] = todo[i + 1]
  <2>1. call' = [call EXCEPT !.todo = Tail(@), !.latched = odr] /\ bound' = bound
    BY <1>3 DEF Step
  <2>2. /\ Tail(todo) \in Seq(Access) /\ Len(Tail(todo)) = Len(todo) - 1
        /\ \A i \in 1 .. Len(Tail(todo)) : Tail(todo)[i] = todo[i + 1]
    BY <1>1, HeadTailProperties
  <2>3. odr \in [Pin -> BOOLEAN]
    BY DEF IInv, TypeOK, PinsTypeOK
  <2>4. /\ call' \in Call /\ call'.op = call.op /\ call'.pin = call.pin /\ call'.new = call.new
        /\ call'.promise = call.promise /\ call'.todo = Tail(todo)
    BY <1>1, <2>1, <2>2, <2>3 DEF Call
  <2>5. Tail(todo) # <<>>
    <3>1. Len(Tail(todo)) # 0 /\ Len(<<>>) = 0
      BY <1>2, <1>3, <2>2
    <3> HIDE DEF todo
    <3> QED
      BY <3>1
  <2>6. call' # None
    BY <2>4, NoneIsNothing
  <2>7. \A i \in 1 .. Len(Tail(todo)) : i + 1 \in 1 .. Len(todo)
    BY <1>2, <2>2
  <2> QED
    BY <2>1, <2>2, <2>4, <2>5, <2>6, <2>7
<1>4. ASSUME Len(todo) = 1
      PROVE  /\ call' = None
             /\ bound' = IF call.op = "TOGGLE" THEN bound ELSE [bound EXCEPT ![call.pin.pin] = call.promise]
  BY <1>4 DEF Step
<1> QED
  BY <1>2, <1>3, <1>4

(* An access to come is the next one or still to come after it.            *)
LEMMA StepToCome ==
  ASSUME IInv, Step, Len(call.todo) > 1, NEW a, ToCome(a)
  PROVE  Head(call.todo) = a \/ ToCome(a)'
<1>1. PICK i \in 1 .. Len(call.todo) : call.todo[i] = a
  BY DEF ToCome
<1>2. /\ Head(call.todo) = call.todo[1] /\ Len(call.todo) \in Nat
      /\ Len(call'.todo) = Len(call.todo) - 1
      /\ \A j \in 1 .. Len(call'.todo) : call'.todo[j] = call.todo[j + 1]
  BY StepLeaves
<1>3. CASE i = 1
  BY <1>1, <1>2, <1>3
<1>4. CASE i # 1
  <2>1. i - 1 \in 1 .. Len(call'.todo) /\ (i - 1) + 1 = i
    BY <1>2, <1>4
  <2>2. call'.todo[i - 1] = a
    BY <1>1, <1>2, <2>1
  <2> QED
    BY <2>1, <2>2 DEF ToCome
<1> QED
  BY <1>3, <1>4

(* What the stores write.                                                  *)
LEMMA StepStores ==
  ASSUME IInv, Step
  PROVE  LET b == irq_bindings[call.pin.pin]
             c == irq_bindings'[call.pin.pin]
             step == Head(call.todo)
         IN /\ step = "PINS" => c.out = call.new.out /\ c.active = b.active
            /\ step = "VERB" => c.active = call.new.active /\ c.out = b.out
            /\ step \notin {"PINS", "VERB"} => c = b
<1> DEFINE l == call.pin.pin
<1>1. l \in Line /\ irq_bindings \in [Line -> Binding]
  BY StepFacts DEF IInv, TypeOK, Binding
<1>2. irq_bindings[l] \in Binding
  BY <1>1
<1>3. CASE Head(call.todo) = "PINS"
  <2>1. irq_bindings' = [irq_bindings EXCEPT ![l] = [@ EXCEPT !.in = call.new.in, !.out = call.new.out]]
    BY <1>3 DEF Step
  <2>2. irq_bindings'[l] = [irq_bindings[l] EXCEPT !.in = call.new.in, !.out = call.new.out]
    BY <1>1, <2>1
  <2> QED
    BY <1>2, <1>3, <2>2 DEF Binding
<1>4. CASE Head(call.todo) = "VERB"
  <2>1. irq_bindings' = [irq_bindings EXCEPT ![l] = [@ EXCEPT !.action = call.new.action,
                                                             !.active = call.new.active]]
    BY <1>4 DEF Step
  <2>2. irq_bindings'[l] = [irq_bindings[l] EXCEPT !.action = call.new.action, !.active = call.new.active]
    BY <1>1, <2>1
  <2> QED
    BY <1>2, <1>4, <2>2 DEF Binding
<1>5. CASE Head(call.todo) \notin {"PINS", "VERB"}
  BY <1>5 DEF Step
<1> QED
  BY <1>3, <1>4, <1>5

(* A store does not touch the registers.                                   *)
LEMMA StoreIsSilent ==
  ASSUME IInv, Step, Head(call.todo) \in {"PINS", "VERB", "READ", "WRITE"}
  PROVE  /\ UNCHANGED <<exticr, imr, rtsr, ftsr, nvic>>
         /\ \A p \in Pin : InterruptTrigger(p)' = InterruptTrigger(p)
<1>1. UNCHANGED <<exticr, imr, rtsr, ftsr, nvic>>
  BY DEF Step, Changed
<1> QED
  BY <1>1 DEF InterruptTrigger, LineTrigger

LEMMA StepCallOK ==
  ASSUME IInv, Step
  PROVE  CallOK'
<1> DEFINE todo == call.todo
<1>0. Len(todo) = 1 \/ Len(todo) > 1
  <2>1. Len(todo) \in Nat /\ Len(todo) > 0
    BY StepLeaves
  <2>2. \A n \in Nat : n > 0 => n = 1 \/ n > 1
    OBVIOUS
  <2> QED
    BY <2>1, <2>2
<1>1. CASE Len(todo) = 1
  BY <1>1, StepLeaves DEF CallOK
<1>2. CASE Len(todo) > 1
  <2>1. /\ Len(todo) \in Nat /\ Head(todo) = todo[1]
        /\ call' # None /\ call' \in Call /\ bound' = bound
        /\ call'.op = call.op /\ call'.pin = call.pin /\ call'.new = call.new
        /\ call'.promise = call.promise /\ call'.todo # <<>>
        /\ Len(call'.todo) = Len(todo) - 1
        /\ \A i \in 1 .. Len(call'.todo) : i + 1 \in 1 .. Len(todo) /\ call'.todo[i] = todo[i + 1]
    BY <1>2, StepLeaves
  <2>2. CallOK /\ call # None /\ 1 \in 1 .. Len(todo) /\ Len(call'.todo) \in 1 .. Len(call'.todo)
    BY <1>2, <2>1 DEF IInv, Step
  <2>3. ASSUME call.op # "TOGGLE" PROVE StoresDone'
    <3>1. StoresDone
      BY <2>2, <2>3 DEF CallOK
    <3>2. Len(call'.todo) + 1 = Len(todo)
      BY <2>1
    <3>3. call'.todo[Len(call'.todo)] \in {"PINS", "VERB"}
      BY <2>1, <2>2, <3>1, <3>2 DEF StoresDone
    <3>4. ~ ToCome("PINS")' => irq_bindings'[call.pin.pin].out = call.new.out
      BY <1>2, <3>1, StepToCome, StepStores DEF StoresDone
    <3>5. ~ ToCome("VERB")' => irq_bindings'[call.pin.pin].active = call.new.active
      BY <1>2, <3>1, StepToCome, StepStores DEF StoresDone
    <3> QED
      BY <2>1, <3>3, <3>4, <3>5 DEF StoresDone
  <2>4. ASSUME call.op = "OFF" PROVE OffQuiet'
    <3>1. OffQuiet
      BY <2>2, <2>4 DEF CallOK
    <3>2. Head(todo) # "NVIC" /\ (Head(todo) = "NVIC0" \/ Vector(call.pin.pin) \notin nvic)
      BY <2>1, <2>2, <3>1 DEF OffQuiet
    <3>3. Vector(call.pin.pin) \notin nvic'
      BY <3>2 DEF Step, Changed
    <3>4. ASSUME NEW i \in 1 .. Len(call'.todo)
          PROVE  call'.todo[i] # "NVIC" /\ (i > 1 => call'.todo[i] # "NVIC0")
      <4>1. i + 1 > 1 /\ i + 1 \in 1 .. Len(todo) /\ call'.todo[i] = todo[i + 1]
        BY <2>1
      <4> QED
        BY <3>1, <4>1 DEF OffQuiet
    <3> QED
      BY <2>1, <3>3, <3>4 DEF OffQuiet
  <2>5. ASSUME NEW S, \A i \in 1 .. Len(todo) : todo[i] \in S
        PROVE  \A i \in 1 .. Len(call'.todo) : call'.todo[i] \in S
    BY <2>1, <2>5
  <2>6. ASSUME call.op = "BIND" PROVE BindHolds'
    <3>1. BindHolds
      BY <2>2, <2>6 DEF CallOK
    <3>2. Head(todo) \in {"PINS", "VERB"}
      BY <2>1, <2>2, <3>1 DEF BindHolds
    <3>3. InterruptTrigger(call.pin)' = InterruptTrigger(call.pin)
      <4>1. UNCHANGED <<exticr, imr, rtsr, ftsr, nvic>>
        BY <3>2, StoreIsSilent
      <4> QED
        BY <2>1, <4>1 DEF InterruptTrigger, LineTrigger
    <3> QED
      BY <2>1, <2>5, <3>1, <3>3 DEF BindHolds
  <2>7. /\ call.op = "UNBIND" => \A i \in 1 .. Len(call'.todo) : call'.todo[i] \in {"PINS", "VERB"}
        /\ call.op = "TOGGLE" => \A i \in 1 .. Len(call'.todo) : call'.todo[i] \in {"READ", "WRITE"}
    BY <2>2, <2>5 DEF CallOK
  <2> QED
    BY <2>1, <2>2, <2>3, <2>4, <2>6, <2>7 DEF CallOK
<1> QED
  BY <1>0, <1>1, <1>2

LEMMA StepLines ==
  ASSUME IInv, Step
  PROVE  LinesInSync'
<1> DEFINE todo == call.todo
<1>0. PICK l \in Line : l = call.pin.pin
  BY StepFacts
<1>1. /\ l = call.pin.pin /\ call \in Call /\ call.pin \in Pin /\ call # None /\ CallOK /\ LinesInSync
      /\ call.op \in Op
  BY <1>0, StepFacts DEF IInv
<1>2. /\ DOMAIN irq_bindings = Line /\ DOMAIN bound = Line
  BY DEF IInv, TypeOK
<1>3. /\ Len(todo) \in Nat /\ Len(todo) > 0 /\ Head(todo) = todo[1] /\ (Len(todo) = 1 \/ Len(todo) > 1)
      /\ 1 \in 1 .. Len(todo)
  <2>1. Len(todo) \in Nat /\ Len(todo) > 0 /\ Head(todo) = todo[1]
    BY StepLeaves
  <2>2. \A n \in Nat : n > 0 => (n = 1 \/ n > 1) /\ 1 \in 1 .. n
    OBVIOUS
  <2> QED
    BY <2>1, <2>2
<1>4. ASSUME NEW k \in Line, k # l PROVE InSync(k)'
  <2>1. InSync(k)
    BY <1>1, <1>4 DEF LinesInSync, Undisturbed, Started
  <2>2. /\ exticr'[k] = exticr[k] /\ irq_bindings'[k] = irq_bindings[k] /\ bound'[k] = bound[k]
        /\ k \in imr' <=> k \in imr
        /\ k \in rtsr' <=> k \in rtsr
        /\ k \in ftsr' <=> k \in ftsr
    BY <1>1, <1>4, StepElsewhere
  <2> QED
    BY <2>1, <2>2 DEF InSync, InterruptTrigger, LineTrigger, IsValidPin
<1>5. CASE call.op = "TOGGLE"
  <2>1. InSync(l)
    BY <1>1, <1>5 DEF LinesInSync, Undisturbed
  <2>2. Head(todo) \in {"READ", "WRITE"}
    BY <1>1, <1>3, <1>5 DEF CallOK
  <2>3. /\ UNCHANGED <<exticr, imr, rtsr, ftsr, nvic>>
        /\ irq_bindings'[l] = irq_bindings[l]
        /\ bound' = bound
    BY <1>1, <1>3, <1>5, <2>2, StoreIsSilent, StepStores, StepLeaves
  <2>4. InSync(l)'
    BY <2>1, <2>3 DEF InSync, InterruptTrigger, LineTrigger, IsValidPin
  <2> QED
    BY <1>4, <2>4 DEF LinesInSync
<1>6. CASE call.op # "TOGGLE" /\ Len(todo) > 1
  <2>1. /\ call' # None /\ call'.op = call.op /\ call'.pin = call.pin /\ call'.todo # <<>> /\ call' \in Call
        /\ Len(call'.todo) = Len(todo) - 1
        /\ \A i \in 1 .. Len(call'.todo) : i + 1 \in 1 .. Len(todo) /\ call'.todo[i] = todo[i + 1]
    BY <1>6, StepLeaves
  <2>2. ASSUME call.op = "OFF" PROVE Head(call'.todo) # "NVIC0"
    <3>1. 1 \in 1 .. Len(call'.todo) /\ Head(call'.todo) = call'.todo[1]
      BY <1>3, <1>6, <2>1
    <3>2. 1 + 1 \in 1 .. Len(todo) /\ call'.todo[1] = todo[1 + 1] /\ 1 + 1 > 1
      BY <2>1, <3>1
    <3>3. OffQuiet
      BY <1>1, <2>2 DEF CallOK
    <3> QED
      BY <3>1, <3>2, <3>3 DEF OffQuiet
  <2>3. ~ Undisturbed(l)'
    BY <1>1, <1>6, <2>1, <2>2 DEF Undisturbed, Started
  <2> QED
    BY <1>4, <2>3 DEF LinesInSync
<1>7. CASE call.op # "TOGGLE" /\ Len(todo) = 1
  <2>1. bound'[l] = call.promise
    BY <1>1, <1>2, <1>7, StepLeaves
  <2>2. StoresDone
    BY <1>1, <1>7 DEF CallOK
  <2>3. Head(todo) \in {"PINS", "VERB"} /\ \A a : ToCome(a) <=> a = Head(todo)
    BY <1>3, <1>7, <2>2 DEF StoresDone, ToCome
  <2>4. irq_bindings'[l].out = call.new.out /\ irq_bindings'[l].active = call.new.active
    <3>1. CASE Head(todo) = "PINS"
      BY <1>1, <2>2, <2>3, <3>1, StepStores DEF StoresDone
    <3>2. CASE Head(todo) = "VERB"
      BY <1>1, <2>2, <2>3, <3>2, StepStores DEF StoresDone
    <3> QED
      BY <2>3, <3>1, <3>2
  <2>5. CASE call.op = "BIND"
    <3>1. BindHolds
      BY <1>1, <2>5 DEF CallOK
    <3>2. UNCHANGED <<exticr, imr, rtsr, ftsr, nvic>>
      BY <2>3, StoreIsSilent
    <3>3. /\ bound'[l].pin = call.pin /\ bound'[l].out = call.new.out
          /\ bound'[l].edge = InterruptTrigger(call.pin) /\ bound'[l] # None /\ irq_bindings'[l].active
      BY <2>1, <2>4, <3>1, NoneIsNothing DEF BindHolds
    <3>4. InSync(l)'
      BY <1>1, <2>4, <3>2, <3>3 DEF InSync, InterruptTrigger, LineTrigger, IsValidPin
    <3> QED
      BY <1>4, <3>4 DEF LinesInSync
  <2>6. CASE call.op # "BIND"
    <3>1. call.promise = None /\ call.new = NoBinding
      BY <1>1, <1>7, <2>6 DEF CallOK, Op
    <3>2. InSync(l)'
      BY <2>1, <2>4, <3>1 DEF InSync, NoBinding
    <3> QED
      BY <1>4, <3>2 DEF LinesInSync
  <2> QED
    BY <2>5, <2>6
<1> QED
  BY <1>3, <1>5, <1>6, <1>7

LEMMA StepFires ==
  ASSUME IInv, Step
  PROVE  FiresFresh'
<1> DEFINE l == call.pin.pin
           todo == call.todo
<1> SUFFICES ASSUME NEW k \in Line, CanFire(k)', ~ (Started(k) /\ call.op = "ARM")'
             PROVE  FALSE
  BY DEF FiresFresh
<1>1. /\ l \in Line /\ call \in Call /\ call # None /\ CallOK /\ pr' = pr /\ call.op \in Op
  BY StepFacts DEF IInv
<1>2. ~ CanFire(k)
  BY MainRunsMeansSilent DEF Step
<1>3. k = l
  BY <1>1, <1>2, StepElsewhere DEF CanFire
<1>4. Head(todo) \in {"IMR", "NVIC"}
  BY <1>1, <1>2, <1>3 DEF CanFire, Step, Changed
<1>5. /\ Len(todo) \in Nat /\ Len(todo) > 0 /\ Head(todo) = todo[1] /\ (Len(todo) = 1 \/ Len(todo) > 1)
      /\ 1 \in 1 .. Len(todo)
  <2>1. Len(todo) \in Nat /\ Len(todo) > 0 /\ Head(todo) = todo[1]
    BY StepLeaves
  <2>2. \A n \in Nat : n > 0 => (n = 1 \/ n > 1) /\ 1 \in 1 .. n
    OBVIOUS
  <2> QED
    BY <2>1, <2>2
<1>6. call.op \in {"ARM", "OFF"}
  BY <1>1, <1>4, <1>5 DEF CallOK, BindHolds, Op
<1>7. StoresDone
  BY <1>1, <1>6 DEF CallOK
<1>8. Len(todo) > 1
  BY <1>4, <1>5, <1>7 DEF StoresDone
<1>9. CASE call.op = "ARM"
  BY <1>3, <1>8, <1>9, StepLeaves DEF Started
<1>10. CASE call.op = "OFF"
  <2>1. OffQuiet
    BY <1>1, <1>10 DEF CallOK
  <2>2. Head(todo) # "NVIC" /\ Head(todo) # "NVIC0"
    BY <1>4, <1>5, <2>1 DEF OffQuiet
  <2>3. Vector(l) \notin nvic'
    BY <2>1, <2>2 DEF OffQuiet, Step, Changed
  <2> QED
    BY <1>3, <2>3 DEF CanFire
<1> QED
  BY <1>6, <1>9, <1>10

LEMMA StepKeeps ==
  ASSUME IInv, Step
  PROVE  IInv'
<1>1. act' = None
  BY DEF Step
<1> QED
  BY <1>1, StepType, StepCallOK, StepLines, StepFires
     DEF IInv, ExactBetweenCommands, ExactWhileDisarming, Exact
-----------------------------------------------------------------------------
(* The inputs and the handlers, which leave tables and registers alone.    *)
LEMMA EdgeKeeps ==
  ASSUME IInv, NEW p \in Input, NEW kind \in EdgeKind, PinEdge(p, kind)
  PROVE  IInv'
<1> DEFINE l == p.pin
<1>1. /\ exticr[l] = p.port /\ l \in IF kind = "RISING" THEN rtsr ELSE ftsr
      /\ pr' = pr \cup {l} /\ cause' = [cause EXCEPT ![l] = [pin |-> p, kind |-> kind]]
      /\ act' = None
      /\ UNCHANGED <<moder, odr, exticr, imr, rtsr, ftsr, nvic, irq_callbacks, irq_bindings, call, bound>>
  BY DEF PinEdge
<1>2. p \in Pin /\ l \in Line /\ p = [port |-> p.port, pin |-> l]
  BY InputsOutputs, PinFields
<1>3. [pin |-> p, kind |-> kind] \in [pin : Input, kind : EdgeKind]
  OBVIOUS
<1>4. TypeOK'
  BY <1>1, <1>2, <1>3 DEF IInv, TypeOK, PinsTypeOK, ExtiTypeOK
<1>5. CallOK'
  BY <1>1 DEF IInv, CallOK, StoresDone, ToCome, OffQuiet, BindHolds, InterruptTrigger, LineTrigger
<1>6. LinesInSync'
  BY <1>1 DEF IInv, LinesInSync, Undisturbed, Started, InSync, InterruptTrigger, LineTrigger
<1>7. FiresFresh'
  <2>1. DOMAIN cause = Line
    BY DEF IInv, TypeOK
  <2>2. Fresh(l)'
    <3>1. cause'[l] = [pin |-> p, kind |-> kind]
      BY <1>1, <1>2, <2>1
    <3>2. cause'[l] # None
      BY <1>3, <3>1, NoneIsNothing
    <3> QED
      BY <1>1, <1>2, <3>1, <3>2 DEF Fresh
  <2>3. ASSUME NEW k \in Line, k # l, (CanFire(k) /\ ~ (Started(k) /\ call.op = "ARM"))'
        PROVE  Fresh(k)'
    <3>1. CanFire(k) /\ ~ (Started(k) /\ call.op = "ARM")
      BY <1>1, <2>3 DEF CanFire, Started
    <3>2. Fresh(k)
      BY <3>1 DEF IInv, FiresFresh
    <3>3. cause'[k] = cause[k]
      BY <1>1, <2>1, <2>3
    <3> QED
      BY <1>1, <3>2, <3>3 DEF Fresh
  <2> QED
    BY <2>2, <2>3 DEF FiresFresh
<1> QED
  BY <1>1, <1>4, <1>5, <1>6, <1>7 DEF IInv, ExactBetweenCommands, ExactWhileDisarming, Exact

LEMMA HandlerKeeps ==
  ASSUME IInv, NEW l \in Line, Handler(l)
  PROVE  IInv'
<1> DEFINE b == irq_bindings[l]
           did == [pin |-> cause[l].pin, kind |-> cause[l].kind, out |-> b.out]
<1>1. /\ Vector(l) \in nvic /\ l \in pr \cap imr /\ pr' = {}
      /\ UNCHANGED <<moder, exticr, imr, rtsr, ftsr, nvic, irq_callbacks, irq_bindings, call, bound, cause>>
  BY DEF Handler, Servable
<1>2. \/ act' = None /\ odr' = odr
      \/ b.active /\ act' = did /\ GpioDrive(b.out, b.action = "HIGH" \/ (b.action = "TOGGLE" /\ ~ odr[b.out]))
  BY DEF Handler
<1>3. CanFire(l)
  BY <1>1 DEF CanFire
<1>4. b \in Binding /\ b.out \in Pin
  BY DEF IInv, TypeOK, Binding
<1>5. TypeOK'
  <2>1. odr \in [Pin -> BOOLEAN]
    BY DEF IInv, TypeOK, PinsTypeOK
  <2>2. odr' \in [Pin -> BOOLEAN]
    BY <1>2, <2>1 DEF GpioDrive
  <2>3. act' = None \/ act'.out \in Pin
    BY <1>2, <1>4
  <2> QED
    BY <1>1, <2>2, <2>3 DEF IInv, TypeOK, PinsTypeOK, ExtiTypeOK
<1>6. CallOK'
  BY <1>1 DEF IInv, CallOK, StoresDone, ToCome, OffQuiet, BindHolds, InterruptTrigger, LineTrigger
<1>7. LinesInSync'
  BY <1>1 DEF IInv, LinesInSync, Undisturbed, Started, InSync, InterruptTrigger, LineTrigger
<1>8. FiresFresh'
  BY <1>1 DEF FiresFresh, CanFire
<1>9. ASSUME call = None \/ call.op = "OFF" PROVE Exact'
  <2> SUFFICES ASSUME act' # None PROVE Exact'
    BY DEF Exact
  <2>1. b.active /\ act' = did
    BY <1>2
  <2>2. Fresh(l)
    BY <1>3, <1>9 DEF IInv, FiresFresh, Started
  <2>3. cause[l] # None /\ cause[l] \in [pin : Input, kind : EdgeKind]
    BY <2>2 DEF Fresh, IInv, TypeOK
  <2>4. cause[l].pin = [port |-> exticr[l], pin |-> l] /\ cause[l].kind \in EdgeKind
    BY <2>2, <2>3 DEF Fresh
  <2>5. InSync(l)
    <3>1. Undisturbed(l)
      BY <1>1, <1>9 DEF Undisturbed, Started, IInv, CallOK, OffQuiet
    <3> QED
      BY <3>1 DEF IInv, LinesInSync
  <2>6. /\ bound[l] # None /\ bound[l].pin.pin = l /\ b.out = bound[l].out
        /\ InterruptTrigger(bound[l].pin) = bound[l].edge
    BY <2>1, <2>5 DEF InSync
  <2>7. bound[l] \in Promise
    BY <2>6 DEF IInv, TypeOK
  <2>8. bound[l].pin \in Pin /\ bound[l].edge \in Trigger
    BY <2>7, PreemptAssumption, InputsOutputs DEF Promise
  <2>9. exticr[l] = bound[l].pin.port /\ LineTrigger(l) = bound[l].edge
    BY <2>6, <2>8 DEF InterruptTrigger, Trigger
  <2>10. bound[l].pin = cause[l].pin
    BY <2>4, <2>6, <2>8, <2>9, PinFields
  <2>11. bound[l].edge = "BOTH" \/ bound[l].edge = cause[l].kind
    BY <2>2, <2>4, <2>9 DEF Fresh, LineTrigger, EdgeKind
  <2>12. act'.pin = cause[l].pin /\ act'.kind = cause[l].kind /\ act'.out = b.out /\ act'.pin.pin = l
    BY <2>1, <2>4
  <2>13. bound[l] \in InForce(act.pin.pin)' /\ RightEdge(bound[l])'
    BY <1>1, <2>6, <2>10, <2>11, <2>12 DEF InForce, RightEdge
  <2> QED
    BY <1>1, <2>6, <2>12, <2>13 DEF Exact
<1>10. (ExactBetweenCommands /\ ExactWhileDisarming)'
  BY <1>1, <1>9 DEF ExactBetweenCommands, ExactWhileDisarming
<1> QED
  BY <1>5, <1>6, <1>7, <1>8, <1>10 DEF IInv

LEMMA StutterKeeps ==
  ASSUME IInv, UNCHANGED vars
  PROVE  IInv'
<1>1. UNCHANGED <<moder, odr, exticr, imr, rtsr, ftsr, pr, nvic, irq_callbacks, irq_bindings, call, bound, cause, act>>
  BY DEF vars, extiVars
<1>2. TypeOK'
  BY <1>1 DEF IInv, TypeOK, PinsTypeOK, ExtiTypeOK
<1>3. CallOK'
  BY <1>1 DEF IInv, CallOK, StoresDone, ToCome, OffQuiet, BindHolds, InterruptTrigger, LineTrigger
<1>4. LinesInSync'
  BY <1>1 DEF IInv, LinesInSync, Undisturbed, Started, InSync, InterruptTrigger, LineTrigger
<1>5. FiresFresh'
  BY <1>1 DEF IInv, FiresFresh, CanFire, Started, Fresh
<1>6. (ExactBetweenCommands /\ ExactWhileDisarming)'
  BY <1>1 DEF IInv, ExactBetweenCommands, ExactWhileDisarming, Exact, InForce, RightEdge
<1> QED
  BY <1>2, <1>3, <1>4, <1>5, <1>6 DEF IInv

LEMMA Invariance == Spec => []IInv
<1>1. IInv /\ [Next]_vars => IInv'
  BY StepKeeps, ArmKeeps, DisarmKeeps, BindKeeps, UnbindKeeps, ToggleKeeps, EdgeKeeps, HandlerKeeps,
     StutterKeeps DEF Next
<1> QED
  BY <1>1, InitIInv, PTL DEF Spec
-----------------------------------------------------------------------------
(* Registers, tables and the command under way stay in range, and a        *)
(* handler that acts drives a pin that exists.                             *)
THEOREM PreemptTypeCorrect == Spec => []TypeOK
<1>1. IInv => TypeOK
  BY DEF IInv
<1> QED
  BY <1>1, Invariance, PTL

(* Between commands a handler acts only on an edge, and on an output, that *)
(* the host has bound, however commands and interrupts came before.        *)
THEOREM AlwaysExactBetweenCommands == Spec => []ExactBetweenCommands
<1>1. IInv => ExactBetweenCommands
  BY DEF IInv
<1> QED
  BY <1>1, Invariance, PTL

(* The same at every access of gpio_deinit_interrupt and of the irq_unbind *)
(* that follows it.                                                        *)
THEOREM AlwaysExactWhileDisarming == Spec => []ExactWhileDisarming
<1>1. IInv => ExactWhileDisarming
  BY DEF IInv
<1> QED
  BY <1>1, Invariance, PTL

(* Whenever no command is under way, the binding table and the EXTI        *)
(* registers say what the host was told.                                   *)
THEOREM TablesAlwaysFollowHost == Spec => []TablesFollowHost
<1>1. IInv => TablesFollowHost
  BY DEF IInv, LinesInSync, Undisturbed, Started, InSync, TablesFollowHost
<1> QED
  BY <1>1, Invariance, PTL
=============================================================================
