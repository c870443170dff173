------------------------------ MODULE IrqLines ------------------------------
(***************************************************************************)
(* What the interrupt service promises the host, without its registers.    *)
(* An interrupt line is off, armed by one port for one trigger, or bound:  *)
(* armed and carrying one action on one output pin.                        *)
(*   - A line passes from one port to another only by being off.           *)
(*   - A binding is made on an armed line for the armed trigger, and stays *)
(*     what it is, trigger included, until it is dropped.                  *)
(*   - While a handler runs no command is carried out, and the only output *)
(*     it may move is that of the bound line it serves, as the action says.*)
(***************************************************************************)
CONSTANTS Port, Line, Pin

VARIABLES line,     \* the state of each line
          level,    \* the level of each output
          serving   \* the lines the running handler has still to serve

lineVars == <<line, level, serving>>

Trigger == {"RISING", "FALLING", "BOTH"}
Off == [mode |-> "OFF"]
Armed(port, t) == [mode |-> "ARMED", port |-> port, trigger |-> t]
Bound(port, t, out, action) ==
  [mode |-> "BOUND", port |-> port, trigger |-> t, out |-> out, action |-> action]

Init ==
  /\ line = [l \in Line |-> Off]
  /\ level = [p \in Pin |-> FALSE]
  /\ serving = {}

(* A command that concerns line l.                                         *)
Change(l, s) ==
  /\ serving = {}
  /\ line' = [line EXCEPT ![l] = s]
  /\ UNCHANGED <<level, serving>>

Arm(l, port, t) ==
  /\ line[l] # Off => line[l].port = port
  /\ Change(l, Armed(port, t))

Disarm(l) == Change(l, Off)

Bind(l, out, action) ==
  /\ line[l].mode = "ARMED"
  /\ Change(l, Bound(line[l].port, line[l].trigger, out, action))

Unbind(l) ==
  /\ line[l].mode = "BOUND"
  /\ Change(l, Armed(line[l].port, line[l].trigger))

(* The host sets, resets or toggles an output.                             *)
Drive(p, v) ==
  /\ serving = {}
  /\ level' = [level EXCEPT ![p] = v]
  /\ UNCHANGED <<line, serving>>

Enter(S) ==
  /\ serving = {}
  /\ serving' = S
  /\ UNCHANGED <<line, level>>

ActionLevel(s) ==
  s.action = "HIGH" \/ (s.action = "TOGGLE" /\ ~ level[s.out])

Serve(l) ==
  /\ l \in serving
  /\ serving' = serving \ {l}
  /\ \/ UNCHANGED level
     \/ /\ line[l].mode = "BOUND"
        /\ level' = [level EXCEPT ![line[l].out] = ActionLevel(line[l])]
  /\ UNCHANGED line

Next ==
  \/ \E l \in Line :
       \/ Disarm(l) \/ Unbind(l) \/ Serve(l)
       \/ \E port \in Port, t \in Trigger : Arm(l, port, t)
       \/ \E out \in Pin, action \in {"LOW", "HIGH", "TOGGLE"} : Bind(l, out, action)
  \/ \E p \in Pin, v \in BOOLEAN : Drive(p, v)
  \/ \E S \in SUBSET Line : Enter(S)

Spec == Init /\ [][Next]_lineVars
=============================================================================
