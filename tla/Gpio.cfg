\* Two ports contend for line 5; line 6 shares its vector.
SPECIFICATION Spec
CONSTANTS
  Port <- MCPort
  PortA = "A"
  Line <- SharedLine
  Pin <- SharedPin
  Reserved = {}
  BootAf = {}
  BadPin = BadPin
  WireEdge = {"OFF", "BOTH"}
  WireAction = {"TOGGLE"}
INVARIANTS BindingArmed
PROPERTIES BoundLineFrozen LineNeverStolen OnlyOutputsMove ImplementsIrqLines
