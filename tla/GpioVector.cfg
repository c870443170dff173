SPECIFICATION Spec
CONSTANTS
  Port <- MCPort
  PortA = "A"
  Line <- SharedLine
  Pin <- SharedPin
  Reserved = {}
  BootAf = {}
  BadPin = BadPin
  WireEdge = {"OFF", "BOTH"}
  WireAction = {"TOGGLE"}
INVARIANT ArmedVectorEnabled
