SPECIFICATION Spec
CONSTANTS
  Port <- MCPort
  Line <- MCLine
  Pin <- MCPin
  Reserved = {}
  BootAf = {}
  PortA = "A"
  Input <- MCInput
  Output <- MCOutput
  ZeroPin <- MCZeroPin
  HostEdge = {"RISING", "FALLING", "BOTH"}
  HostAction = {"HIGH", "TOGGLE"}
INVARIANTS ExactBetweenCommands ExactWhileDisarming TablesFollowHost
