\* 4 Hz is one tick per period, which no reload can give.
SPECIFICATION FwFairSpec
CONSTANTS
  Port <- MCPort
  Line <- MCLine
  Pin <- MCPin
  Reserved <- MCReserved
  BootAf <- MCReserved
  PortA = "A"
  BadPin = BadPin
  WireEdge = {"RISING", "OFF", "OTHER"}
  WireAction = {"TOGGLE", "OTHER"}
  Instance <- MCInstance
  Channel <- MCChannel
  PinOf <- MCPinOf
  ClkHz = 4
  FreqMin = 1
  FreqMax = 4
  PrescalerMax = 1
  ReloadMax = 3
  DutyMax = 1
  BadGroup = BadGroup
  WireFreq = {1, 4}
  WireDuty = {0, 1, 2}
INVARIANTS
  AfHasOwner
  OwnVectorEnabled
PROPERTIES
  PwmNeverTakesFromGpio
  DutyReachesOutput
  PendingIsServed
