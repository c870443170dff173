SPECIFICATION RetuneSpec
CONSTANTS
  Port <- MCPort
  Line <- MCLine
  Pin <- MCPin
  Reserved = {}
  BootAf = {}
  Instance <- MCInstance
  Channel <- MCChannel
  PinOf <- MCPinOf
  ClkHz = 12
  FreqMin = 1
  FreqMax = 6
  PrescalerMax = 1
  ReloadMax = 3
  DutyMax = 2
INVARIANT TimebaseIsBest
PROPERTY MixLastsOnePeriod
