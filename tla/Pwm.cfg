\* At 12 Hz, 6 needs no prescaler, 2 needs one, 1 cannot be reached.
SPECIFICATION Spec
CONSTANTS
  Port <- MCPort
  Line <- MCLine
  Pin <- TwoGroupPin
  Reserved = {}
  BootAf = {}
  Instance <- MCInstance
  Channel <- MCChannel
  PinOf <- MCPinOf
  ClkHz = 12
  FreqMin = 1
  FreqMax = 12
  PrescalerMax = 1
  ReloadMax = 3
  DutyMax = 4
  BadPin = BadPin
  BadGroup = BadGroup
  WireFreq = {1, 2, 6}
  WireDuty = {2, 4, 5}
INVARIANTS ClaimedChannelDrives UnclaimedChannelSilent DutyIsAccurate FirstPeriodOnTarget
PROPERTIES FrequencyFrozen
