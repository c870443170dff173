\* The 20 polls of a wait allow every answer to come late or never; the
\* counter wraps after 8 ticks of 4 instants.
SPECIFICATION PlatformSpec
CONSTANTS
  ReadyTimeout = 20
  Modulus = 8
  Sub = 4
  Delay = {0, 1, 2, 5, 7}
INVARIANTS
  WithinLimits
  SysclkIsTrue
  DelayLasts
PROPERTIES
  BootEnds
\* A boot that fails halts.
CHECK_DEADLOCK FALSE
