\* Up to three commands unanswered fit the receive queue of one frame each.
SPECIFICATION Spec
CONSTANTS
  FrameSize = 5
  RxSize = 16
  LogDepth = 8
  Outstanding = 3
INVARIANTS
  NothingLost
PROPERTIES
  HostIsAnswered
  LogIsWritten
