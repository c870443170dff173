\* A ring of 4 slots; frames of up to two payload bytes; command frames
\* of that size on a wire that damages one byte or flips up to three bits.
SPECIFICATION PartsSpec
CONSTANTS
  Value = {1, 2}
  Words = 2
  Capacity = 4
  OnFull = {"EVICT", "REFUSE"}
  Guarded = TRUE
  Byte <- MCByte
  SofByte = 3
  MaxPayload = 2
  Crc <- MCCrc
  HostBody <- MCHostBody
  BodyByte <- MCBodyByte
  MaxLength = 2
  MaxHits = 1
  MaxFlips = 3
INVARIANTS
  AcceptedExactly
  LossIsBounded
  OneHitCaught
  ThreeFlipsCaught
  SumIsRemainder
PROPERTIES
  ImplementsBoundedFifo
\* A checksum stops at its verdict.
CHECK_DEADLOCK FALSE
