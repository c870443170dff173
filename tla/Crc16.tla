------------------------------- MODULE Crc16 --------------------------------
(***************************************************************************)
(* The checksum of common/crc16.c and of the host's protocol.py.  A word   *)
(* is the set of the positions of its one bits: << 1 moves every position  *)
(* up, uint16_t drops position 16, ^ is the symmetric difference.          *)
(***************************************************************************)
EXTENDS Integers

Word == SUBSET (0 .. 15)
Octet == SUBSET (0 .. 7)

Xor(a, b) == (a \ b) \cup (b \ a)

(* CRC16_MCUCO is 0x1021, CRC16_CCITT_INIT is 0xFFFF.                      *)
Poly == {0, 5, 12}
InitialCrc == 0 .. 15

ShiftLeft(a) == {i + 1 : i \in a \ {15}}

BitStepShiftsAfter(crc) ==
  IF 15 \in crc THEN ShiftLeft(Xor(crc, Poly)) ELSE ShiftLeft(crc)

BitStep(crc) ==
  IF 15 \in crc THEN Xor(ShiftLeft(crc), Poly) ELSE ShiftLeft(crc)

EightBits(crc) ==
  BitStep(BitStep(BitStep(BitStep(BitStep(BitStep(BitStep(BitStep(crc))))))))

(* One byte of the message: into the high half, then eight bits.           *)
ByteStepLowHalf(crc, b) == EightBits(Xor(crc, b))
ByteStep(crc, b) == EightBits(Xor(crc, {i + 8 : i \in b}))

(* The two bytes of a checksum, which a frame carries low byte first.      *)
LowByte(crc) == crc \cap 0 .. 7
HighByte(crc) == {i - 8 : i \in crc \cap 8 .. 15}
JoinBytes(low, high) == low \cup {i + 8 : i \in high}
=============================================================================
