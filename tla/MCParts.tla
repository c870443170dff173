------------------------------ MODULE MCParts -------------------------------
(***************************************************************************)
(* Instances for TLC of the three parts a received byte goes through: the  *)
(* queue (RingBuffer), the parser (FrameParser) and the checksum (CrcLink).*)
(* They share no variable and are not interleaved: a behaviour is one of   *)
(* one part, with the others as they begin.                                *)
(***************************************************************************)
EXTENDS RingBuffer, FrameParser, CrcLink

PartsInit == RingInit /\ FrameInit /\ CrcInit

RingSteps == FrameInit /\ CrcInit /\ RingNext /\ UNCHANGED <<frameVars, crcVars>>
FrameSteps == RingInit /\ CrcInit /\ FrameNext /\ UNCHANGED <<ringVars, crcVars>>
CrcSteps == RingInit /\ FrameInit /\ CrcNext /\ UNCHANGED <<ringVars, frameVars>>

PartsNext == RingSteps \/ FrameSteps \/ CrcSteps
PartsSpec == PartsInit /\ [][PartsNext]_<<ringVars, frameVars, crcVars>>

-----------------------------------------------------------------------------
(* Frames.  Three bytes are enough to be a start byte and a length that is *)
(* too long, the greatest length, and no payload at all.                   *)
MCByte == {0, 2, 3}
Letter(n) == IF n = 0 THEN 0 ELSE n + 1

(* Two check bytes that weigh the positions of a body differently.         *)
MCCrc(b) ==
  LET At(k) == IF k <= Len(b) THEN b[k] ELSE 0 IN
  <<Letter((1 + At(1) + At(2) + At(3) + At(4)) % 3),
    Letter((At(1) + 2 * At(2) + At(3) + 2 * At(4)) % 3)>>

(* A frame the host sends holds no start byte past its first.              *)
MCHostBody ==
  {b \in {<<0, 0>>, <<2, 0>>, <<3, 0>>} \cup {<<o, 2, p, q>> : o \in MCByte, p, q \in {0, 2}} :
     \A k \in 2 .. Len(Encoded(b)) : Encoded(b)[k] # SofByte}

-----------------------------------------------------------------------------
(* The checksum.  The bytes 0xB9 and 0x9A: the checksum of the empty       *)
(* command 0xB9 is 0xB99A, so of the command with payload 9A B9 one flipped *)
(* bit of LENGTH, 02 to 00, makes one that is accepted.                    *)
MCBodyByte == {{0, 3, 4, 5, 7}, {1, 3, 4, 7}}
=============================================================================
