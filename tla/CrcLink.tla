------------------------------ MODULE CrcLink -------------------------------
(***************************************************************************)
(* A command frame on its way over the wire, from the byte after the start *)
(* byte on, where both sides are in step.  Sender and receiver each keep their own place in the frame:   *)
(* the receiver's body ends where the LENGTH it got says.  Each runs the   *)
(* checksum over what it sees of the body, the sender appends its own, low *)
(* byte first, and the receiver accepts if the two agree.  The wire may    *)
(* damage every byte, LENGTH included.                                     *)
(***************************************************************************)
EXTENDS Crc16, Sequences, FiniteSets

CONSTANTS BodyByte,   \* the bytes a frame is made of, LENGTH and checksum aside
          MaxLength,  \* RX_MAX_PAYLOAD
          MaxHits,    \* the wire damages at most so many bytes of a frame,
          MaxFlips    \* in any way, or flips at most so many bits of it

ASSUME CrcLinkAssumption ==
  /\ BodyByte \subseteq Octet
  /\ MaxLength \in Nat /\ MaxHits \in Nat /\ MaxFlips \in Nat

VARIABLES sender,     \* the field that is sent next and, of the payload,
          receiver,   \* how many bytes are left; what the receiver takes it for
          body,       \* history: the bytes the checksum covers, sent so far
          sum,        \* the sender's checksum of them
          computed,   \* the receiver's checksum of what it took for the body
          low,        \* what it took for the first byte of the checksum
          hits,       \* history: the bytes damaged so far
          flips,      \* history: the bits flipped so far
          lengthHit,  \* history: LENGTH is among the damaged bytes
          phase       \* RECEIVING, then the receiver's verdict

crcVars == <<sender, receiver, body, sum, computed, low, hits, flips, lengthHit, phase>>

BodyField == {"OPCODE", "LENGTH", "PAYLOAD"}
FramePlace == [field : BodyField \cup {"CRC_LOW", "CRC_HIGH", "END"}, left : Nat]
AtField(f) == [field |-> f, left |-> 0]

CrcTypeOK ==
  /\ sender \in FramePlace /\ receiver \in FramePlace
  /\ body \in Seq(Octet)
  /\ sum \in Word /\ computed \in Word /\ low \in Octet
  /\ hits \in Nat /\ flips \in Nat /\ lengthHit \in BOOLEAN
  /\ phase \in {"RECEIVING", "ACCEPTED", "DISCARDED"}

CrcInit ==
  /\ sender = AtField("OPCODE") /\ receiver = AtField("OPCODE")
  /\ body = <<>>
  /\ sum = InitialCrc /\ computed = InitialCrc /\ low = {}
  /\ hits = 0 /\ flips = 0 /\ lengthHit = FALSE
  /\ phase = "RECEIVING"

Number(b) ==
  LET Bit(i, weight) == IF i \in b THEN weight ELSE 0 IN
  Bit(0, 1) + Bit(1, 2) + Bit(2, 4) + Bit(3, 8) + Bit(4, 16) + Bit(5, 32) + Bit(6, 64) + Bit(7, 128)

(* The place in a frame after byte b.                                      *)
After(at, b) ==
  CASE at.field = "OPCODE" -> AtField("LENGTH")
    [] at.field = "LENGTH" /\ Number(b) > 0 -> [field |-> "PAYLOAD", left |-> Number(b)]
    [] at.field = "LENGTH" /\ Number(b) = 0 -> AtField("CRC_LOW")
    [] at.field = "PAYLOAD" /\ at.left > 1 -> [at EXCEPT !.left = @ - 1]
    [] at.field = "PAYLOAD" /\ at.left <= 1 -> AtField("CRC_LOW")
    [] at.field = "CRC_LOW" -> AtField("CRC_HIGH")
    [] OTHER -> AtField("END")

(* build_command, and after it whatever the host sends next.               *)
Offered ==
  CASE sender.field = "LENGTH" -> {b \in Octet : Number(b) <= MaxLength}
    [] sender.field = "CRC_LOW" -> {LowByte(sum)}
    [] sender.field = "CRC_HIGH" -> {HighByte(sum)}
    [] OTHER -> BodyByte

Sends(b) ==
  /\ sender' = After(sender, b)
  /\ IF sender.field \in BodyField
     THEN body' = Append(body, b) /\ sum' = ByteStep(sum, b)
     ELSE UNCHANGED <<body, sum>>

(* The wire delivers got for b.                                            *)
Arrives(b, got) ==
  \/ got = b /\ UNCHANGED <<hits, flips, lengthHit>>
  \/ /\ got # b /\ sender.field # "END"
     /\ hits' = hits + 1
     /\ flips' = flips + Cardinality(Xor(b, got))
     /\ hits' <= MaxHits \/ flips' <= MaxFlips
     /\ lengthHit' = (lengthHit \/ sender.field = "LENGTH")

(* frame_parser_feed in its states OPCODE, LENGTH and PAYLOAD, and the turn *)
(* of crc16_compute's loop the byte will cause.                            *)
TakesBody(got) ==
  /\ receiver.field \in BodyField
  /\ computed' = ByteStep(computed, got)
  /\ IF receiver.field = "LENGTH" /\ Number(got) > MaxLength
     THEN receiver' = AtField("END") /\ phase' = "DISCARDED"
     ELSE receiver' = After(receiver, got) /\ UNCHANGED phase
  /\ UNCHANGED low

TakesCrcLow(got) ==
  /\ receiver.field = "CRC_LOW"
  /\ low' = got
  /\ receiver' = After(receiver, got)
  /\ UNCHANGED <<computed, phase>>

(* crc16_compare, on the word frame_parser_get_crc puts together.          *)
AgreesInLowByte(got) == LowByte(computed) = low
Agrees(got) == computed = JoinBytes(low, got)

TakesCrcHigh(got) ==
  /\ receiver.field = "CRC_HIGH"
  /\ phase' = IF Agrees(got) THEN "ACCEPTED" ELSE "DISCARDED"
  /\ receiver' = After(receiver, got)
  /\ UNCHANGED <<computed, low>>

Transfer(b, got) ==
  /\ phase = "RECEIVING"
  /\ Arrives(b, got) /\ Sends(b)
  /\ TakesBody(got) \/ TakesCrcLow(got) \/ TakesCrcHigh(got)

CrcNext == \E b \in Offered, got \in Octet : Transfer(b, got)

CrcSpec == CrcInit /\ [][CrcNext]_crcVars
-----------------------------------------------------------------------------
(* What the checksum of a body is: a message is a polynomial over GF(2),   *)
(* its first bit the highest power, given by the exponents of its terms;   *)
(* the initial value is added to its first sixteen bits; the checksum is   *)
(* the remainder of x^16 times that on division by x^16 + x^12 + x^5 + 1.  *)
Divisor == {16, 12, 5, 0}
Shifted(p, k) == {i + k : i \in p}

Dividend(s) ==
  LET n == Len(s) IN
  Xor(UNION {Shifted(s[k], 8 * (n - k) + 16) : k \in 1 .. n}, Shifted(InitialCrc, 8 * n))

(* Long division: cancel the terms of degree 16 and more, highest first.   *)
Cancel(p, d) == IF d \in p THEN Xor(p, Shifted(Divisor, d - 16)) ELSE p

Remainder(s) ==
  LET n == 8 * Len(s)
      rest[k \in 0 .. n] == IF k = 0 THEN Dividend(s) ELSE Cancel(rest[k - 1], n + 16 - k)
  IN  rest[n]

(* The loop over bytes and bits computes the documented CRC16-CCITT: the   *)
(* remainder for polynomial 0x1021, initial value 0xFFFF, no reflection.   *)
SumIsRemainder == sum = Remainder(body)

(* However a single byte after the start byte is damaged, in the body or   *)
(* the checksum, LENGTH excepted, and however long the body: the frame is  *)
(* not accepted.  (A LENGTH that is damaged moves the receiver's checksum  *)
(* onto bytes that were not sent as one; they may agree by chance.)        *)
OneHitCaught == phase = "ACCEPTED" /\ hits = 1 => lengthHit

(* Up to three flipped bits outside LENGTH, wherever they are, are noticed *)
(* too.                                                                    *)
ThreeFlipsCaught == phase = "ACCEPTED" /\ flips \in 1 .. 3 => lengthHit

(* More than three may get through, but never an odd number of them unless *)
(* LENGTH is hit.                                                          *)
OddFlipsCaught == phase = "ACCEPTED" /\ flips % 2 = 1 => lengthHit

(* What is not damaged is not refused.                                     *)
UndamagedIsAccepted == phase = "DISCARDED" => hits > 0
=============================================================================
