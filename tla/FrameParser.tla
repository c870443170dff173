---------------------------- MODULE FrameParser -----------------------------
(***************************************************************************)
(* The command frames of the link, byte by byte: src/frame_parser.c with   *)
(* the checks src/main.c makes before it dispatches a command.  The line   *)
(* first carries anything at all, the remains of broken frames included;   *)
(* from some time on the host repeats one intact frame.                    *)
(***************************************************************************)
EXTENDS Integers, Sequences

CONSTANTS Byte,         \* the bytes on the wire, an initial segment of Nat
          SofByte,      \* SOF_BYTE
          MaxPayload,   \* RX_MAX_PAYLOAD
          Crc(_),       \* the two bytes a frame carries for its body, as sent
          HostBody      \* the bodies the host repeats

VARIABLES frame,        \* the command_frame_t: parser state and fields
          result,       \* what became of the last byte
          accepted,     \* the body dispatched on the last byte, or <<>>
          taken,        \* history: the bytes since the start byte, and it
          host,         \* the body the host repeats, <<>> before it does
          sent,         \* how much of the current copy is out
          lost          \* history: copies sent and not accepted

frameVars == <<frame, result, accepted, taken, host, sent, lost>>
parserVars == <<frame, result, accepted, taken>>

State == {"SOF", "OPCODE", "LENGTH", "PAYLOAD", "CRC_LOW", "CRC_HIGH"}

(* A body is what the checksum covers: opcode, length, payload.            *)
IsBody(b) == b \in Seq(Byte) /\ Len(b) >= 2 /\ b[2] <= MaxPayload /\ Len(b) = 2 + b[2]

(* protocol.py build_command.                                              *)
Encoded(body) == <<SofByte>> \o body \o Crc(body)

ASSUME FrameAssumption ==
  /\ Byte \subseteq Nat /\ 0 \in Byte /\ SofByte \in Byte
  /\ MaxPayload \in Nat \ {0}
  /\ \A n \in 0 .. MaxPayload : \A body \in [1 .. n + 2 -> Byte] : Crc(body) \in Byte \X Byte
  /\ \A body \in HostBody :
       IsBody(body) /\ \A k \in 2 .. Len(Encoded(body)) : Encoded(body)[k] # SofByte

command_frame_t ==
  [state : State, opcode : Byte, length : Byte, payload : [1 .. MaxPayload -> Byte],
   payload_idx : 0 .. MaxPayload - 1, crc_low : Byte]

FrameTypeOK ==
  /\ frame \in command_frame_t
  /\ result \in {"PENDING", "IN_PROGRESS", "ERROR", "CRC_ERROR", "READY"}
  /\ accepted = <<>> \/ IsBody(accepted)
  /\ taken \in Seq(Byte) /\ Len(taken) <= MaxPayload + 5
  /\ host \in HostBody \cup {<<>>} /\ sent \in Nat /\ lost \in Nat

FrameInit ==
  /\ frame = [state |-> "SOF", opcode |-> 0, length |-> 0,
              payload |-> [i \in 1 .. MaxPayload |-> 0], payload_idx |-> 0,
              crc_low |-> 0]
  /\ result = "PENDING" /\ accepted = <<>> /\ taken = <<>>
  /\ host = <<>> /\ sent = 0 /\ lost = 0
-----------------------------------------------------------------------------
(* No frame is longer than MaxPayload + 5 bytes, nor is the history.        *)
Record(b) == taken' = IF Len(taken) < MaxPayload + 5 THEN Append(taken, b) ELSE <<>>

(* frame_parser_feed, one action for each case of its switch.              *)
Take(b, s) ==
  /\ Record(b)
  /\ result' = s
  /\ accepted' = <<>>

OnSof(b) ==
  /\ frame.state = "SOF"
  /\ \/ /\ b = SofByte
        /\ frame' = [frame EXCEPT !.state = "OPCODE"]
        /\ result' = "IN_PROGRESS" /\ taken' = <<b>>
     \/ /\ b # SofByte
        /\ UNCHANGED frame
        /\ result' = "PENDING" /\ taken' = <<>>
  /\ accepted' = <<>>

OnOpcode(b) ==
  /\ frame.state = "OPCODE"
  /\ frame' = [frame EXCEPT !.opcode = b, !.state = "LENGTH"]
  /\ Take(b, "IN_PROGRESS")

TooLong(b) == b > MaxPayload

OnLength(b) ==
  /\ frame.state = "LENGTH"
  /\ \/ /\ TooLong(b)
        /\ frame' = [frame EXCEPT !.length = b, !.state = "SOF"]
        /\ Take(b, "ERROR")
     \/ /\ b = 0
        /\ frame' = [frame EXCEPT !.length = b, !.state = "CRC_LOW"]
        /\ Take(b, "IN_PROGRESS")
     \/ /\ b # 0 /\ ~ TooLong(b)
        /\ frame' = [frame EXCEPT !.length = b, !.payload_idx = 0, !.state = "PAYLOAD"]
        /\ Take(b, "IN_PROGRESS")

PayloadDoneLate == frame.payload_idx = frame.length
PayloadDone == frame.payload_idx + 1 = frame.length

OnPayload(b) ==
  /\ frame.state = "PAYLOAD"
  /\ LET i == frame.payload_idx IN
     frame' = IF PayloadDone
              THEN [frame EXCEPT !.payload[i + 1] = b, !.payload_idx = 0, !.state = "CRC_LOW"]
              ELSE [frame EXCEPT !.payload[i + 1] = b, !.payload_idx = i + 1]
  /\ Take(b, "IN_PROGRESS")

OnCrcLow(b) ==
  /\ frame.state = "CRC_LOW"
  /\ frame' = [frame EXCEPT !.crc_low = b, !.state = "CRC_HIGH"]
  /\ Take(b, "IN_PROGRESS")

(* frame_parser_serialize: the body, without what earlier frames left in   *)
(* the rest of the payload.                                                *)
SerializeWholeBuffer == <<frame.opcode, frame.length>> \o frame.payload
Serialize == <<frame.opcode, frame.length>> \o SubSeq(frame.payload, 1, frame.length)

(* The frame is complete; main compares the checksums and dispatches it or *)
(* drops it without a word.                                                *)
OnCrcHigh(b) ==
  /\ frame.state = "CRC_HIGH"
  /\ frame' = [frame EXCEPT !.state = "SOF"]
  /\ Record(b)
  /\ \/ /\ Crc(Serialize) = <<frame.crc_low, b>>
        /\ result' = "READY" /\ accepted' = Serialize
     \/ /\ Crc(Serialize) # <<frame.crc_low, b>>
        /\ result' = "CRC_ERROR" /\ accepted' = <<>>

Feed(b) ==
  OnSof(b) \/ OnOpcode(b) \/ OnLength(b) \/ OnPayload(b) \/ OnCrcLow(b) \/ OnCrcHigh(b)
-----------------------------------------------------------------------------
(* The line.                                                               *)
Noise ==
  /\ host = <<>>
  /\ \E b \in Byte : Feed(b)
  /\ UNCHANGED <<host, sent, lost>>

HostBegins ==
  /\ host = <<>>
  /\ host' \in HostBody
  /\ UNCHANGED <<parserVars, sent, lost>>

(* The next byte of the host's frame.  Another lost copy stops counting    *)
(* one past the bound that LossIsBounded states.                           *)
LossBound == 1 + (MaxPayload + 3) \div Len(Encoded(host))

HostByte ==
  /\ host # <<>>
  /\ LET wire == Encoded(host) IN
     /\ Feed(wire[sent + 1])
     /\ sent' = (sent + 1) % Len(wire)
     /\ lost' = IF sent' = 0 /\ accepted' # host /\ lost <= LossBound THEN lost + 1 ELSE lost
  /\ UNCHANGED host

FrameNext == Noise \/ HostBegins \/ HostByte

FrameSpec == FrameInit /\ [][FrameNext]_frameVars
-----------------------------------------------------------------------------
BodyOf(t) == SubSeq(t, 2, Len(t) - 2)
Intact(t) == Len(t) >= 5 /\ IsBody(BodyOf(t)) /\ t = Encoded(BodyOf(t))

(* A command is dispatched exactly when the bytes since the start byte are *)
(* an intact frame, and then it is the command of that frame, whatever the *)
(* frames before it have left in the parser.                               *)
AcceptedExactly == accepted = IF Intact(taken) THEN BodyOf(taken) ELSE <<>>

(* Whatever state the line has left the parser in, it recovers: of intact  *)
(* frames without an inner start byte it misses no more than a bogus frame *)
(* of the greatest length can swallow.                                     *)
LossIsBounded == host # <<>> => lost <= LossBound
=============================================================================
