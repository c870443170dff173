---------------------------- MODULE CommandLink ----------------------------
(***************************************************************************)
(* One exchange after another between the host (mcuco/link.py) and the     *)
(* firmware: main.c's loop, src/command_dispatcher.c and the transport     *)
(* under it.  Messages are whole frames here; FrameParser says what a cut  *)
(* one does to its successors, and the controllers' verdict on a command   *)
(* is left open.  The wire loses, damages and cuts a bounded number of     *)
(* frames and the host gives up too early a bounded number of times.       *)
(***************************************************************************)
EXTENDS Integers, Sequences, SequencesExt

CONSTANTS MaxInFlight,   \* commands on their way to the device
          MaxFaults,     \* frames the wire spoils
          MaxLate,       \* time-outs with the answer still under way
          MaxSwallow,    \* frames a parser out of step swallows at a stretch
          TxTimesOut     \* 1000 polls may be less than two bytes take

VARIABLES host,          \* waiting for an answer or not
          outcome,       \* how the last exchange ended, if it has
          quiet,         \* history: nothing was under way at the last send
          inbox,         \* answers in the host's input buffer
          toDevice, toHost,
          parser,        \* frames the parser will swallow, 0 if it hunts
          step,          \* where the main loop is
          resp,          \* the response of the last command
          reset_requested,
          tx,            \* the answer whose last byte is still being shifted out
          faults, late

hostVars == <<host, outcome, quiet, inbox>>
wireVars == <<toDevice, toHost>>
deviceVars == <<parser, step, resp, reset_requested, tx>>
budgetVars == <<faults, late>>
vars == <<hostVars, wireVars, deviceVars, budgetVars>>

Opcode == {"PROBE", "RESET", "CONTROLLER", "UNKNOWN"}

(* fresh: it belongs to the exchange the host is in.  empty: the payload   *)
(* is as probe and reset want it.  inner: a byte past the first is a start *)
(* byte too, which build_command does not escape.  A frame is BAD if it is *)
(* damaged but still taken for one frame, CUT if it is not: bytes are      *)
(* missing or LENGTH is damaged.                                           *)
Request == [op : Opcode, empty : BOOLEAN, inner : BOOLEAN, fresh : BOOLEAN,
            state : {"GOOD", "BAD", "CUT"}]
Answer == [to : Opcode, ack : BOOLEAN, fresh : BOOLEAN, whole : BOOLEAN]
None == [to |-> "NONE"]

ASSUME LinkAssumption ==
  /\ MaxInFlight \in Nat \ {0} /\ MaxFaults \in Nat /\ MaxLate \in Nat
  /\ MaxSwallow \in Nat \ {0} /\ TxTimesOut \in BOOLEAN

TypeOK ==
  /\ host \in {"IDLE", "WAITING"}
  /\ outcome \in {"NONE", "OWN", "STALE", "TIMEOUT", "GARBLED"}
  /\ quiet \in BOOLEAN
  /\ inbox \in Seq(Answer) /\ toHost \in Seq(Answer)
  /\ toDevice \in Seq(Request) /\ Len(toDevice) <= MaxInFlight
  /\ parser \in 0 .. MaxSwallow
  /\ step \in {"RECEIVE", "SEND", "TAKE", "FLUSH", "RESET", "BOOT"}
  /\ resp \in Answer \cup {None} /\ tx \in Answer \cup {None}
  /\ reset_requested \in BOOLEAN /\ (reset_requested => step \in {"SEND", "TAKE"})
  /\ faults \in 0 .. MaxFaults /\ late \in 0 .. MaxLate

DeviceInit ==
  /\ parser = 0 /\ step = "RECEIVE" /\ resp = None
  /\ reset_requested = FALSE /\ tx = None

Init ==
  /\ host = "IDLE" /\ outcome = "NONE" /\ quiet = TRUE
  /\ inbox = <<>> /\ toDevice = <<>> /\ toHost = <<>>
  /\ DeviceInit
  /\ faults = 0 /\ late = 0
-----------------------------------------------------------------------------
(* The host.                                                               *)
Aged(s) == [i \in DOMAIN s |-> [s[i] EXCEPT !.fresh = FALSE]]
AgedOne(a) == IF a = None THEN a ELSE [a EXCEPT !.fresh = FALSE]

NothingComing == toDevice = <<>> /\ toHost = <<>> /\ tx = None /\ step = "RECEIVE"

(* build_command.  The checksum of a command without payload never holds a *)
(* start byte; an opcode nobody has registered may be one.                 *)
CanHoldStart(op, empty) == ~ empty \/ op = "UNKNOWN"
Command(op, empty, inner) ==
  [op |-> op, empty |-> empty, inner |-> inner, fresh |-> TRUE, state |-> "GOOD"]

(* McuCoLink.send: drop what has arrived since, write, wait.               *)
SendKeepsInput(op, empty, inner) ==
  /\ host = "IDLE" /\ Len(toDevice) < MaxInFlight
  /\ inner => CanHoldStart(op, empty)
  /\ host' = "WAITING" /\ outcome' = "NONE"
  /\ quiet' = NothingComing
  /\ inbox' = Aged(inbox)
  /\ toDevice' = Append(Aged(toDevice), Command(op, empty, inner))
  /\ toHost' = Aged(toHost) /\ resp' = AgedOne(resp) /\ tx' = AgedOne(tx)
  /\ UNCHANGED <<parser, step, reset_requested, budgetVars>>

Send(op, empty, inner) ==
  /\ host = "IDLE" /\ Len(toDevice) < MaxInFlight
  /\ inner => CanHoldStart(op, empty)
  /\ host' = "WAITING" /\ outcome' = "NONE"
  /\ quiet' = NothingComing
  /\ inbox' = <<>>
  /\ toDevice' = Append(Aged(toDevice), Command(op, empty, inner))
  /\ toHost' = Aged(toHost) /\ resp' = AgedOne(resp) /\ tx' = AgedOne(tx)
  /\ UNCHANGED <<parser, step, reset_requested, budgetVars>>

(* read_response: one whole frame ends the exchange, so does one that      *)
(* breaks off or does not check.                                           *)
ReadResponse ==
  /\ host = "WAITING" /\ inbox # <<>>
  /\ host' = "IDLE"
  /\ outcome' = LET a == Head(inbox) IN
                IF ~ a.whole THEN "GARBLED" ELSE IF a.fresh THEN "OWN" ELSE "STALE"
  /\ inbox' = Tail(inbox)
  /\ UNCHANGED <<quiet, wireVars, deviceVars, budgetVars>>

(* LinkTimeout: nothing came, either because nothing was to come or        *)
(* because it takes longer than the host waits.                            *)
Timeout ==
  /\ host = "WAITING" /\ inbox = <<>>
  /\ \/ NothingComing /\ UNCHANGED late
     \/ ~ NothingComing /\ late < MaxLate /\ late' = late + 1
  /\ host' = "IDLE" /\ outcome' = "TIMEOUT"
  /\ UNCHANGED <<quiet, inbox, wireVars, deviceVars, faults>>
-----------------------------------------------------------------------------
(* The wire.                                                               *)
Deliver ==
  /\ toHost # <<>>
  /\ inbox' = Append(inbox, Head(toHost))
  /\ toHost' = Tail(toHost)
  /\ UNCHANGED <<host, outcome, quiet, toDevice, deviceVars, budgetVars>>

Spoil ==
  /\ faults < MaxFaults /\ faults' = faults + 1
  /\ \/ /\ UNCHANGED toHost
        /\ \E i \in DOMAIN toDevice :
             \/ toDevice' = RemoveAt(toDevice, i)
             \/ \E how \in {"BAD", "CUT"} : toDevice' = [toDevice EXCEPT ![i].state = how]
     \/ /\ UNCHANGED toDevice
        /\ \E i \in DOMAIN toHost :
             \/ toHost' = RemoveAt(toHost, i)
             \/ toHost' = [toHost EXCEPT ![i].whole = FALSE]
  /\ UNCHANGED <<hostVars, deviceVars, late>>
-----------------------------------------------------------------------------
(* The device.                                                             *)
Reply(r, ack) == [to |-> r.op, ack |-> ack, fresh |-> r.fresh, whole |-> TRUE]

(* dispatch_command.  A controller may refuse whatever it likes; probe and *)
(* reset refuse a payload; request_reset only leaves a note.               *)

Dispatch(r) ==
  /\ reset_requested' = (reset_requested \/ (r.op = "RESET" /\ r.empty))
  /\ \E ack \in BOOLEAN :
       /\ r.op = "UNKNOWN" => ~ ack
       /\ r.op \in {"PROBE", "RESET"} => ack = r.empty
       /\ resp' = Reply(r, ack)

(* What a parser out of step, or thrown out of step by this frame, will    *)
(* swallow after it.  The frame it believes in ends within what it has been*)
(* promised; the rest of a frame without an inner start byte is skipped.   *)
(* But an inner one begins the next frame to believe in.                   *)
SwallowLeftStuck(r) ==
  IF r.state = "GOOD" /\ ~ r.inner THEN {parser} ELSE 0 .. MaxSwallow
SwallowLeft(r) ==
  IF r.state = "GOOD" /\ ~ r.inner THEN 0 .. parser - 1 ELSE 0 .. MaxSwallow

(* A frame is in: dispatched, taken for the rest of an earlier frame that  *)
(* was cut, or dropped without a word if it does not check.                *)
ReceiveFrame ==
  /\ step = "RECEIVE" /\ toDevice # <<>>
  /\ toDevice' = Tail(toDevice)
  /\ LET r == Head(toDevice) IN
     \/ /\ r.state = "GOOD" /\ parser = 0
        /\ Dispatch(r)
        /\ step' = "SEND"
        /\ UNCHANGED parser
     \/ /\ r.state = "CUT" \/ parser > 0
        /\ parser' \in SwallowLeft(r)
        /\ UNCHANGED <<step, resp, reset_requested>>
     \/ /\ r.state = "BAD" /\ parser = 0
        /\ UNCHANGED <<parser, step, resp, reset_requested>>
  /\ UNCHANGED <<hostVars, toHost, tx, budgetVars>>

Truncated(a) == [a EXCEPT !.whole = FALSE]

(* command_transport_send waits for room before each byte; its failure is  *)
(* logged.  It leaves the last byte to the shifter.                        *)
SendResponse ==
  /\ step = "SEND" /\ step' = "TAKE"
  /\ \/ tx = None /\ tx' = resp /\ UNCHANGED toHost
     \/ TxTimesOut /\ tx = None /\ toHost' = Append(toHost, Truncated(resp)) /\ UNCHANGED tx
     \/ TxTimesOut /\ tx # None /\ UNCHANGED <<toHost, tx>>
  /\ UNCHANGED <<hostVars, toDevice, parser, resp, reset_requested, budgetVars>>

ShiftOut ==
  /\ tx # None
  /\ toHost' = Append(toHost, tx) /\ tx' = None
  /\ UNCHANGED <<hostVars, toDevice, parser, step, resp, reset_requested, budgetVars>>

(* command_dispatcher_take_reset_request.                                  *)
TakeResetSkipsFlush ==
  /\ step = "TAKE"
  /\ step' = IF reset_requested THEN "RESET" ELSE "RECEIVE"
  /\ reset_requested' = FALSE
  /\ UNCHANGED <<hostVars, wireVars, parser, resp, tx, budgetVars>>

TakeReset ==
  /\ step = "TAKE"
  /\ step' = IF reset_requested THEN "FLUSH" ELSE "RECEIVE"
  /\ reset_requested' = FALSE
  /\ UNCHANGED <<hostVars, wireVars, parser, resp, tx, budgetVars>>

(* command_transport_flush, whose result main.c drops.                     *)
Flush ==
  /\ step = "FLUSH" /\ step' = "RESET"
  /\ tx = None \/ TxTimesOut
  /\ UNCHANGED <<hostVars, wireVars, parser, resp, reset_requested, tx, budgetVars>>

(* NVIC_SystemReset: what is in the receive queue, in RAM and in the       *)
(* shifter is gone.                                                        *)
SystemReset ==
  /\ step = "RESET" /\ step' = "BOOT"
  /\ parser' = 0 /\ resp' = None /\ reset_requested' = FALSE /\ tx' = None
  /\ toHost' = IF tx = None THEN toHost ELSE Append(toHost, Truncated(tx))
  /\ toDevice' \in Suffixes(toDevice)
  /\ UNCHANGED <<hostVars, budgetVars>>

(* What arrives before the receiver is enabled is lost; of the last frame  *)
(* that is, the end may still come in.                                     *)
Boot ==
  /\ step = "BOOT" /\ step' = "RECEIVE"
  /\ toDevice' \in Suffixes(toDevice)
  /\ LET lost == Len(toDevice) - Len(toDevice') IN
     parser' \in IF lost > 0 /\ toDevice[lost].inner THEN 0 .. MaxSwallow ELSE {0}
  /\ UNCHANGED <<hostVars, toHost, resp, reset_requested, tx, budgetVars>>

HostStep ==
  (\E op \in Opcode, empty, inner \in BOOLEAN : Send(op, empty, inner)) \/ ReadResponse \/ Timeout
DeviceStep == ReceiveFrame \/ SendResponse \/ TakeReset \/ Flush \/ SystemReset \/ Boot

Next == HostStep \/ Deliver \/ Spoil \/ DeviceStep \/ ShiftOut

Spec == Init /\ [][Next]_vars

(* The host goes on asking, as one that polls with probe does; bytes under *)
(* way arrive; the main loop does not block.                               *)
FairSpec ==
  Spec /\ WF_vars(HostStep) /\ WF_vars(Deliver) /\ WF_vars(DeviceStep) /\ WF_vars(ShiftOut)
-----------------------------------------------------------------------------
(* An exchange begun when nothing was under way gets its own answer or     *)
(* none, whatever earlier exchanges have left in the host's input buffer.  *)
QuietExchangeIsOwn == outcome = "STALE" => ~ quiet

(* The device resets only on a well-formed reset command, and              *)
(* mcu-co_Protocol.md 178: "The ACK is guaranteed to be fully on the wire  *)
(* before the reset happens".  So at the reset the last response is that   *)
(* ACK and the shifter is empty.                                           *)
AckOnWireBeforeReset == step = "RESET" => resp.to = "RESET" /\ resp.ack /\ tx = None

(* Without late answers: a host that goes on asking, from some time on in  *)
(* frames without an inner start byte as probe's are, is answered again    *)
(* and again.  Neither a reset nor a cut frame leaves the device deaf to   *)
(* it.  (To a command with an inner start byte it may stay deaf: a parser  *)
(* that hunts meets that byte first, and can swallow every repetition.)    *)
NoInnerStart == \A i \in DOMAIN toDevice : ~ toDevice[i].inner
LinkRecovers == [](late = 0) /\ <>[]NoInnerStart => []<>(outcome = "OWN")

(* mcu-co_Protocol.md 82: "so the host always knows which command a        *)
(* response answers without an echo"; link.py 83 drops "anything left over *)
(* from an abandoned exchange" to that end.  What is left over may still   *)
(* be under way then, is taken for the answer to the next command, and     *)
(* leaves that one's own answer under way: the host can stay one answer    *)
(* behind for good.                                                        *)
EventuallyInStep == <>[](outcome # "STALE")
=============================================================================
