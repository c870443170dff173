------------------------- MODULE CommandLinkProofs --------------------------
(***************************************************************************)
(* What an exchange between host and device ends with and when the device  *)
(* resets, for every number of commands under way, of spoiled frames and   *)
(* of answers that come too late.                                          *)
(***************************************************************************)
EXTENDS CommandLink, SequenceTheorems, TLAPS

Own == {a \in Answer : a.fresh}
OwnRequest == {r \in Request : r.fresh}

(* Nothing is under way that does not belong to an exchange begun quietly. *)
OnlyOwnUnderWay ==
  quiet =>
    /\ toDevice \in Seq(OwnRequest) /\ toHost \in Seq(Own) /\ inbox \in Seq(Own)
    /\ tx \in Own \cup {None}
    /\ step = "SEND" => resp \in Own

(* A reset under way goes back to a reset command that was acknowledged.   *)
ResetIsAcked ==
  reset_requested \/ step \in {"FLUSH", "RESET"} => resp \in Answer /\ resp.to = "RESET" /\ resp.ack

ResetIsShiftedOut == step = "RESET" => TxTimesOut \/ tx = None

IInv ==
  /\ TypeOK
  /\ step = "SEND" => resp \in Answer
  /\ OnlyOwnUnderWay /\ QuietExchangeIsOwn
  /\ ResetIsAcked /\ ResetIsShiftedOut
-----------------------------------------------------------------------------
(* Sequences of one kind of message stay so.                               *)
LEMMA SequenceKept ==
  ASSUME NEW S, NEW s \in Seq(S)
  PROVE  /\ \A e \in S : Append(s, e) \in Seq(S)
         /\ s # <<>> => Head(s) \in S /\ Tail(s) \in Seq(S)
         /\ \A i \in DOMAIN s : RemoveAt(s, i) \in Seq(S) /\ Len(RemoveAt(s, i)) <= Len(s)
         /\ \A t \in Suffixes(s) : t \in Seq(S) /\ Len(t) <= Len(s)
<1>1. \A e \in S : Append(s, e) \in Seq(S)
  BY AppendProperties
<1>2. s # <<>> => Head(s) \in S /\ Tail(s) \in Seq(S)
  BY HeadTailProperties
<1>3. ASSUME NEW i \in DOMAIN s
      PROVE  RemoveAt(s, i) \in Seq(S) /\ Len(RemoveAt(s, i)) <= Len(s)
  <2>1. i \in 1 .. Len(s) /\ Len(s) \in Nat
    BY <1>3, LenProperties
  <2>2. /\ SubSeq(s, 1, i - 1) \in Seq(S) /\ Len(SubSeq(s, 1, i - 1)) = i - 1
        /\ SubSeq(s, i + 1, Len(s)) \in Seq(S) /\ Len(SubSeq(s, i + 1, Len(s))) = Len(s) - i
    BY <2>1, SubSeqProperties
  <2> QED
    BY <2>1, <2>2, ConcatProperties DEF RemoveAt
<1>4. ASSUME NEW t \in Suffixes(s)
      PROVE  t \in Seq(S) /\ Len(t) <= Len(s)
  <2>1. CASE t = <<>>
    BY <2>1, EmptySeq, LenProperties
  <2>2. CASE \E l \in 1 .. Len(s) : t = SubSeq(s, l, Len(s))
    BY <2>2, LenProperties, SubSeqProperties
  <2> QED
    BY <1>4, <2>1, <2>2 DEF Suffixes
<1> QED
  BY <1>1, <1>2, <1>3, <1>4

LEMMA AgedKept ==
  /\ \A s \in Seq(Answer) : Aged(s) \in Seq(Answer) /\ Len(Aged(s)) = Len(s)
  /\ \A s \in Seq(Request) : Aged(s) \in Seq(Request) /\ Len(Aged(s)) = Len(s)
  /\ \A a \in Answer : /\ AgedOne(a) \in Answer /\ AgedOne(a).to = a.to /\ AgedOne(a).ack = a.ack
  /\ AgedOne(None) = None /\ None \notin Answer
<1>1. ASSUME NEW s \in Seq(Answer)
      PROVE  Aged(s) \in Seq(Answer) /\ Len(Aged(s)) = Len(s)
  <2>1. /\ Len(s) \in Nat /\ DOMAIN s = 1 .. Len(s)
        /\ \A i \in 1 .. Len(s) : s[i] \in Answer
    BY LenProperties, ElementOfSeq
  <2>2. \A i \in 1 .. Len(s) : [s[i] EXCEPT !.fresh = FALSE] \in Answer
    BY <2>1 DEF Answer
  <2> QED
    BY <2>1, <2>2, IsASeq DEF Aged
<1>2. ASSUME NEW s \in Seq(Request)
      PROVE  Aged(s) \in Seq(Request) /\ Len(Aged(s)) = Len(s)
  <2>1. /\ Len(s) \in Nat /\ DOMAIN s = 1 .. Len(s)
        /\ \A i \in 1 .. Len(s) : s[i] \in Request
    BY LenProperties, ElementOfSeq
  <2>2. \A i \in 1 .. Len(s) : [s[i] EXCEPT !.fresh = FALSE] \in Request
    BY <2>1 DEF Request
  <2> QED
    BY <2>1, <2>2, IsASeq DEF Aged
<1>3. None \notin Answer /\ AgedOne(None) = None
  BY DEF None, Answer, Opcode, AgedOne
<1>4. \A a \in Answer : /\ AgedOne(a) \in Answer /\ AgedOne(a).to = a.to /\ AgedOne(a).ack = a.ack
  BY <1>3 DEF AgedOne, Answer
<1> QED
  BY <1>1, <1>2, <1>3, <1>4

LEMMA AgedEmpty == Aged(<<>>) = <<>>
  BY DEF Aged

LEMMA InitIInv == Init => IInv
<1> SUFFICES ASSUME Init PROVE IInv
  OBVIOUS
<1>1. TypeOK
  <2>1. toDevice \in Seq(Request) /\ toHost \in Seq(Answer) /\ inbox \in Seq(Answer) /\ Len(toDevice) = 0
    BY EmptySeq DEF Init
  <2>2. 0 <= MaxInFlight /\ 0 \in 0 .. MaxSwallow /\ 0 \in 0 .. MaxFaults /\ 0 \in 0 .. MaxLate
    BY LinkAssumption
  <2> QED
    BY <2>1, <2>2 DEF Init, DeviceInit, TypeOK
<1> QED
  BY <1>1, EmptySeq DEF Init, DeviceInit, IInv, OnlyOwnUnderWay, QuietExchangeIsOwn, ResetIsAcked,
     ResetIsShiftedOut
-----------------------------------------------------------------------------
(* The host.                                                               *)
LEMMA SendKeeps ==
  ASSUME IInv, NEW op \in Opcode, NEW empty \in BOOLEAN, NEW inner \in BOOLEAN,
         Send(op, empty, inner)
  PROVE  IInv'
<1> DEFINE r == Command(op, empty, inner)
<1>1. r \in Request /\ r \in OwnRequest
  BY DEF Command, Request, OwnRequest
<1>2. /\ host' = "WAITING" /\ outcome' = "NONE" /\ quiet' = NothingComing /\ inbox' = <<>>
      /\ toDevice' = Append(Aged(toDevice), r) /\ toHost' = Aged(toHost)
      /\ resp' = AgedOne(resp) /\ tx' = AgedOne(tx) /\ UNCHANGED <<parser, step, reset_requested, faults, late>>
      /\ Len(toDevice) < MaxInFlight
  BY DEF Send, budgetVars
<1> HIDE DEF r
<1>3. /\ toDevice' \in Seq(Request) /\ Len(toDevice') <= MaxInFlight
      /\ toHost' \in Seq(Answer) /\ inbox' \in Seq(Answer)
  <2>1. Aged(toDevice) \in Seq(Request) /\ Len(Aged(toDevice)) < MaxInFlight
    BY <1>2, AgedKept DEF IInv, TypeOK
  <2>2. toDevice' \in Seq(Request) /\ Len(toDevice') = Len(Aged(toDevice)) + 1
    BY <1>1, <1>2, <2>1, AppendProperties
  <2>3. Len(Aged(toDevice)) \in Nat /\ MaxInFlight \in Nat
    BY <2>1, LenProperties, LinkAssumption
  <2> QED
    BY <1>2, <2>1, <2>2, <2>3, AgedKept, EmptySeq DEF IInv, TypeOK
<1>4. resp' \in Answer \cup {None} /\ tx' \in Answer \cup {None}
  BY <1>2, AgedKept DEF IInv, TypeOK
<1>5. TypeOK'
  BY <1>2, <1>3, <1>4 DEF IInv, TypeOK, NothingComing
<1>6. OnlyOwnUnderWay'
  <2> SUFFICES ASSUME NothingComing
               PROVE  /\ toDevice' \in Seq(OwnRequest) /\ toHost' \in Seq(Own) /\ inbox' \in Seq(Own)
                      /\ tx' \in Own \cup {None} /\ step' # "SEND"
    BY <1>2 DEF OnlyOwnUnderWay
  <2>1. toDevice' = Append(<<>>, r) /\ toHost' = <<>> /\ tx' = None /\ step' = "RECEIVE"
    BY <1>2, AgedEmpty, AgedKept DEF NothingComing
  <2> QED
    BY <1>1, <1>2, <2>1, EmptySeq, SequenceKept
<1>7. step' = "SEND" => resp' \in Answer
  BY <1>2, AgedKept DEF IInv
<1>8. ResetIsAcked' /\ ResetIsShiftedOut'
  BY <1>2, AgedKept DEF IInv, ResetIsAcked, ResetIsShiftedOut
<1> QED
  BY <1>2, <1>5, <1>6, <1>7, <1>8 DEF IInv, QuietExchangeIsOwn

LEMMA ReadKeeps == IInv /\ ReadResponse => IInv'
<1> SUFFICES ASSUME IInv, ReadResponse PROVE IInv'
  OBVIOUS
<1>1. /\ inbox # <<>> /\ inbox' = Tail(inbox) /\ host' = "IDLE"
      /\ outcome' \in {"GARBLED", "OWN", "STALE"}
      /\ outcome' = "STALE" => ~ Head(inbox).fresh
      /\ UNCHANGED <<quiet, toDevice, toHost, parser, step, resp, reset_requested, tx, faults, late>>
  BY DEF ReadResponse, wireVars, deviceVars, budgetVars
<1>2. TypeOK'
  BY <1>1, SequenceKept DEF IInv, TypeOK
<1>3. OnlyOwnUnderWay'
  BY <1>1, SequenceKept DEF IInv, OnlyOwnUnderWay
<1>4. QuietExchangeIsOwn'
  <2>1. quiet => Head(inbox) \in Own
    BY <1>1, SequenceKept DEF IInv, OnlyOwnUnderWay
  <2> QED
    BY <1>1, <2>1 DEF Own, QuietExchangeIsOwn
<1> QED
  BY <1>1, <1>2, <1>3, <1>4 DEF IInv, ResetIsAcked, ResetIsShiftedOut

LEMMA TimeoutKeeps == IInv /\ Timeout => IInv'
<1> SUFFICES ASSUME IInv, Timeout PROVE IInv'
  OBVIOUS
<1>1. /\ host' = "IDLE" /\ outcome' = "TIMEOUT" /\ late' \in 0 .. MaxLate
      /\ UNCHANGED <<quiet, inbox, toDevice, toHost, parser, step, resp, reset_requested, tx, faults>>
  BY LinkAssumption DEF Timeout, wireVars, deviceVars, IInv, TypeOK
<1>2. TypeOK'
  BY <1>1 DEF IInv, TypeOK
<1> QED
  BY <1>1, <1>2 DEF IInv, OnlyOwnUnderWay, QuietExchangeIsOwn, ResetIsAcked, ResetIsShiftedOut
-----------------------------------------------------------------------------
(* The wire.                                                               *)
LEMMA DeliverKeeps == IInv /\ Deliver => IInv'
<1> SUFFICES ASSUME IInv, Deliver PROVE IInv'
  OBVIOUS
<1>1. /\ toHost # <<>> /\ inbox' = Append(inbox, Head(toHost)) /\ toHost' = Tail(toHost)
      /\ UNCHANGED <<host, outcome, quiet, toDevice, parser, step, resp, reset_requested, tx, faults, late>>
  BY DEF Deliver, deviceVars, budgetVars
<1>2. TypeOK'
  BY <1>1, SequenceKept DEF IInv, TypeOK
<1>3. OnlyOwnUnderWay'
  BY <1>1, SequenceKept DEF IInv, OnlyOwnUnderWay
<1> QED
  BY <1>1, <1>2, <1>3 DEF IInv, QuietExchangeIsOwn, ResetIsAcked, ResetIsShiftedOut

(* A frame that is spoiled belongs to the exchange it belonged to.         *)
LEMMA SpoiledRequest ==
  ASSUME NEW s \in Seq(Request), NEW i \in DOMAIN s, NEW how \in {"BAD", "CUT"}
  PROVE  /\ [s EXCEPT ![i].state = how] \in Seq(Request) /\ Len([s EXCEPT ![i].state = how]) = Len(s)
         /\ s \in Seq(OwnRequest) => [s EXCEPT ![i].state = how] \in Seq(OwnRequest)
<1> DEFINE r == [s[i] EXCEPT !.state = how]
<1>1. i \in 1 .. Len(s) /\ s[i] \in Request /\ (s \in Seq(OwnRequest) => s[i] \in OwnRequest)
  BY LenProperties, ElementOfSeq
<1>2. r \in Request /\ (s \in Seq(OwnRequest) => r \in OwnRequest)
  BY <1>1 DEF Request, OwnRequest
<1>3. [s EXCEPT ![i].state = how] = [s EXCEPT ![i] = r]
  OBVIOUS
<1> HIDE DEF r
<1> QED
  BY <1>1, <1>2, <1>3, ExceptSeq

LEMMA SpoiledAnswer ==
  ASSUME NEW s \in Seq(Answer), NEW i \in DOMAIN s
  PROVE  /\ [s EXCEPT ![i].whole = FALSE] \in Seq(Answer)
         /\ s \in Seq(Own) => [s EXCEPT ![i].whole = FALSE] \in Seq(Own)
<1> DEFINE a == [s[i] EXCEPT !.whole = FALSE]
<1>1. i \in 1 .. Len(s) /\ s[i] \in Answer /\ (s \in Seq(Own) => s[i] \in Own)
  BY LenProperties, ElementOfSeq
<1>2. a \in Answer /\ (s \in Seq(Own) => a \in Own)
  BY <1>1 DEF Answer, Own
<1>3. [s EXCEPT ![i].whole = FALSE] = [s EXCEPT ![i] = a]
  OBVIOUS
<1> HIDE DEF a
<1> QED
  BY <1>1, <1>2, <1>3, ExceptSeq

LEMMA SpoilKeeps == IInv /\ Spoil => IInv'
<1> SUFFICES ASSUME IInv, Spoil PROVE IInv'
  OBVIOUS
<1>1. /\ faults' \in 0 .. MaxFaults
      /\ UNCHANGED <<host, outcome, quiet, inbox, parser, step, resp, reset_requested, tx, late>>
  BY LinkAssumption DEF Spoil, hostVars, deviceVars, IInv, TypeOK
<1>2. /\ toDevice \in Seq(Request) /\ Len(toDevice) \in Nat /\ Len(toDevice) <= MaxInFlight
      /\ toHost \in Seq(Answer) /\ MaxInFlight \in Nat
  BY LinkAssumption, LenProperties DEF IInv, TypeOK
<1>3. /\ toDevice' \in Seq(Request) /\ Len(toDevice') <= MaxInFlight
      /\ quiet /\ toDevice \in Seq(OwnRequest) => toDevice' \in Seq(OwnRequest)
  <2>1. CASE UNCHANGED toDevice
    BY <1>2, <2>1
  <2>2. CASE \E i \in DOMAIN toDevice : toDevice' = RemoveAt(toDevice, i)
    <3>1. PICK i \in DOMAIN toDevice : toDevice' = RemoveAt(toDevice, i)
      BY <2>2
    <3>2. toDevice' \in Seq(Request) /\ Len(toDevice') <= Len(toDevice) /\ Len(toDevice') \in Nat
      BY <1>2, <3>1, SequenceKept, LenProperties
    <3> QED
      BY <1>2, <3>1, <3>2, SequenceKept
  <2>3. CASE \E i \in DOMAIN toDevice, how \in {"BAD", "CUT"} :
               toDevice' = [toDevice EXCEPT ![i].state = how]
    <3>1. PICK i \in DOMAIN toDevice, how \in {"BAD", "CUT"} : toDevice' = [toDevice EXCEPT ![i].state = how]
      BY <2>3
    <3>2. toDevice' \in Seq(Request) /\ Len(toDevice') = Len(toDevice)
      BY <1>2, <3>1, SpoiledRequest
    <3>3. toDevice \in Seq(OwnRequest) => toDevice' \in Seq(OwnRequest)
      BY <1>2, <3>1, SpoiledRequest
    <3> QED
      BY <1>2, <3>2, <3>3
  <2> QED
    BY <2>1, <2>2, <2>3 DEF Spoil
<1>4. /\ toHost' \in Seq(Answer)
      /\ quiet /\ toHost \in Seq(Own) => toHost' \in Seq(Own)
  <2>1. CASE UNCHANGED toHost
    BY <1>2, <2>1
  <2>2. CASE \E i \in DOMAIN toHost : toHost' = RemoveAt(toHost, i)
    BY <1>2, <2>2, SequenceKept
  <2>3. CASE \E i \in DOMAIN toHost : toHost' = [toHost EXCEPT ![i].whole = FALSE]
    BY <1>2, <2>3, SpoiledAnswer
  <2> QED
    BY <2>1, <2>2, <2>3 DEF Spoil
<1>5. TypeOK'
  BY <1>1, <1>3, <1>4 DEF IInv, TypeOK
<1>6. OnlyOwnUnderWay'
  BY <1>1, <1>3, <1>4 DEF IInv, OnlyOwnUnderWay
<1> QED
  BY <1>1, <1>5, <1>6 DEF IInv, QuietExchangeIsOwn, ResetIsAcked, ResetIsShiftedOut
-----------------------------------------------------------------------------
(* The device.                                                             *)
LEMMA ReplyIsAnswer ==
  ASSUME NEW r \in Request, NEW ack \in BOOLEAN
  PROVE  /\ Reply(r, ack) \in Answer /\ Reply(r, ack).to = r.op /\ Reply(r, ack).ack = ack
         /\ r.fresh => Reply(r, ack) \in Own
  BY DEF Reply, Request, Answer, Own

LEMMA ReceiveKeeps == IInv /\ ReceiveFrame => IInv'
<1> SUFFICES ASSUME IInv, ReceiveFrame PROVE IInv'
  OBVIOUS
<1> DEFINE r == Head(toDevice)
<1>1. /\ step = "RECEIVE" /\ toDevice # <<>> /\ toDevice' = Tail(toDevice) /\ ~ reset_requested
      /\ UNCHANGED <<host, outcome, quiet, inbox, toHost, tx, faults, late>>
  BY DEF ReceiveFrame, hostVars, budgetVars, IInv, TypeOK
<1>2. /\ r \in Request /\ (quiet => r \in OwnRequest)
      /\ toDevice' \in Seq(Request) /\ Len(toDevice') <= MaxInFlight
      /\ quiet => toDevice' \in Seq(OwnRequest)
  <2>1. toDevice \in Seq(Request) /\ Len(toDevice) <= MaxInFlight /\ Len(toDevice) \in Nat /\ MaxInFlight \in Nat
    BY LinkAssumption, LenProperties DEF IInv, TypeOK
  <2>2. Len(toDevice') = Len(toDevice) - 1
    BY <1>1, <2>1, HeadTailProperties
  <2> QED
    BY <1>1, <2>1, <2>2, SequenceKept DEF IInv, OnlyOwnUnderWay
<1> HIDE DEF r
<1>3. parser' \in 0 .. MaxSwallow
  <2>1. parser \in 0 .. MaxSwallow /\ MaxSwallow \in Nat
    BY LinkAssumption DEF IInv, TypeOK
  <2>2. SwallowLeft(r) \subseteq 0 .. MaxSwallow
    BY <2>1 DEF SwallowLeft
  <2> QED
    BY <2>1, <2>2 DEF ReceiveFrame, r
<1>4. CASE UNCHANGED <<step, resp, reset_requested>>
  <2>1. TypeOK'
    BY <1>1, <1>2, <1>3, <1>4 DEF IInv, TypeOK
  <2> QED
    BY <1>1, <1>2, <1>4, <2>1 DEF IInv, OnlyOwnUnderWay, QuietExchangeIsOwn, ResetIsAcked, ResetIsShiftedOut
<1>5. CASE Dispatch(r) /\ step' = "SEND"
  <2>1. PICK ack \in BOOLEAN : (r.op \in {"PROBE", "RESET"} => ack = r.empty) /\ resp' = Reply(r, ack)
    BY <1>5 DEF Dispatch
  <2>2. /\ resp' \in Answer /\ resp'.to = r.op /\ resp'.ack = ack
        /\ quiet => resp' \in Own
    BY <1>2, <2>1, ReplyIsAnswer DEF OwnRequest
  <2>3. reset_requested' = (r.op = "RESET" /\ r.empty)
    BY <1>1, <1>2, <1>5 DEF Dispatch, Request
  <2>4. TypeOK'
    BY <1>1, <1>2, <1>3, <1>5, <2>2, <2>3 DEF IInv, TypeOK
  <2>5. ResetIsAcked'
    BY <1>5, <2>1, <2>2, <2>3 DEF ResetIsAcked
  <2> QED
    BY <1>1, <1>2, <1>5, <2>2, <2>4, <2>5 DEF IInv, OnlyOwnUnderWay, QuietExchangeIsOwn, ResetIsShiftedOut
<1> QED
  BY <1>4, <1>5 DEF ReceiveFrame, r

LEMMA TruncatedKept ==
  ASSUME NEW a \in Answer
  PROVE  Truncated(a) \in Answer /\ (a \in Own => Truncated(a) \in Own)
  BY DEF Truncated, Answer, Own

LEMMA SendResponseKeeps == IInv /\ SendResponse => IInv'
<1> SUFFICES ASSUME IInv, SendResponse PROVE IInv'
  OBVIOUS
<1>1. /\ step = "SEND" /\ step' = "TAKE" /\ resp \in Answer
      /\ UNCHANGED <<host, outcome, quiet, inbox, toDevice, parser, resp, reset_requested, faults, late>>
  BY DEF SendResponse, hostVars, budgetVars, IInv
<1>2. /\ toHost' \in Seq(Answer) /\ tx' \in Answer \cup {None}
      /\ quiet => toHost' \in Seq(Own) /\ tx' \in Own \cup {None}
  <2>1. toHost \in Seq(Answer) /\ (quiet => toHost \in Seq(Own) /\ resp \in Own)
    BY <1>1 DEF IInv, TypeOK, OnlyOwnUnderWay
  <2> QED
    BY <1>1, <2>1, TruncatedKept, SequenceKept DEF SendResponse, IInv, TypeOK, OnlyOwnUnderWay
<1>3. TypeOK'
  BY <1>1, <1>2 DEF IInv, TypeOK
<1> QED
  BY <1>1, <1>2, <1>3 DEF IInv, OnlyOwnUnderWay, QuietExchangeIsOwn, ResetIsAcked, ResetIsShiftedOut

LEMMA ShiftOutKeeps == IInv /\ ShiftOut => IInv'
<1> SUFFICES ASSUME IInv, ShiftOut PROVE IInv'
  OBVIOUS
<1>1. /\ tx # None /\ toHost' = Append(toHost, tx) /\ tx' = None
      /\ UNCHANGED <<host, outcome, quiet, inbox, toDevice, parser, step, resp, reset_requested, faults, late>>
  BY DEF ShiftOut, hostVars, budgetVars
<1>2. tx \in Answer /\ (quiet => tx \in Own)
  BY <1>1 DEF IInv, TypeOK, OnlyOwnUnderWay
<1>3. TypeOK' /\ OnlyOwnUnderWay'
  BY <1>1, <1>2, SequenceKept DEF IInv, TypeOK, OnlyOwnUnderWay
<1> QED
  BY <1>1, <1>3 DEF IInv, QuietExchangeIsOwn, ResetIsAcked, ResetIsShiftedOut

LEMMA TakeKeeps == IInv /\ (TakeReset \/ Flush) => IInv'
<1> SUFFICES ASSUME IInv, TakeReset \/ Flush PROVE IInv'
  OBVIOUS
<1>1. UNCHANGED <<host, outcome, quiet, inbox, toDevice, toHost, parser, resp, tx, faults, late>>
  BY DEF TakeReset, Flush, hostVars, wireVars, budgetVars
<1>2. /\ step' \in {"RECEIVE", "FLUSH", "RESET"} /\ reset_requested' \in BOOLEAN
      /\ reset_requested' => step' \in {"SEND", "TAKE"}
  <2>1. CASE TakeReset
    BY <2>1 DEF TakeReset
  <2>2. CASE Flush
    BY <2>2 DEF Flush, IInv, TypeOK
  <2> QED
    BY <2>1, <2>2
<1>5. TypeOK'
  BY <1>1, <1>2 DEF IInv, TypeOK
<1>6. OnlyOwnUnderWay' /\ QuietExchangeIsOwn' /\ step' # "SEND"
  BY <1>1, <1>2 DEF IInv, OnlyOwnUnderWay, QuietExchangeIsOwn
<1>3. ResetIsAcked'
  BY <1>1 DEF TakeReset, Flush, IInv, TypeOK, ResetIsAcked
<1>4. ResetIsShiftedOut'
  BY <1>1 DEF TakeReset, Flush, ResetIsShiftedOut
<1> QED
  BY <1>3, <1>4, <1>5, <1>6 DEF IInv

LEMMA RestartKeeps == IInv /\ (SystemReset \/ Boot) => IInv'
<1> SUFFICES ASSUME IInv, SystemReset \/ Boot PROVE IInv'
  OBVIOUS
<1>1. /\ toDevice' \in Suffixes(toDevice) /\ step' \in {"BOOT", "RECEIVE"} /\ step \in {"RESET", "BOOT"}
      /\ UNCHANGED <<host, outcome, quiet, inbox, faults, late>>
  BY DEF SystemReset, Boot, hostVars, budgetVars
<1>2. /\ parser' \in 0 .. MaxSwallow /\ resp' \in Answer \cup {None} /\ reset_requested' = FALSE
  BY LinkAssumption DEF SystemReset, Boot, IInv, TypeOK
<1>3. /\ toDevice' \in Seq(Request) /\ Len(toDevice') <= MaxInFlight
      /\ quiet => toDevice' \in Seq(OwnRequest)
  <2>1. toDevice \in Seq(Request) /\ Len(toDevice) <= MaxInFlight /\ Len(toDevice) \in Nat /\ MaxInFlight \in Nat
    BY LinkAssumption, LenProperties DEF IInv, TypeOK
  <2>2. toDevice' \in Seq(Request) /\ Len(toDevice') <= Len(toDevice) /\ Len(toDevice') \in Nat
    BY <1>1, <2>1, SequenceKept, LenProperties
  <2> QED
    BY <1>1, <2>1, <2>2, SequenceKept DEF IInv, OnlyOwnUnderWay
<1>4. /\ toHost' \in Seq(Answer) /\ tx' \in Answer \cup {None}
      /\ quiet => toHost' \in Seq(Own) /\ tx' \in Own \cup {None}
  <2>1. CASE SystemReset /\ tx # None
    <3>1. tx \in Answer /\ (quiet => tx \in Own) /\ toHost' = Append(toHost, Truncated(tx)) /\ tx' = None
      BY <2>1 DEF SystemReset, IInv, TypeOK, OnlyOwnUnderWay
    <3> QED
      BY <3>1, TruncatedKept, SequenceKept DEF IInv, TypeOK, OnlyOwnUnderWay
  <2>2. CASE ~ (SystemReset /\ tx # None)
    BY <2>2 DEF SystemReset, Boot, IInv, TypeOK, OnlyOwnUnderWay
  <2> QED
    BY <2>1, <2>2
<1>5. TypeOK'
  <2>1. /\ host' \in {"IDLE", "WAITING"} /\ outcome' \in {"NONE", "OWN", "STALE", "TIMEOUT", "GARBLED"}
        /\ quiet' \in BOOLEAN /\ inbox' \in Seq(Answer)
        /\ faults' \in 0 .. MaxFaults /\ late' \in 0 .. MaxLate
    BY <1>1 DEF IInv, TypeOK
  <2> QED
    BY <1>1, <1>2, <1>3, <1>4, <2>1 DEF TypeOK
<1> QED
  BY <1>1, <1>2, <1>3, <1>4, <1>5 DEF IInv, OnlyOwnUnderWay, QuietExchangeIsOwn, ResetIsAcked, ResetIsShiftedOut
-----------------------------------------------------------------------------
LEMMA StepIInv == IInv /\ [Next]_vars => IInv'
<1> SUFFICES ASSUME IInv, [Next]_vars PROVE IInv'
  OBVIOUS
<1>1. CASE HostStep
  BY <1>1, SendKeeps, ReadKeeps, TimeoutKeeps DEF HostStep
<1>2. CASE Deliver \/ Spoil \/ ShiftOut
  BY <1>2, DeliverKeeps, SpoilKeeps, ShiftOutKeeps
<1>3. CASE DeviceStep
  BY <1>3, ReceiveKeeps, SendResponseKeeps, TakeKeeps, RestartKeeps DEF DeviceStep
<1>4. CASE UNCHANGED vars
  BY <1>4 DEF vars, hostVars, wireVars, deviceVars, budgetVars, IInv, TypeOK, OnlyOwnUnderWay,
     QuietExchangeIsOwn, ResetIsAcked, ResetIsShiftedOut
<1> QED
  BY <1>1, <1>2, <1>3, <1>4 DEF Next

LEMMA Invariance == Spec => []IInv
  BY InitIInv, StepIInv, PTL DEF Spec

(* Messages stay well-formed and within the number that may be under way,  *)
(* and a reset is asked for only while a response is on its way out.       *)
THEOREM LinkTypeCorrect == Spec => []TypeOK
<1>1. IInv => TypeOK
  BY DEF IInv
<1> QED
  BY <1>1, Invariance, PTL

(* An exchange begun when nothing was under way never ends with another    *)
(* one's answer, however many frames the wire spoils and resets come in.   *)
THEOREM QuietExchangeAlwaysOwn == Spec => []QuietExchangeIsOwn
<1>1. IInv => QuietExchangeIsOwn
  BY DEF IInv
<1> QED
  BY <1>1, Invariance, PTL

(* mcu-co_Protocol.md 178, for a baud rate at which two bytes leave within *)
(* the 1000 polls of uart_wait_for_send_complete.                          *)
THEOREM AckAlwaysOnWireBeforeReset ==
  ASSUME ~ TxTimesOut
  PROVE  Spec => []AckOnWireBeforeReset
<1>1. IInv => AckOnWireBeforeReset
  BY ~ TxTimesOut DEF IInv, ResetIsAcked, ResetIsShiftedOut, AckOnWireBeforeReset
<1> QED
  BY <1>1, Invariance, PTL

(* At any baud rate: a reset is only ever the answer to a reset command    *)
(* that was well-formed and acknowledged.                                  *)
THEOREM ResetAlwaysAsked ==
  Spec => [](step = "RESET" => resp.to = "RESET" /\ resp.ack)
<1>1. IInv => (step = "RESET" => resp.to = "RESET" /\ resp.ack)
  BY DEF IInv, ResetIsAcked
<1> QED
  BY <1>1, Invariance, PTL
=============================================================================
