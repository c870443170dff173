----------------------------- MODULE TimerRetune -----------------------------
(***************************************************************************)
(* The driver calls the PWM commands do not use (peripherals/timer.c):     *)
(* timer_set_frequency, cut at its register writes because a running timer *)
(* may come to the end of its period between any two, and timer_stop.      *)
(***************************************************************************)
EXTENDS TimerDriver

VARIABLES call,    \* the retune under way
          asked    \* history: the frequency last accepted for each timer

retuneVars == <<moder, odr, tim, call, asked>>

NoCall == [pc |-> "NONE"]

RetuneTypeOK ==
  /\ PinsTypeOK /\ TimTypeOK
  /\ call \in {NoCall} \cup
       [pc : {"RELOAD", "COMPARES"}, timer : Instance, f : Frequency, todo : SUBSET Channel]
  /\ asked \in [Instance -> {0} \cup Frequency]

RetuneInit ==
  /\ PinsInit /\ TimInit
  /\ call = NoCall /\ asked = [i \in Instance |-> 0]
-----------------------------------------------------------------------------
(* The calls that are one step here.                                       *)
Call(i, t) ==
  /\ call = NoCall
  /\ tim' = [tim EXCEPT ![i] = t]
  /\ UNCHANGED <<odr, call>>

Initialise(i, f) ==
  /\ InitStatus(i, f) = "OK"
  /\ Call(i, TimerInit(tim[i], f))
  /\ asked' = [asked EXCEPT ![i] = f]
  /\ UNCHANGED moder

Start(i) == tim[i].initialized /\ Call(i, TimerStart(tim[i])) /\ UNCHANGED <<moder, asked>>

Stop(i) ==
  /\ tim[i].initialized
  /\ Call(i, [tim[i] EXCEPT !.cen = FALSE])
  /\ UNCHANGED <<moder, asked>>

Claim(i, c, duty) ==
  /\ ChannelInitStatus(i, c) = "OK"
  /\ Call(i, ChannelInit(tim[i], c, duty))
  /\ GpioInit(PinOf[<<i, c>>], "AF")
  /\ UNCHANGED asked

ChangeDuty(i, c, duty) ==
  /\ SetDutyStatus(i, c, duty) = "OK"
  /\ Call(i, SetDuty(tim[i], c, duty))
  /\ UNCHANGED <<moder, asked>>

(* timer_set_frequency: all its checks, then PSC.                          *)
SetFrequencyStatus(i, f) ==
  IF f \notin Frequency THEN "INVALID_ARG"
  ELSE IF ~ tim[i].initialized THEN "NOT_INIT"
  ELSE IF ~ Reachable(f) THEN "INVALID_ARG"
  ELSE "OK"

SetFrequency(i, f) ==
  /\ call = NoCall
  /\ SetFrequencyStatus(i, f) = "OK"
  /\ call' = [pc |-> "RELOAD", timer |-> i, f |-> f, todo |-> tim[i].configured]
  /\ tim' = [tim EXCEPT ![i] = [@ EXCEPT !.psc = Prescaler(f)]]
  /\ asked' = [asked EXCEPT ![i] = f]
  /\ UNCHANGED <<moder, odr>>

WriteReload ==
  /\ call.pc = "RELOAD"
  /\ tim' = [tim EXCEPT ![call.timer] = [@ EXCEPT !.arr = Reload(call.f)]]
  /\ call' = [call EXCEPT !.pc = "COMPARES"]
  /\ UNCHANGED <<moder, odr, asked>>

(* The channels in order, each for the duty the driver remembers.          *)
CompareActiveReload(t, c) == DutyToCompare(t.shadow.arr, t.duty[c])
NewCompare(t, c) == DutyToCompare(t.arr, t.duty[c])

WriteCompare(c) ==
  /\ call.pc = "COMPARES" /\ c \in call.todo
  /\ \A d \in call.todo : c <= d
  /\ tim' = [tim EXCEPT ![call.timer] = [@ EXCEPT !.ccr[c] = NewCompare(tim[call.timer], c)]]
  /\ call' = [call EXCEPT !.todo = @ \ {c}]
  /\ UNCHANGED <<moder, odr, asked>>

Finish ==
  /\ call.pc = "COMPARES" /\ call.todo = {}
  /\ tim' = [tim EXCEPT ![call.timer] = LoadShadowIfStopped(@)]
  /\ call' = NoCall
  /\ UNCHANGED <<moder, odr, asked>>

(* timer_get_frequency, from the preload registers.                        *)
GetFrequency(i) == ClkHz \div ((tim[i].psc + 1) * (tim[i].arr + 1))

PeriodEnds(i) == UpdateEvent(i) /\ UNCHANGED <<moder, odr, call, asked>>

RetuneNext ==
  \/ WriteReload \/ Finish
  \/ \E c \in Channel : WriteCompare(c)
  \/ \E i \in Instance :
       \/ Start(i) \/ Stop(i) \/ PeriodEnds(i)
       \/ \E f \in Frequency : Initialise(i, f) \/ SetFrequency(i, f)
       \/ \E c \in Channel, duty \in Duty : Claim(i, c, duty) \/ ChangeDuty(i, c, duty)

RetuneSpec == RetuneInit /\ [][RetuneNext]_retuneVars
-----------------------------------------------------------------------------
AtRest(i) == tim[i].initialized /\ ~ (call # NoCall /\ call.timer = i)

(* The time base is the best there is for the frequency last asked for:    *)
(* the smallest prescaler that fits, less than one of its steps too short  *)
(* a period, and what is read back is never below what was asked.          *)
TimebaseIsBest ==
  \A i \in Instance : AtRest(i) =>
    LET psc == tim[i].psc
        period == (psc + 1) * (tim[i].arr + 1)
    IN  /\ Ticks(asked[i]) - period \in 0 .. psc
        /\ psc > 0 => psc * (ReloadMax + 1) < Ticks(asked[i])
        /\ GetFrequency(i) >= asked[i]

(* A time base and compare values that belong together.                    *)
Whole(i, r) ==
  /\ \E f \in Frequency : Reachable(f) /\ r.psc = Prescaler(f) /\ r.arr = Reload(f)
  /\ \A c \in tim[i].configured : \E d \in Duty : r.ccr[c] = DutyToCompare(r.arr, d)

(* Between calls the compare values are those of the remembered duties at  *)
(* the new reload: a mixed period, if there is one, is over at the next    *)
(* update event.                                                           *)
MixLastsOnePeriod ==
  [][\A i \in Instance :
       AtRest(i) /\ PeriodEnds(i) =>
         /\ Whole(i, tim'[i].shadow)
         /\ \A c \in tim[i].configured :
              tim'[i].shadow.ccr[c] = DutyToCompare(tim'[i].shadow.arr, tim[i].duty[c])]_retuneVars
-----------------------------------------------------------------------------
(* timer.c 400: "the whole group switches to the new time base on one      *)
(* update event rather than drifting channel by channel".  A period that   *)
(* ends between two of the writes takes some of them and not the rest.     *)
RetuneIsOneEvent == \A i \in Instance : tim[i].cen => Whole(i, tim[i].shadow)
=============================================================================
