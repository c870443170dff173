---------------------------- MODULE PwmController ----------------------------
(***************************************************************************)
(* The PWM commands (src/pwm_controller.c) over the timer driver.  A group *)
(* is a timer.  A command runs to its end in one step; update events of    *)
(* the running timers happen between any two.  Nothing in an interrupt     *)
(* handler touches a timer or a pin mode.                                  *)
(***************************************************************************)
EXTENDS TimerDriver

CONSTANTS BadPin, BadGroup,   \* fields out of range
          WireFreq, WireDuty  \* the FREQ and DUTY fields the host sends

ASSUME PwmWireAssumption ==
  /\ BadPin \notin Pin
  /\ BadGroup \notin Instance
  /\ WireFreq \subseteq Nat
  /\ WireDuty \subseteq Nat

VARIABLE reply      \* the status the last step answered with, if it did

vars == <<moder, odr, tim, reply>>

WirePin == Pin \cup {BadPin}
WireGroup == Instance \cup {BadGroup}
Silent == "NONE"

TypeOK ==
  /\ PinsTypeOK
  /\ TimTypeOK
  /\ reply \in Status \cup {Silent}

Init == PinsInit /\ TimInit /\ reply = Silent

-----------------------------------------------------------------------------
Respond(s) == reply' = s /\ UNCHANGED odr
RespondOnly(s) == Respond(s) /\ UNCHANGED <<moder, tim>>

(* A wrong length, or a polarity that is neither, is refused at once.      *)
BadPayload == RespondOnly("INVALID_ARG")

GroupCfgStatus(g, f) == IF g = BadGroup THEN "INVALID_ARG" ELSE InitStatus(g, f)

(* timer_start cannot fail on a timer that timer_init has just accepted,   *)
(* so the tear-down behind it is never reached.                            *)
GroupCfg(g, f) ==
  \/ /\ GroupCfgStatus(g, f) # "OK"
     /\ RespondOnly(GroupCfgStatus(g, f))
  \/ /\ GroupCfgStatus(g, f) = "OK"
     /\ Respond("OK")
     /\ tim' = [tim EXCEPT ![g] = TimerStart(TimerInit(@, f))]
     /\ UNCHANGED moder

GroupReleaseStatus(g) ==
  IF g = BadGroup THEN "INVALID_ARG"
  ELSE IF ~ tim[g].initialized THEN "NOT_INIT"
  ELSE "OK"

GroupRelease(g) ==
  \/ /\ GroupReleaseStatus(g) # "OK"
     /\ RespondOnly(GroupReleaseStatus(g))
  \/ /\ GroupReleaseStatus(g) = "OK"
     /\ Respond("OK")
     /\ ReleasePins(g, tim[g].configured)
     /\ tim' = [tim EXCEPT ![g] = TimerDeinit(@)]

GroupGet(g) == RespondOnly(GroupReleaseStatus(g))

(* resolve_channel: the commands on channels name a pin.                   *)
ResolveStatus(p) ==
  IF p = BadPin THEN "INVALID_PIN"
  ELSE IF ~ \E x \in Instance \X Channel : PinOf[x] = p THEN "UNSUPPORTED"
  ELSE "OK"

Resolved(i, c, p) == ResolveStatus(p) = "OK" /\ PinOf[<<i, c>>] = p

ChannelCfg(i, c) ==
  \/ /\ ChannelInitStatus(i, c) # "OK"
     /\ RespondOnly(ChannelInitStatus(i, c))
  \/ /\ ChannelInitStatus(i, c) = "OK"
     /\ Respond("OK")
     /\ GpioInit(PinOf[<<i, c>>], "AF")
     /\ tim' = [tim EXCEPT ![i] = ChannelInit(@, c, 0)]

ChannelSet(i, c, duty) ==
  \/ /\ SetDutyStatus(i, c, duty) # "OK"
     /\ RespondOnly(SetDutyStatus(i, c, duty))
  \/ /\ SetDutyStatus(i, c, duty) = "OK"
     /\ Respond("OK")
     /\ tim' = [tim EXCEPT ![i] = SetDuty(@, c, duty)]
     /\ UNCHANGED moder

ClaimedStatus(i, c) == IF c \in tim[i].configured THEN "OK" ELSE "NOT_INIT"

ChannelRelease(i, c) ==
  \/ /\ ClaimedStatus(i, c) # "OK"
     /\ RespondOnly(ClaimedStatus(i, c))
  \/ /\ ClaimedStatus(i, c) = "OK"
     /\ Respond("OK")
     /\ ReleasePins(i, {c})
     /\ tim' = [tim EXCEPT ![i] = ReleaseChannels(@, {c})]

ChannelGet(i, c) == RespondOnly(ClaimedStatus(i, c))

ChannelCommand(p) ==
  \/ /\ ResolveStatus(p) # "OK"
     /\ RespondOnly(ResolveStatus(p))
  \/ \E i \in Instance, c \in Channel :
       /\ Resolved(i, c, p)
       /\ \/ ChannelCfg(i, c)
          \/ \E duty \in WireDuty : ChannelSet(i, c, duty)
          \/ ChannelRelease(i, c)
          \/ ChannelGet(i, c)

Command ==
  \/ BadPayload
  \/ \E g \in WireGroup :
       \/ GroupRelease(g)
       \/ GroupGet(g)
       \/ \E f \in WireFreq : GroupCfg(g, f)
  \/ \E p \in WirePin : ChannelCommand(p)

EndOfPeriod(i) ==
  /\ UpdateEvent(i)
  /\ reply' = Silent
  /\ UNCHANGED <<moder, odr>>

Next == Command \/ \E i \in Instance : EndOfPeriod(i)

Spec == Init /\ [][Next]_vars

-----------------------------------------------------------------------------
(* A channel the host has claimed really drives its pin: its group is up,  *)
(* the counter runs, the output is enabled and the pin is in AF.  The      *)
(* protocol forbids a configured-but-silent group (timer_start after       *)
(* timer_init, timer_deinit releasing the channels first).                 *)
ClaimedChannelDrives ==
  \A i \in Instance : \A c \in tim[i].configured :
    /\ tim[i].initialized /\ tim[i].cen
    /\ c \in tim[i].ccer
    /\ IsPinAnAf(PinOf[<<i, c>>])

(* A channel nobody holds, released alone or with its group or never       *)
(* claimed, leaves no output enabled, no compare value in either register  *)
(* and no pin in AF for its next owner to inherit.                         *)
UnclaimedChannelSilent ==
  \A i \in Instance : \A c \in Channel \ tim[i].configured :
    /\ c \notin tim[i].ccer
    /\ tim[i].ccr[c] = 0 /\ tim[i].shadow.ccr[c] = 0
    /\ ~ IsPinAnAf(PinOf[<<i, c>>])

(* The compare value of a claimed channel keeps the output active for the  *)
(* requested part of the period, rounded down to a tick, and for all of it *)
(* at DutyMax exactly (timer_duty_to_compare).                             *)
DutyIsAccurate ==
  \A i \in Instance : \A c \in tim[i].configured :
    LET asked  == tim[i].duty[c] * (tim[i].arr + 1)
        active == tim[i].ccr[c] * DutyMax
    IN  asked - active \in 0 .. DutyMax - 1

(* The counter of a running group never runs on another time base than the *)
(* one configured, from its first period on: the forced update event of    *)
(* timer_init is what keeps reset or earlier values out of it.             *)
FirstPeriodOnTarget ==
  \A i \in Instance :
    tim[i].cen => /\ tim[i].shadow.psc = tim[i].psc
                  /\ tim[i].shadow.arr = tim[i].arr

(* While a group stays up no command moves its frequency: the host has to  *)
(* release it first, because all its pins share the time base.             *)
FrequencyFrozen ==
  [][\A i \in Instance :
       tim[i].initialized /\ tim'[i].initialized =>
         tim'[i].psc = tim[i].psc /\ tim'[i].arr = tim[i].arr]_vars

(* A duty the host set gets to the counter at an update event, unless the  *)
(* host sets another or lets the channel go: no frequency that GROUP_CFG   *)
(* accepts may leave the counter blocked.                                  *)
DutyReachesOutput ==
  \A i \in Instance, c \in Channel, d \in Duty :
    (c \in tim[i].configured /\ tim[i].duty[c] = d)
      ~> \/ tim[i].shadow.ccr[c] = DutyToCompare(tim[i].shadow.arr, d)
         \/ c \notin tim[i].configured
         \/ tim[i].duty[c] # d

-----------------------------------------------------------------------------
(* What the documents say and the code does not do.                        *)

(* mcu-co_Protocol.md: after a release the channels "must then be          *)
(* re-claimed with `pwm channel cfg`", so an unclaimed channel of a        *)
(* configured group is there for the claiming.  Nothing but the PWM        *)
(* commands touches a pin here.                                            *)
ReleasedChannelCanBeReclaimed ==
  \A i \in Instance : \A c \in Channel \ tim[i].configured :
    tim[i].initialized => ChannelInitStatus(i, c) = "OK"

(* mcu-co_Protocol.md and pwm_controller.h: every NACK of GROUP_CFG but    *)
(* BUSY means the group ended up off.                                      *)
OtherNackMeansOff ==
  [][\A g \in Instance, f \in WireFreq :
       GroupCfg(g, f) /\ reply' \notin {"OK", "BUSY"} =>
         ~ tim'[g].initialized]_vars
=============================================================================
