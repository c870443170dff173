---------------------------- MODULE TimerProofs -----------------------------
(***************************************************************************)
(* What holds of the timer driver under the PWM commands (PwmController)   *)
(* and under the calls they do not use (TimerRetune), for every clock,     *)
(* register width, table of pins, frequency and duty.                      *)
(***************************************************************************)
EXTENDS PwmController, TimerRetune, TLAPS

(* Quotient and remainder, as the register arithmetic needs them.          *)
LEMMA Quotient ==
  ASSUME NEW a \in Nat, NEW b \in Nat \ {0}
  PROVE  /\ a \div b \in Nat
         /\ (a \div b) * b <= a
         /\ a - (a \div b) * b \in 0 .. b - 1
  BY Z3

LEMMA ProductMonotone ==
  ASSUME NEW a \in Nat, NEW b \in Nat, NEW c \in Nat, a <= b
  PROVE  c * a <= c * b
  BY Z3

LEMMA ProductCancel ==
  ASSUME NEW a \in Nat, NEW b \in Nat, NEW c \in Nat \ {0}, a * c <= b * c
  PROVE  a <= b
  BY Z3

(* The relation DutyIsAccurate asks for, to be carried around unopened.    *)
Exact(arr, d, v) == d * (arr + 1) - v * DutyMax \in 0 .. DutyMax - 1

(* timer_duty_to_compare loses less than a tick, and its result fits the   *)
(* compare register.                                                       *)
LEMMA CompareExact ==
  ASSUME NEW arr \in Period, NEW d \in Duty
  PROVE  /\ DutyToCompare(arr, d) \in Compare
         /\ Exact(arr, d, DutyToCompare(arr, d))
<1> DEFINE p == arr + 1
<1> DEFINE q == (p * d) \div DutyMax
<1>1. arr \in Nat /\ p \in Nat /\ d \in Nat /\ d <= DutyMax /\ DutyMax \in Nat \ {0}
  BY TimerAssumption DEF Duty, Period
<1>2. CASE d >= DutyMax
  <2>1. d = DutyMax /\ DutyToCompare(arr, d) = arr + 1
    BY <1>1, <1>2 DEF DutyToCompare
  <2>2. d * (arr + 1) - (arr + 1) * DutyMax = 0
    BY <1>1, <2>1
  <2> QED  BY <1>1, <2>1, <2>2, TimerAssumption DEF Exact, Compare, Period
<1>3. CASE ~ d >= DutyMax
  <2>1. DutyToCompare(arr, d) = q
    BY <1>3 DEF DutyToCompare
  <2>2. p * d \in Nat /\ d * p = p * d
    BY <1>1
  <2>3. q \in Nat /\ q * DutyMax <= p * d /\ p * d - q * DutyMax \in 0 .. DutyMax - 1
    <3> HIDE DEF p
    <3> QED  BY <1>1, <2>2, Quotient
  <2>4. p * d <= p * DutyMax
    <3> HIDE DEF p
    <3> QED  BY <1>1, ProductMonotone
  <2>5. q <= p
    <3>1. p * DutyMax \in Nat /\ q * DutyMax \in Nat
      <4> HIDE DEF p, q
      <4> QED  BY <1>1, <2>3
    <3>2. q * DutyMax <= p * DutyMax
      <4> HIDE DEF p, q
      <4> QED  BY <2>2, <2>3, <2>4, <3>1
    <3> HIDE DEF p, q
    <3> QED  BY <1>1, <2>3, <3>2, ProductCancel
  <2> QED  BY <1>1, <2>1, <2>2, <2>3, <2>5, TimerAssumption DEF Exact, Compare, Period
<1> QED  BY <1>2, <1>3

(* An accepted frequency gives register values that fit.                   *)
LEMMA TimebaseFits ==
  ASSUME NEW f \in Frequency, Reachable(f)
  PROVE  Prescaler(f) \in Divider /\ Reload(f) \in Period
<1>1. f \in Nat \ {0} /\ ClkHz \in Nat /\ ReloadMax + 1 \in Nat \ {0}
  BY TimerAssumption DEF Frequency
<1>2. Ticks(f) \in Nat /\ Ticks(f) - 1 \in Nat
  BY <1>1, Quotient DEF Ticks, Reachable
<1>3. Prescaler(f) \in Nat
  BY <1>1, <1>2, Quotient DEF Prescaler
<1> QED  BY <1>3, TimerAssumption DEF Reachable, Divider, Period

-----------------------------------------------------------------------------
(* What holds of each timer by itself.                                     *)
Sound(t) ==
  /\ t \in Timer
  /\ t.initialized <=> t.cen
  /\ t.configured # {} => t.initialized
  /\ t.ccer = t.configured
  /\ \A c \in Channel \ t.configured : t.ccr[c] = 0 /\ t.shadow.ccr[c] = 0
  /\ t.cen => t.shadow.psc = t.psc /\ t.shadow.arr = t.arr
  /\ \A c \in t.configured : Exact(t.arr, t.duty[c], t.ccr[c])

(* A pin is in AF exactly while the channel it belongs to is claimed.      *)
PinsFollow ==
  \A i \in Instance, c \in Channel :
    IsPinAnAf(PinOf[<<i, c>>]) <=> c \in tim[i].configured

PwmInv ==
  /\ TypeOK
  /\ \A i \in Instance : Sound(tim[i])
  /\ PinsFollow

LEMMA SoundInit ==
  ASSUME TimInit, NEW i \in Instance
  PROVE  Sound(tim[i]) /\ tim[i].configured = {}
<1> DEFINE t == tim[i]
<1>1. t = [initialized |-> FALSE, cen |-> FALSE, configured |-> {}, ccer |-> {},
           duty |-> AllZero, psc |-> 0, arr |-> ReloadMax, ccr |-> AllZero,
           shadow |-> ResetRegisters]
  BY DEF TimInit
<1>2. /\ AllZero \in [Channel -> Duty] /\ AllZero \in [Channel -> Compare]
      /\ 0 \in Divider /\ ReloadMax \in Period
  BY TimerAssumption DEF AllZero, Duty, Divider, Period, Compare
<1> HIDE DEF t
<1>3. t \in Timer
  BY <1>1, <1>2 DEF Timer, Registers, ResetRegisters
<1>4. Sound(t) /\ t.configured = {}
  BY <1>1, <1>3 DEF Sound, AllZero, ResetRegisters
<1> QED  BY <1>4 DEF t

(* group_cfg on a group that is down.                                      *)
LEMMA SoundStart ==
  ASSUME NEW t, Sound(t), ~ t.initialized, NEW f \in Frequency, Reachable(f)
  PROVE  /\ Sound(TimerStart(TimerInit(t, f)))
         /\ TimerStart(TimerInit(t, f)).configured = t.configured
<1> DEFINE u == TimerStart(TimerInit(t, f))
<1> DEFINE P == Prescaler(f)
<1> DEFINE R == Reload(f)
<1> DEFINE S == [psc |-> P, arr |-> R, ccr |-> t.ccr]
<1>1. t.configured = {} /\ t \in Timer
  BY DEF Sound
<1>2. P \in Divider /\ R \in Period /\ S \in Registers
  BY <1>1, TimebaseFits DEF Timer, Registers
<1>3. u = [t EXCEPT !.initialized = TRUE, !.cen = TRUE, !.ccer = {},
                    !.psc = P, !.arr = R, !.shadow = S]
  BY <1>1 DEF TimerStart, TimerInit, LoadShadowIfStopped, Preload, Timer
<1>4. S.psc = P /\ S.arr = R /\ S.ccr = t.ccr
  OBVIOUS
<1> HIDE DEF P, R, S, u
<1>5. u \in Timer
  BY <1>1, <1>2, <1>3 DEF Timer
<1>6. /\ u.initialized = TRUE /\ u.cen = TRUE /\ u.configured = {} /\ u.ccer = {}
      /\ u.psc = P /\ u.arr = R /\ u.ccr = t.ccr /\ u.shadow = S
  BY <1>1, <1>3 DEF Timer
<1>7. Sound(u) /\ u.configured = t.configured
  BY <1>1, <1>4, <1>5, <1>6 DEF Sound
<1> QED  BY <1>7 DEF u

(* Channels let go, one or several.                                        *)
LEMMA SoundRelease ==
  ASSUME NEW t, Sound(t), NEW C \in SUBSET Channel
  PROVE  /\ Sound(ReleaseChannels(t, C))
         /\ ReleaseChannels(t, C).configured = t.configured \ C
         /\ ReleaseChannels(t, C).psc = t.psc /\ ReleaseChannels(t, C).arr = t.arr
<1> DEFINE u == ReleaseChannels(t, C)
<1> DEFINE Ccr == [c \in Channel |-> IF c \in C THEN 0 ELSE t.ccr[c]]
<1> DEFINE D == [c \in Channel |-> IF c \in C THEN 0 ELSE t.duty[c]]
<1> DEFINE ShadowCcr == [c \in Channel |-> IF c \in C THEN 0 ELSE t.shadow.ccr[c]]
<1> DEFINE S == [t.shadow EXCEPT !.ccr = ShadowCcr]
<1>1. t \in Timer
  BY DEF Sound
<1>2. u = [t EXCEPT !.ccer = t.ccer \ C, !.configured = t.configured \ C,
                    !.ccr = Ccr, !.duty = D, !.shadow = S]
  BY <1>1 DEF ReleaseChannels, Timer, Registers
<1>3. /\ Ccr \in [Channel -> Compare] /\ D \in [Channel -> Duty]
      /\ ShadowCcr \in [Channel -> Compare]
  <2>1. 0 \in Duty /\ 0 \in Compare
    BY TimerAssumption DEF Duty, Compare
  <2> QED  BY <1>1, <2>1 DEF Timer, Registers
<1>4. /\ \A c \in Channel : Ccr[c] = IF c \in C THEN 0 ELSE t.ccr[c]
      /\ \A c \in Channel : D[c] = IF c \in C THEN 0 ELSE t.duty[c]
      /\ \A c \in Channel : ShadowCcr[c] = IF c \in C THEN 0 ELSE t.shadow.ccr[c]
  OBVIOUS
<1> HIDE DEF Ccr, D, ShadowCcr, u
<1>5. /\ S \in Registers /\ S.ccr = ShadowCcr
      /\ S.psc = t.shadow.psc /\ S.arr = t.shadow.arr
  BY <1>1, <1>3 DEF Timer, Registers
<1> HIDE DEF S
<1>6. u \in Timer
  BY <1>1, <1>2, <1>3, <1>5 DEF Timer
<1>7. /\ u.initialized = t.initialized /\ u.cen = t.cen
      /\ u.configured = t.configured \ C /\ u.ccer = t.ccer \ C
      /\ u.psc = t.psc /\ u.arr = t.arr
      /\ u.ccr = Ccr /\ u.duty = D /\ u.shadow = S
  BY <1>1, <1>2 DEF Timer
<1>8. \A c \in u.configured : Exact(u.arr, u.duty[c], u.ccr[c])
  BY <1>1, <1>4, <1>7 DEF Sound, Timer
<1>9. \A c \in Channel \ u.configured : u.ccr[c] = 0 /\ u.shadow.ccr[c] = 0
  BY <1>4, <1>5, <1>7 DEF Sound
<1>10. /\ Sound(u) /\ u.configured = t.configured \ C
       /\ u.psc = t.psc /\ u.arr = t.arr
  BY <1>5, <1>6, <1>7, <1>8, <1>9 DEF Sound
<1> QED  BY <1>10 DEF u

(* group_release.                                                          *)
LEMMA SoundDeinit ==
  ASSUME NEW t, Sound(t)
  PROVE  /\ Sound(TimerDeinit(t)) /\ TimerDeinit(t).configured = {}
         /\ ~ TimerDeinit(t).initialized
<1> DEFINE r == ReleaseChannels(t, t.configured)
<1> DEFINE u == TimerDeinit(t)
<1> DEFINE S == [r.shadow EXCEPT !.arr = ReloadMax]
<1>1. t.configured \in SUBSET Channel
  BY DEF Sound, Timer
<1>2. Sound(r) /\ r.configured = {} /\ r \in Timer
  BY <1>1, SoundRelease DEF Sound
<1>3. u = [r EXCEPT !.initialized = FALSE, !.cen = FALSE, !.ccer = {},
                    !.psc = 0, !.arr = ReloadMax, !.shadow = S]
  <2>1. \A x \in Timer :
           [x EXCEPT !.initialized = FALSE, !.cen = FALSE, !.ccer = {},
                     !.psc = 0, !.arr = ReloadMax, !.shadow.arr = ReloadMax]
           = [x EXCEPT !.initialized = FALSE, !.cen = FALSE, !.ccer = {},
                       !.psc = 0, !.arr = ReloadMax,
                       !.shadow = [x.shadow EXCEPT !.arr = ReloadMax]]
    BY DEF Timer, Registers
  <2> QED  BY <1>2, <2>1 DEF TimerDeinit
<1>4. 0 \in Divider /\ ReloadMax \in Period
  BY TimerAssumption DEF Divider, Period
<1> HIDE DEF r, u
<1>5. S \in Registers /\ S.ccr = r.shadow.ccr
  BY <1>2, <1>4 DEF Timer, Registers
<1> HIDE DEF S
<1>6. u \in Timer
  BY <1>2, <1>3, <1>4, <1>5 DEF Timer
<1>7. /\ u.initialized = FALSE /\ u.cen = FALSE /\ u.configured = {} /\ u.ccer = {}
      /\ u.ccr = r.ccr /\ u.shadow = S
  BY <1>2, <1>3 DEF Timer
<1>8. Sound(u) /\ u.configured = {} /\ ~ u.initialized
  BY <1>2, <1>5, <1>6, <1>7 DEF Sound
<1> QED  BY <1>8 DEF u

(* channel_cfg and channel_set: the counter runs, so nothing is forced.    *)
LEMMA SoundInitChannel ==
  ASSUME NEW t, Sound(t), t.initialized, NEW c \in Channel, NEW d \in Duty
  PROVE  /\ Sound(ChannelInit(t, c, d))
         /\ ChannelInit(t, c, d).configured = t.configured \cup {c}
         /\ ChannelInit(t, c, d).psc = t.psc /\ ChannelInit(t, c, d).arr = t.arr
<1> DEFINE v == DutyToCompare(t.arr, d)
<1> DEFINE u == ChannelInit(t, c, d)
<1>1. t \in Timer /\ t.cen
  BY DEF Sound
<1>2. v \in Compare /\ Exact(t.arr, d, v)
  BY <1>1, CompareExact DEF Timer
<1>3. u = [initialized |-> t.initialized, cen |-> t.cen,
           configured |-> t.configured \cup {c}, ccer |-> t.ccer \cup {c},
           duty |-> [t.duty EXCEPT ![c] = d], psc |-> t.psc, arr |-> t.arr,
           ccr |-> [t.ccr EXCEPT ![c] = v], shadow |-> t.shadow]
  BY <1>1 DEF ChannelInit, LoadShadowIfStopped, Timer
<1> HIDE DEF v, u
<1>4. u \in Timer
  BY <1>1, <1>2, <1>3 DEF Timer
<1>5. /\ Sound(u) /\ u.configured = t.configured \cup {c}
      /\ u.psc = t.psc /\ u.arr = t.arr
  BY <1>1, <1>2, <1>3, <1>4 DEF Sound, Timer
<1> QED  BY <1>5 DEF u

LEMMA SoundSetDuty ==
  ASSUME NEW t, Sound(t), NEW c \in t.configured, NEW d \in Duty
  PROVE  /\ Sound(SetDuty(t, c, d))
         /\ SetDuty(t, c, d).configured = t.configured
         /\ SetDuty(t, c, d).psc = t.psc /\ SetDuty(t, c, d).arr = t.arr
<1> DEFINE v == DutyToCompare(t.arr, d)
<1> DEFINE u == SetDuty(t, c, d)
<1>1. t \in Timer /\ t.cen /\ c \in Channel
  BY DEF Sound, Timer
<1>2. v \in Compare /\ Exact(t.arr, d, v)
  BY <1>1, CompareExact DEF Timer
<1>3. u = [initialized |-> t.initialized, cen |-> t.cen,
           configured |-> t.configured, ccer |-> t.ccer,
           duty |-> [t.duty EXCEPT ![c] = d], psc |-> t.psc, arr |-> t.arr,
           ccr |-> [t.ccr EXCEPT ![c] = v], shadow |-> t.shadow]
  BY <1>1 DEF SetDuty, LoadShadowIfStopped, Timer
<1> HIDE DEF v, u
<1>4. u \in Timer
  BY <1>1, <1>2, <1>3 DEF Timer
<1>5. /\ Sound(u) /\ u.configured = t.configured
      /\ u.psc = t.psc /\ u.arr = t.arr
  BY <1>1, <1>2, <1>3, <1>4 DEF Sound, Timer
<1> QED  BY <1>5 DEF u

(* The end of a period.                                                    *)
LEMMA SoundUpdate ==
  ASSUME NEW t, Sound(t)
  PROVE  /\ Sound([t EXCEPT !.shadow = Preload(t)])
         /\ [t EXCEPT !.shadow = Preload(t)].configured = t.configured
         /\ [t EXCEPT !.shadow = Preload(t)].psc = t.psc
         /\ [t EXCEPT !.shadow = Preload(t)].arr = t.arr
<1> DEFINE u == [t EXCEPT !.shadow = Preload(t)]
<1>1. t \in Timer
  BY DEF Sound
<1>2. u = [initialized |-> t.initialized, cen |-> t.cen,
           configured |-> t.configured, ccer |-> t.ccer, duty |-> t.duty,
           psc |-> t.psc, arr |-> t.arr, ccr |-> t.ccr,
           shadow |-> [psc |-> t.psc, arr |-> t.arr, ccr |-> t.ccr]]
  BY <1>1 DEF Timer, Preload
<1> HIDE DEF u
<1>3. u \in Timer
  BY <1>1, <1>2 DEF Timer, Registers
<1>4. /\ Sound(u) /\ u.configured = t.configured
      /\ u.psc = t.psc /\ u.arr = t.arr
  BY <1>1, <1>2, <1>3 DEF Sound
<1> QED  BY <1>4 DEF u

-----------------------------------------------------------------------------
(* A step leaves timers and pins alone or is one of six calls that passed  *)
(* the checks of the command that makes it.                                *)
Starts(i, f) ==
  /\ ~ tim[i].initialized /\ Reachable(f)
  /\ tim' = [tim EXCEPT ![i] = TimerStart(TimerInit(tim[i], f))]
  /\ UNCHANGED moder
Stops(i) ==
  /\ tim' = [tim EXCEPT ![i] = TimerDeinit(tim[i])]
  /\ ReleasePins(i, tim[i].configured)
Claims(i, c) ==
  /\ ChannelInitStatus(i, c) = "OK"
  /\ tim' = [tim EXCEPT ![i] = ChannelInit(tim[i], c, 0)]
  /\ GpioInit(PinOf[<<i, c>>], "AF")
Sets(i, c, d) ==
  /\ c \in tim[i].configured
  /\ tim' = [tim EXCEPT ![i] = SetDuty(tim[i], c, d)]
  /\ UNCHANGED moder
Frees(i, c) ==
  /\ c \in tim[i].configured
  /\ tim' = [tim EXCEPT ![i] = ReleaseChannels(tim[i], {c})]
  /\ ReleasePins(i, {c})
Updates(i) ==
  /\ tim' = [tim EXCEPT ![i] = [tim[i] EXCEPT !.shadow = Preload(tim[i])]]
  /\ UNCHANGED moder

LEMMA StepShape ==
  ASSUME TypeOK, [Next]_vars
  PROVE  /\ reply' \in Status \cup {Silent} /\ odr' = odr
         /\ \/ UNCHANGED <<moder, tim>>
            \/ \E i \in Instance, f \in Frequency : Starts(i, f)
            \/ \E i \in Instance : Stops(i)
            \/ \E i \in Instance, c \in Channel : Claims(i, c)
            \/ \E i \in Instance, c \in Channel, d \in Duty : Sets(i, c, d)
            \/ \E i \in Instance, c \in Channel : Frees(i, c)
            \/ \E i \in Instance : Updates(i)
<1> USE DEF Respond, RespondOnly, Status
<1>1. CASE UNCHANGED vars
  BY <1>1 DEF vars, TypeOK
<1>2. CASE BadPayload
  BY <1>2 DEF BadPayload
<1>3. CASE \E g \in WireGroup : GroupRelease(g) \/ GroupGet(g)
  BY <1>3 DEF GroupRelease, GroupGet, GroupReleaseStatus, WireGroup, Stops
<1>4. CASE \E g \in WireGroup, f \in WireFreq : GroupCfg(g, f)
  BY <1>4 DEF GroupCfg, GroupCfgStatus, InitStatus, WireGroup, Starts
<1>5. CASE \E p \in WirePin : ResolveStatus(p) # "OK" /\ RespondOnly(ResolveStatus(p))
  BY <1>5 DEF ResolveStatus
<1>6. CASE \E i \in Instance, c \in Channel : ChannelCfg(i, c)
  BY <1>6 DEF ChannelCfg, ChannelInitStatus, Claims
<1>7. CASE \E i \in Instance, c \in Channel, d \in WireDuty : ChannelSet(i, c, d)
  <2>1. \A d \in WireDuty : ~ d > DutyMax => d \in Duty
    BY PwmWireAssumption, TimerAssumption DEF Duty
  <2> QED  BY <1>7, <2>1 DEF ChannelSet, SetDutyStatus, Sets
<1>8. CASE \E i \in Instance, c \in Channel : ChannelRelease(i, c) \/ ChannelGet(i, c)
  BY <1>8 DEF ChannelRelease, ChannelGet, ClaimedStatus, Frees
<1>9. CASE \E i \in Instance : EndOfPeriod(i)
  BY <1>9 DEF EndOfPeriod, UpdateEvent, Updates
<1> QED
  BY <1>1, <1>2, <1>3, <1>4, <1>5, <1>6, <1>7, <1>8, <1>9
  DEF Next, Command, ChannelCommand

(* What becomes of the claims C of timer i, and of the pins with them.     *)
ClaimsBecome(i, C) ==
  \/ UNCHANGED moder /\ C = tim[i].configured
  \/ \E c \in Channel : /\ ChannelInitStatus(i, c) = "OK"
                        /\ GpioInit(PinOf[<<i, c>>], "AF")
                        /\ C = tim[i].configured \cup {c}
  \/ \E D \in SUBSET tim[i].configured : /\ ReleasePins(i, D)
                                         /\ C = tim[i].configured \ D

(* A group that stays up keeps its time base.                              *)
SameBase(t, u) == t.initialized /\ u.initialized => u.psc = t.psc /\ u.arr = t.arr

TimersSound == tim \in [Instance -> Timer] /\ \A i \in Instance : Sound(tim[i])

(* A step replaces at most one timer, by a sound one.  This needs nothing  *)
(* to be known of the pins.                                                *)
LEMMA TimerStep ==
  ASSUME TypeOK, TimersSound, [Next]_vars
  PROVE  \/ UNCHANGED <<moder, tim>>
         \/ \E i \in Instance : \E t \in Timer :
              /\ tim' = [tim EXCEPT ![i] = t]
              /\ Sound(t) /\ SameBase(tim[i], t) /\ ClaimsBecome(i, t.configured)
<1> DEFINE Becomes(i, t) == /\ tim' = [tim EXCEPT ![i] = t]
                            /\ Sound(t) /\ SameBase(tim[i], t)
                            /\ ClaimsBecome(i, t.configured)
           Goal == \/ UNCHANGED <<moder, tim>>
                   \/ \E i \in Instance : \E t \in Timer : Becomes(i, t)
<1>1. \A i \in Instance : Sound(tim[i]) /\ tim[i].configured \in SUBSET Channel
  BY DEF TimersSound, Sound, Timer
<1>2. ASSUME NEW i \in Instance, NEW t, Becomes(i, t)
      PROVE  Goal
  BY <1>2 DEF Sound
<1> HIDE DEF Goal
<1>3. ASSUME UNCHANGED <<moder, tim>>
      PROVE  Goal
  BY <1>3 DEF Goal
<1>4. ASSUME NEW i \in Instance, NEW f \in Frequency, Starts(i, f)
      PROVE  Goal
  <2> DEFINE t == TimerStart(TimerInit(tim[i], f))
  <2>1. Sound(t) /\ t.configured = tim[i].configured
    BY <1>1, <1>4, SoundStart DEF Starts
  <2> HIDE DEF t
  <2>2. Becomes(i, t)
    BY <1>4, <2>1 DEF Starts, t, SameBase, ClaimsBecome
  <2> QED  BY <1>2, <2>2
<1>5. ASSUME NEW i \in Instance, Stops(i)
      PROVE  Goal
  <2> DEFINE t == TimerDeinit(tim[i])
  <2>1. Sound(t) /\ ~ t.initialized /\ t.configured = tim[i].configured \ tim[i].configured
    BY <1>1, SoundDeinit
  <2> HIDE DEF t
  <2>2. ClaimsBecome(i, t.configured)
    BY <1>5, <2>1 DEF Stops, ClaimsBecome
  <2>3. Becomes(i, t)
    BY <1>5, <2>1, <2>2 DEF Stops, t, SameBase
  <2> QED  BY <1>2, <2>3
<1>6. ASSUME NEW i \in Instance, NEW c \in Channel, Claims(i, c)
      PROVE  Goal
  <2> DEFINE t == ChannelInit(tim[i], c, 0)
  <2>1. /\ Sound(t) /\ t.configured = tim[i].configured \cup {c}
        /\ t.psc = tim[i].psc /\ t.arr = tim[i].arr
    <3>1. 0 \in Duty
      BY TimerAssumption DEF Duty
    <3>2. tim[i].initialized
      BY <1>6 DEF Claims, ChannelInitStatus
    <3> QED  BY <1>1, <3>1, <3>2, SoundInitChannel
  <2> HIDE DEF t
  <2>2. ClaimsBecome(i, t.configured)
    BY <1>6, <2>1 DEF Claims, ClaimsBecome
  <2>3. Becomes(i, t)
    BY <1>6, <2>1, <2>2 DEF Claims, t, SameBase
  <2> QED  BY <1>2, <2>3
<1>7. ASSUME NEW i \in Instance, NEW c \in Channel, NEW d \in Duty, Sets(i, c, d)
      PROVE  Goal
  <2> DEFINE t == SetDuty(tim[i], c, d)
  <2>1. /\ Sound(t) /\ t.configured = tim[i].configured
        /\ t.psc = tim[i].psc /\ t.arr = tim[i].arr
    BY <1>1, <1>7, SoundSetDuty DEF Sets
  <2> HIDE DEF t
  <2>2. Becomes(i, t)
    BY <1>7, <2>1 DEF Sets, t, SameBase, ClaimsBecome
  <2> QED  BY <1>2, <2>2
<1>8. ASSUME NEW i \in Instance, NEW c \in Channel, Frees(i, c)
      PROVE  Goal
  <2> DEFINE t == ReleaseChannels(tim[i], {c})
  <2>1. /\ Sound(t) /\ t.configured = tim[i].configured \ {c}
        /\ t.psc = tim[i].psc /\ t.arr = tim[i].arr
    BY <1>1, SoundRelease
  <2> HIDE DEF t
  <2>2. {c} \in SUBSET tim[i].configured /\ ReleasePins(i, {c})
    BY <1>8 DEF Frees
  <2>3. ClaimsBecome(i, t.configured)
    BY <2>1, <2>2 DEF ClaimsBecome
  <2>4. Becomes(i, t)
    BY <1>8, <2>1, <2>3 DEF Frees, t, SameBase
  <2> QED  BY <1>2, <2>4
<1>9. ASSUME NEW i \in Instance, Updates(i)
      PROVE  Goal
  <2> DEFINE t == [tim[i] EXCEPT !.shadow = Preload(tim[i])]
  <2>1. /\ Sound(t) /\ t.configured = tim[i].configured
        /\ t.psc = tim[i].psc /\ t.arr = tim[i].arr
    BY <1>1, SoundUpdate
  <2> HIDE DEF t
  <2>2. Becomes(i, t)
    BY <1>9, <2>1 DEF Updates, t, SameBase, ClaimsBecome
  <2> QED  BY <1>2, <2>2
<1>10. Goal
  BY <1>3, <1>4, <1>5, <1>6, <1>7, <1>8, <1>9, StepShape
<1> QED  BY <1>10 DEF Goal

(* So the timers stay sound, and no group that stays up is retuned.        *)
LEMMA TimersStaySound ==
  ASSUME TypeOK, TimersSound, [Next]_vars
  PROVE  TimersSound' /\ \A i \in Instance : SameBase(tim[i], tim'[i])
<1>1. CASE UNCHANGED <<moder, tim>>
  BY <1>1 DEF TimersSound, SameBase
<1>2. ASSUME NEW i \in Instance, NEW t \in Timer, tim' = [tim EXCEPT ![i] = t],
             Sound(t), SameBase(tim[i], t)
      PROVE  TimersSound' /\ \A j \in Instance : SameBase(tim[j], tim'[j])
  <2>1. \A j \in Instance : tim'[j] = IF j = i THEN t ELSE tim[j]
    BY <1>2 DEF TimersSound
  <2>2. tim' \in [Instance -> Timer] /\ \A j \in Instance : Sound(tim'[j])
    BY <1>2, <2>1 DEF TimersSound
  <2>3. \A j \in Instance : SameBase(tim[j], tim'[j])
    BY <1>2, <2>1 DEF SameBase
  <2> QED  BY <2>2, <2>3 DEF TimersSound
<1> QED  BY <1>1, <1>2, TimerStep

(* No pin belongs to two channels, so what is done to one pin is not seen  *)
(* by another.                                                             *)
LEMMA PinsKeepFollowing ==
  ASSUME PwmInv, NEW i \in Instance, NEW t,
         tim' = [tim EXCEPT ![i] = t], ClaimsBecome(i, t.configured)
  PROVE  moder' \in [Pin -> Mode] /\ PinsFollow'
<1>1. /\ tim \in [Instance -> Timer] /\ moder \in [Pin -> Mode]
      /\ PinOf \in [Instance \X Channel -> Pin \ BootAf]
      /\ \A x, y \in Instance \X Channel : PinOf[x] = PinOf[y] => x = y
      /\ tim[i].configured \in SUBSET Channel
  BY TimerAssumption DEF PwmInv, TypeOK, TimTypeOK, PinsTypeOK, Timer
<1>2. \A j \in Instance, d \in Channel : PinOf[<<j, d>>] \in Pin
  BY <1>1
<1>3. moder' \in [Pin -> Mode]
  BY <1>1, <1>2 DEF ClaimsBecome, ReleasePins, GpioDeinit, GpioInit, Mode
<1>4. \A j \in Instance, d \in Channel :
        (moder'[PinOf[<<j, d>>]] = "AF") <=> d \in tim'[j].configured
  <2> SUFFICES ASSUME NEW j \in Instance, NEW d \in Channel
               PROVE  (moder'[PinOf[<<j, d>>]] = "AF") <=> d \in tim'[j].configured
    OBVIOUS
  <2>1. (moder[PinOf[<<j, d>>]] = "AF") <=> d \in tim[j].configured
    BY DEF PwmInv, PinsFollow, IsPinAnAf
  <2>2. tim'[j] = IF j = i THEN t ELSE tim[j]
    BY <1>1
  <2>3. \A c \in Channel : PinOf[<<j, d>>] = PinOf[<<i, c>>] => j = i /\ d = c
    BY <1>1
  <2>4. CASE UNCHANGED moder /\ t.configured = tim[i].configured
    BY <2>1, <2>2, <2>4
  <2>5. ASSUME NEW D \in SUBSET tim[i].configured,
               ReleasePins(i, D), t.configured = tim[i].configured \ D
        PROVE  (moder'[PinOf[<<j, d>>]] = "AF") <=> d \in tim'[j].configured
    <3> DEFINE Freed == {PinOf[<<i, c>>] : c \in D}
    <3>1. moder' = [p \in Pin |-> IF p \in Freed THEN "INPUT" ELSE moder[p]]
      BY <2>5 DEF ReleasePins, GpioDeinit
    <3>2. PinOf[<<j, d>>] \in Freed <=> j = i /\ d \in D
      <4>1. D \subseteq Channel
        BY <1>1
      <4> QED  BY <2>3, <4>1
    <3> QED  BY <1>2, <2>1, <2>2, <2>5, <3>1, <3>2
  <2>6. ASSUME NEW c \in Channel, GpioInit(PinOf[<<i, c>>], "AF"),
               t.configured = tim[i].configured \cup {c}
        PROVE  (moder'[PinOf[<<j, d>>]] = "AF") <=> d \in tim'[j].configured
    BY <1>1, <1>2, <2>1, <2>2, <2>3, <2>6 DEF GpioInit
  <2> QED  BY <2>4, <2>5, <2>6 DEF ClaimsBecome
<1> QED  BY <1>3, <1>4 DEF PinsFollow, IsPinAnAf

LEMMA PwmInvStep ==
  ASSUME PwmInv, [Next]_vars
  PROVE  PwmInv'
<1>1. TypeOK /\ PinsFollow /\ moder \in [Pin -> Mode] /\ TimersSound
  BY DEF PwmInv, TypeOK, PinsTypeOK, TimTypeOK, TimersSound
<1>2. reply' \in Status \cup {Silent} /\ odr' = odr
  BY <1>1, StepShape
<1>3. TimersSound'
  BY <1>1, TimersStaySound
<1>4. moder' \in [Pin -> Mode] /\ PinsFollow'
  <2>1. CASE UNCHANGED <<moder, tim>>
    BY <1>1, <2>1 DEF PinsFollow, IsPinAnAf
  <2> QED  BY <1>1, <2>1, TimerStep, PinsKeepFollowing
<1> QED
  BY <1>1, <1>2, <1>3, <1>4 DEF PwmInv, TypeOK, PinsTypeOK, TimTypeOK, TimersSound

LEMMA PwmInvInit == Init => PwmInv
<1> SUFFICES ASSUME Init PROVE PwmInv
  OBVIOUS
<1>1. \A i \in Instance : Sound(tim[i]) /\ tim[i].configured = {}
  BY SoundInit DEF Init
<1>2. TypeOK
  <2>1. tim \in [Instance -> Timer]
    BY <1>1 DEF Init, TimInit, Sound
  <2> QED  BY <2>1 DEF Init, PinsInit, TypeOK, PinsTypeOK, TimTypeOK, Mode
<1>3. PinsFollow
  <2>1. \A i \in Instance, c \in Channel : PinOf[<<i, c>>] \in Pin \ BootAf
    BY TimerAssumption
  <2> QED  BY <1>1, <2>1 DEF Init, PinsInit, PinsFollow, IsPinAnAf
<1> QED  BY <1>1, <1>2, <1>3 DEF PwmInv

(* The strengthening: each timer's bookkeeping agrees with its registers,  *)
(* and each pin with the bookkeeping.  An invariant about channels alone   *)
(* would not survive GROUP_CFG, which is safe only because a group that is *)
(* down has no channel claimed.                                            *)
THEOREM InductiveInvariant == Spec => []PwmInv
<1> QED  BY PwmInvInit, PwmInvStep, PTL DEF Spec

(* Every variable keeps its type; the register values fit their registers. *)
THEOREM TypeCorrect == Spec => []TypeOK
<1>1. PwmInv => TypeOK
  BY DEF PwmInv
<1> QED  BY <1>1, InductiveInvariant, PTL

(* A claimed channel drives its pin.                                       *)
THEOREM ClaimedChannelsDrive == Spec => []ClaimedChannelDrives
<1>1. PwmInv => ClaimedChannelDrives
  BY DEF PwmInv, Sound, Timer, PinsFollow, ClaimedChannelDrives
<1> QED  BY <1>1, InductiveInvariant, PTL

(* A channel nobody holds is silent.                                       *)
THEOREM UnclaimedChannelsAreSilent == Spec => []UnclaimedChannelSilent
<1>1. PwmInv => UnclaimedChannelSilent
  BY DEF PwmInv, Sound, PinsFollow, UnclaimedChannelSilent
<1> QED  BY <1>1, InductiveInvariant, PTL

(* Every compare value is the requested duty to within a tick.             *)
THEOREM DutiesAreAccurate == Spec => []DutyIsAccurate
<1>1. PwmInv => DutyIsAccurate
  BY DEF PwmInv, Sound, Exact, DutyIsAccurate
<1> QED  BY <1>1, InductiveInvariant, PTL

(* A running counter uses the time base that was configured.               *)
THEOREM PeriodsAreOnTarget == Spec => []FirstPeriodOnTarget
<1>1. PwmInv => FirstPeriodOnTarget
  BY DEF PwmInv, Sound, FirstPeriodOnTarget
<1> QED  BY <1>1, InductiveInvariant, PTL

(* No command retunes a group that stays up.                               *)
THEOREM FrequencyIsFrozen == Spec => FrequencyFrozen
<1> DEFINE Frozen == \A i \in Instance :
       tim[i].initialized /\ tim'[i].initialized =>
         tim'[i].psc = tim[i].psc /\ tim'[i].arr = tim[i].arr
<1>1. PwmInv /\ [Next]_vars => [Frozen]_vars
  <2>1. PwmInv => TypeOK /\ TimersSound
    BY DEF PwmInv, TypeOK, TimTypeOK, TimersSound
  <2> QED  BY <2>1, TimersStaySound DEF SameBase
<1> QED  BY <1>1, InductiveInvariant, PTL DEF Spec, FrequencyFrozen
-----------------------------------------------------------------------------
(* RETUNING.  timer_set_frequency at its register writes.                  *)

(* What holds of one timer: a is the frequency asked for, reloaded says    *)
(* that the reload has been written for it, done are the channels whose    *)
(* compare value has.                                                      *)
Tuned(t, a, reloaded, done) ==
  /\ t \in Timer
  /\ t.configured # {} => t.initialized
  /\ t.initialized => a \in Frequency /\ Reachable(a) /\ t.psc = Prescaler(a)
  /\ t.initialized /\ reloaded => t.arr = Reload(a)
  /\ \A c \in t.configured \cap done : t.ccr[c] = DutyToCompare(t.arr, t.duty[c])

Working(i) == call # NoCall /\ call.timer = i
Reloaded(i) == Working(i) => call.pc = "COMPARES"
Done(i) == IF ~ Working(i) THEN Channel ELSE IF call.pc = "RELOAD" THEN {} ELSE Channel \ call.todo

(* The call under way is for the frequency asked for last.                 *)
CallFollows ==
  call # NoCall =>
    /\ tim[call.timer].initialized /\ asked[call.timer] = call.f
    /\ call.pc = "RELOAD" => call.todo = tim[call.timer].configured

RetuneInv ==
  /\ RetuneTypeOK /\ CallFollows
  /\ \A i \in Instance : Tuned(tim[i], asked[i], Reloaded(i), Done(i))

(* The calls, one timer at a time.                                         *)
SameTuning(t, u) ==
  /\ u \in Timer /\ u.configured = t.configured /\ u.initialized = t.initialized
  /\ u.psc = t.psc /\ u.arr = t.arr /\ u.ccr = t.ccr /\ u.duty = t.duty

LEMMA SameTimebase ==
  ASSUME NEW t \in Timer
  PROVE  /\ \A cen \in BOOLEAN : SameTuning(t, [t EXCEPT !.cen = cen])
         /\ SameTuning(t, [t EXCEPT !.shadow = Preload(t)])
         /\ SameTuning(t, LoadShadowIfStopped(t))
<1>1. Preload(t) \in Registers
  BY DEF Timer, Preload, Registers
<1>2. \A cen \in BOOLEAN : SameTuning(t, [t EXCEPT !.cen = cen])
  BY DEF Timer, SameTuning
<1>3. SameTuning(t, [t EXCEPT !.shadow = Preload(t)])
  BY <1>1 DEF Timer, SameTuning
<1>4. SameTuning(t, t)
  BY DEF SameTuning
<1> QED
  BY <1>2, <1>3, <1>4 DEF LoadShadowIfStopped

LEMMA TunedLoad ==
  ASSUME NEW t, NEW a, Tuned(t, a, TRUE, Channel)
  PROVE  Tuned(LoadShadowIfStopped(t), a, TRUE, Channel)
<1>1. SameTuning(t, LoadShadowIfStopped(t))
  BY SameTimebase DEF Tuned
<1> QED
  BY <1>1 DEF Tuned, SameTuning

LEMMA TunedInit ==
  ASSUME NEW t, NEW a, Tuned(t, a, TRUE, Channel), ~ t.initialized, NEW f \in Frequency, Reachable(f)
  PROVE  Tuned(TimerInit(t, f), f, TRUE, Channel)
<1> DEFINE u == [t EXCEPT !.initialized = TRUE, !.cen = FALSE, !.ccer = {},
                          !.psc = Prescaler(f), !.arr = Reload(f)]
<1>1. t \in Timer /\ t.configured = {} /\ Prescaler(f) \in Divider /\ Reload(f) \in Period
  BY TimebaseFits DEF Tuned
<1>2. u \in Timer /\ u.configured = {} /\ u.initialized /\ u.psc = Prescaler(f) /\ u.arr = Reload(f)
  BY <1>1 DEF Timer
<1> HIDE DEF u
<1>3. Tuned(u, f, TRUE, Channel)
  BY <1>2 DEF Tuned
<1>4. TimerInit(t, f) = LoadShadowIfStopped(u)
  BY DEF TimerInit, u
<1> QED
  BY <1>3, <1>4, TunedLoad

LEMMA TunedChannel ==
  ASSUME NEW t, NEW a, Tuned(t, a, TRUE, Channel), NEW c \in Channel, NEW d \in Duty
  PROVE  /\ t.initialized => Tuned(ChannelInit(t, c, d), a, TRUE, Channel)
         /\ c \in t.configured => Tuned(SetDuty(t, c, d), a, TRUE, Channel)
<1> DEFINE v == DutyToCompare(t.arr, d)
           ccr == [t.ccr EXCEPT ![c] = v]
           duty == [t.duty EXCEPT ![c] = d]
           u == [t EXCEPT !.configured = t.configured \cup {c}, !.ccer = t.ccer \cup {c},
                          !.ccr = ccr, !.duty = duty]
           w == [t EXCEPT !.ccr = ccr, !.duty = duty]
<1>1. t \in Timer /\ v \in Compare
  BY CompareExact DEF Tuned, Timer
<1>2. /\ ccr \in [Channel -> Compare] /\ duty \in [Channel -> Duty]
      /\ \A k \in Channel : k # c => ccr[k] = t.ccr[k] /\ duty[k] = t.duty[k]
      /\ ccr[c] = DutyToCompare(t.arr, duty[c])
  BY <1>1 DEF Timer
<1>3. ChannelInit(t, c, d) = LoadShadowIfStopped(u)
  BY <1>1 DEF ChannelInit, Timer
<1>4. SetDuty(t, c, d) = LoadShadowIfStopped(w)
  BY <1>1 DEF SetDuty, Timer
<1> HIDE DEF v, ccr, duty
<1>5. /\ u \in Timer /\ u.initialized = t.initialized /\ u.psc = t.psc /\ u.arr = t.arr
      /\ u.configured = t.configured \cup {c} /\ u.ccr = ccr /\ u.duty = duty
  BY <1>1, <1>2 DEF Timer
<1>6. /\ w \in Timer /\ w.initialized = t.initialized /\ w.psc = t.psc /\ w.arr = t.arr
      /\ w.configured = t.configured /\ w.ccr = ccr /\ w.duty = duty
  BY <1>1, <1>2 DEF Timer
<1> HIDE DEF u, w
<1>7. t.initialized => Tuned(u, a, TRUE, Channel)
  BY <1>2, <1>5 DEF Tuned
<1>8. Tuned(w, a, TRUE, Channel)
  BY <1>2, <1>6 DEF Tuned
<1> QED
  BY <1>3, <1>4, <1>7, <1>8, TunedLoad

(* The writes of timer_set_frequency.                                      *)
LEMMA TunedWrites ==
  ASSUME NEW t, NEW a, NEW f \in Frequency, Reachable(f)
  PROVE  /\ Tuned(t, a, TRUE, Channel) => Tuned([t EXCEPT !.psc = Prescaler(f)], f, FALSE, {})
         /\ Tuned(t, f, FALSE, {}) => Tuned([t EXCEPT !.arr = Reload(f)], f, TRUE, Channel \ t.configured)
         /\ \A C \in SUBSET Channel, c \in Channel :
              Tuned(t, f, TRUE, Channel \ C) =>
                Tuned([t EXCEPT !.ccr[c] = NewCompare(t, c)], f, TRUE, Channel \ (C \ {c}))
<1>1. Prescaler(f) \in Divider /\ Reload(f) \in Period
  BY TimebaseFits
<1>2. ASSUME Tuned(t, a, TRUE, Channel)
      PROVE  Tuned([t EXCEPT !.psc = Prescaler(f)], f, FALSE, {})
  <2> DEFINE u == [t EXCEPT !.psc = Prescaler(f)]
  <2>1. t \in Timer
    BY <1>2 DEF Tuned
  <2>2. u \in Timer /\ u.configured = t.configured /\ u.initialized = t.initialized /\ u.psc = Prescaler(f)
    BY <1>1, <2>1 DEF Timer
  <2> HIDE DEF u
  <2>3. Tuned(u, f, FALSE, {})
    BY <1>2, <2>2 DEF Tuned
  <2> QED
    BY <2>3 DEF u
<1>3. ASSUME Tuned(t, f, FALSE, {})
      PROVE  Tuned([t EXCEPT !.arr = Reload(f)], f, TRUE, Channel \ t.configured)
  <2> DEFINE u == [t EXCEPT !.arr = Reload(f)]
  <2>1. t \in Timer
    BY <1>3 DEF Tuned
  <2>2. /\ u \in Timer /\ u.configured = t.configured /\ u.initialized = t.initialized
        /\ u.psc = t.psc /\ u.arr = Reload(f)
    BY <1>1, <2>1 DEF Timer
  <2> HIDE DEF u
  <2>3. Tuned(u, f, TRUE, Channel \ t.configured)
    BY <1>3, <2>2 DEF Tuned
  <2> QED
    BY <2>3 DEF u
<1>4. ASSUME NEW C \in SUBSET Channel, NEW c \in Channel, Tuned(t, f, TRUE, Channel \ C)
      PROVE  Tuned([t EXCEPT !.ccr[c] = NewCompare(t, c)], f, TRUE, Channel \ (C \ {c}))
  <2> DEFINE v == DutyToCompare(t.arr, t.duty[c])
             ccr == [t.ccr EXCEPT ![c] = v]
             u == [t EXCEPT !.ccr = ccr]
  <2>1. t \in Timer /\ t.arr \in Period /\ t.duty[c] \in Duty
    BY <1>4 DEF Tuned, Timer
  <2>2. v \in Compare
    BY <2>1, CompareExact
  <2>3. [t EXCEPT !.ccr[c] = NewCompare(t, c)] = u
    BY <2>1 DEF NewCompare, Timer
  <2>4. /\ ccr \in [Channel -> Compare] /\ ccr[c] = DutyToCompare(t.arr, t.duty[c])
        /\ \A k \in Channel : k # c => ccr[k] = t.ccr[k]
    BY <2>1, <2>2 DEF Timer
  <2> HIDE DEF v, ccr
  <2>5. /\ u \in Timer /\ u.configured = t.configured /\ u.initialized = t.initialized
        /\ u.psc = t.psc /\ u.arr = t.arr /\ u.duty = t.duty /\ u.ccr = ccr
    BY <2>1, <2>4 DEF Timer
  <2> HIDE DEF u
  <2>6. Tuned(u, f, TRUE, Channel \ (C \ {c}))
    BY <1>4, <2>1, <2>4, <2>5 DEF Tuned, Timer
  <2> QED
    BY <2>3, <2>6
<1> QED
  BY <1>2, <1>3, <1>4

LEMMA CallIs ==
  ASSUME RetuneInv, call # NoCall
  PROVE  /\ call.pc \in {"RELOAD", "COMPARES"} /\ call.timer \in Instance /\ call.f \in Frequency
         /\ call.todo \in SUBSET Channel
         /\ Working(call.timer) /\ \A j \in Instance : j # call.timer => ~ Working(j)
         /\ tim[call.timer].initialized /\ asked[call.timer] = call.f /\ Reachable(call.f)
<1>1. call \in [pc : {"RELOAD", "COMPARES"}, timer : Instance, f : Frequency, todo : SUBSET Channel]
  BY DEF RetuneInv, RetuneTypeOK
<1>2. Reachable(call.f)
  BY <1>1 DEF RetuneInv, CallFollows, Tuned
<1> QED
  BY <1>1, <1>2 DEF RetuneInv, CallFollows, Working

LEMMA NoCallNoPc == NoCall.pc = "NONE"
  BY DEF NoCall

(* One timer changes, and with it the frequency asked for or the call.     *)
LEMMA OneTimer ==
  ASSUME RetuneInv, NEW i \in Instance, NEW u, NEW a \in Frequency \cup {0},
         tim' = [tim EXCEPT ![i] = u], asked' = [asked EXCEPT ![i] = a],
         UNCHANGED call \/ \A j \in Instance : j # i => ~ Working(j) /\ ~ Working(j)',
         Tuned(u, a, Reloaded(i)', Done(i)'),
         moder' \in [Pin -> Mode], UNCHANGED odr,
         (call \in {NoCall} \cup
           [pc : {"RELOAD", "COMPARES"}, timer : Instance, f : Frequency, todo : SUBSET Channel])',
         CallFollows'
  PROVE  RetuneInv'
<1>1. /\ tim \in [Instance -> Timer] /\ asked \in [Instance -> {0} \cup Frequency] /\ u \in Timer
  BY DEF RetuneInv, RetuneTypeOK, TimTypeOK, Tuned
<1>2. RetuneTypeOK'
  BY <1>1 DEF RetuneInv, RetuneTypeOK, TimTypeOK, PinsTypeOK
<1>3. ASSUME NEW j \in Instance
      PROVE  Tuned(tim'[j], asked'[j], Reloaded(j)', Done(j)')
  <2>1. CASE j = i
    BY <1>1, <2>1
  <2>2. CASE j # i
    <3>1. tim'[j] = tim[j] /\ asked'[j] = asked[j]
      BY <1>1, <2>2
    <3>2. (Reloaded(j)' <=> Reloaded(j)) /\ Done(j)' = Done(j)
      BY <2>2 DEF Working, Reloaded, Done
    <3>3. Tuned(tim[j], asked[j], Reloaded(j), Done(j))
      BY DEF RetuneInv
    <3> QED
      BY <3>1, <3>2, <3>3 DEF Tuned
  <2> QED
    BY <2>1, <2>2
<1> QED
  BY <1>2, <1>3 DEF RetuneInv

(* The calls that do not retune and the end of a period.                   *)
LEMMA PlainCall ==
  ASSUME RetuneInv, NEW i \in Instance, NEW u, NEW a \in Frequency \cup {0},
         tim' = [tim EXCEPT ![i] = u], asked' = [asked EXCEPT ![i] = a],
         call = NoCall \/ (a = asked[i] /\ u.configured = tim[i].configured /\ u.initialized = tim[i].initialized),
         Tuned(u, a, Reloaded(i), Done(i)),
         moder' \in [Pin -> Mode], UNCHANGED <<odr, call>>
  PROVE  RetuneInv'
<1>1. tim \in [Instance -> Timer] /\ asked \in [Instance -> {0} \cup Frequency]
  BY DEF RetuneInv, RetuneTypeOK, TimTypeOK
<1>2. CallFollows'
  <2>1. CASE call = NoCall
    BY <2>1 DEF CallFollows
  <2>2. CASE call # NoCall
    <3>1. CallFollows /\ call.timer \in Instance
      BY <2>2, CallIs DEF RetuneInv
    <3>2. /\ tim'[call.timer].initialized = tim[call.timer].initialized
          /\ tim'[call.timer].configured = tim[call.timer].configured
          /\ asked'[call.timer] = asked[call.timer]
      BY <1>1, <2>2, <3>1
    <3> QED
      BY <3>1, <3>2 DEF CallFollows
  <2> QED
    BY <2>1, <2>2
<1>3. Tuned(u, a, Reloaded(i)', Done(i)')
  BY DEF Reloaded, Done, Working
<1>4. (call \in {NoCall} \cup
        [pc : {"RELOAD", "COMPARES"}, timer : Instance, f : Frequency, todo : SUBSET Channel])'
  BY DEF RetuneInv, RetuneTypeOK
<1> QED
  BY <1>2, <1>3, <1>4, OneTimer

LEMMA RetuneInitInv == RetuneInit => RetuneInv
<1> SUFFICES ASSUME RetuneInit PROVE RetuneInv
  OBVIOUS
<1>1. ASSUME NEW i \in Instance
      PROVE  tim[i] \in Timer /\ tim[i].configured = {} /\ tim[i].initialized = FALSE
  <2> DEFINE t == tim[i]
  <2>1. t = [initialized |-> FALSE, cen |-> FALSE, configured |-> {}, ccer |-> {},
             duty |-> AllZero, psc |-> 0, arr |-> ReloadMax, ccr |-> AllZero,
             shadow |-> ResetRegisters]
    BY DEF RetuneInit, TimInit
  <2>2. /\ AllZero \in [Channel -> Duty] /\ AllZero \in [Channel -> Compare]
        /\ 0 \in Divider /\ ReloadMax \in Period
    BY TimerAssumption DEF AllZero, Duty, Divider, Period, Compare
  <2> HIDE DEF t
  <2>3. t \in Timer /\ t.configured = {} /\ t.initialized = FALSE
    BY <2>1, <2>2 DEF Timer, Registers, ResetRegisters
  <2> QED
    BY <2>3 DEF t
<1>2. tim \in [Instance -> Timer]
  BY <1>1 DEF RetuneInit, TimInit
<1>3. RetuneTypeOK
  BY <1>2 DEF RetuneInit, RetuneTypeOK, PinsInit, PinsTypeOK, TimTypeOK, Mode
<1>4. \A i \in Instance : Tuned(tim[i], asked[i], Reloaded(i), Done(i))
  BY <1>1 DEF Tuned
<1> QED
  BY <1>3, <1>4 DEF RetuneInit, RetuneInv, CallFollows

LEMMA PlainCallKeeps ==
  ASSUME RetuneInv, NEW i \in Instance,
         \/ Start(i) \/ Stop(i) \/ PeriodEnds(i)
         \/ \E f \in Frequency : Initialise(i, f)
         \/ \E c \in Channel, duty \in Duty : Claim(i, c, duty) \/ ChangeDuty(i, c, duty)
  PROVE  RetuneInv'
<1>1. /\ tim \in [Instance -> Timer] /\ asked \in [Instance -> {0} \cup Frequency]
      /\ moder \in [Pin -> Mode] /\ tim[i] \in Timer /\ Tuned(tim[i], asked[i], Reloaded(i), Done(i))
  BY DEF RetuneInv, RetuneTypeOK, TimTypeOK, PinsTypeOK
<1>2. asked = [asked EXCEPT ![i] = asked[i]] /\ asked[i] \in Frequency \cup {0}
  BY <1>1
<1>3. call = NoCall => (Reloaded(i) <=> TRUE) /\ Done(i) = Channel
  BY DEF Reloaded, Done, Working
<1>5. CASE Start(i)
  <2> DEFINE u == [tim[i] EXCEPT !.cen = TRUE]
  <2>1. tim' = [tim EXCEPT ![i] = u] /\ asked' = asked /\ call = NoCall /\ UNCHANGED <<moder, odr, call>>
    BY <1>5 DEF Start, Call, TimerStart
  <2>2. SameTuning(tim[i], u)
    BY <1>1, SameTimebase
  <2> HIDE DEF u
  <2>3. /\ Tuned(u, asked[i], Reloaded(i), Done(i))
        /\ u.configured = tim[i].configured /\ u.initialized = tim[i].initialized
    BY <1>1, <2>2 DEF Tuned, SameTuning
  <2> QED
    BY <1>1, <1>2, <2>1, <2>3, PlainCall
<1>6. CASE Stop(i)
  <2> DEFINE u == [tim[i] EXCEPT !.cen = FALSE]
  <2>1. tim' = [tim EXCEPT ![i] = u] /\ asked' = asked /\ call = NoCall /\ UNCHANGED <<moder, odr, call>>
    BY <1>6 DEF Stop, Call
  <2>2. SameTuning(tim[i], u)
    BY <1>1, SameTimebase
  <2> HIDE DEF u
  <2>3. /\ Tuned(u, asked[i], Reloaded(i), Done(i))
        /\ u.configured = tim[i].configured /\ u.initialized = tim[i].initialized
    BY <1>1, <2>2 DEF Tuned, SameTuning
  <2> QED
    BY <1>1, <1>2, <2>1, <2>3, PlainCall
<1>7. CASE PeriodEnds(i)
  <2> DEFINE u == [tim[i] EXCEPT !.shadow = Preload(tim[i])]
  <2>1. tim' = [tim EXCEPT ![i] = u] /\ asked' = asked /\ UNCHANGED <<moder, odr, call>>
    BY <1>1, <1>7 DEF PeriodEnds, UpdateEvent
  <2>2. SameTuning(tim[i], u)
    BY <1>1, SameTimebase
  <2> HIDE DEF u
  <2>3. /\ Tuned(u, asked[i], Reloaded(i), Done(i))
        /\ u.configured = tim[i].configured /\ u.initialized = tim[i].initialized
    BY <1>1, <2>2 DEF Tuned, SameTuning
  <2> QED
    BY <1>1, <1>2, <2>1, <2>3, PlainCall
<1>8. ASSUME NEW f \in Frequency, Initialise(i, f)
      PROVE  RetuneInv'
  <2> DEFINE u == TimerInit(tim[i], f)
  <2>1. /\ tim' = [tim EXCEPT ![i] = u] /\ asked' = [asked EXCEPT ![i] = f] /\ call = NoCall
        /\ UNCHANGED <<moder, odr, call>> /\ ~ tim[i].initialized /\ Reachable(f)
    BY <1>8 DEF Initialise, Call, InitStatus
  <2>2. Tuned(tim[i], asked[i], TRUE, Channel)
    BY <1>1, <1>3, <2>1
  <2>3. Tuned(u, f, TRUE, Channel)
    BY <2>1, <2>2, TunedInit
  <2>4. Tuned(u, f, Reloaded(i), Done(i))
    BY <1>3, <2>1, <2>3
  <2> HIDE DEF u
  <2>5. f \in Frequency \cup {0} /\ moder' \in [Pin -> Mode]
    BY <1>1, <2>1
  <2> QED
    BY <2>1, <2>4, <2>5, PlainCall
<1>9. ASSUME NEW c \in Channel, NEW duty \in Duty, Claim(i, c, duty)
      PROVE  RetuneInv'
  <2> DEFINE u == ChannelInit(tim[i], c, duty)
  <2>1. /\ tim' = [tim EXCEPT ![i] = u] /\ asked' = asked /\ call = NoCall
        /\ UNCHANGED <<odr, call>> /\ tim[i].initialized /\ GpioInit(PinOf[<<i, c>>], "AF")
    BY <1>9 DEF Claim, Call, ChannelInitStatus
  <2>2. Tuned(tim[i], asked[i], TRUE, Channel)
    BY <1>1, <1>3, <2>1
  <2>3. Tuned(u, asked[i], TRUE, Channel)
    BY <2>1, <2>2, TunedChannel
  <2>4. Tuned(u, asked[i], Reloaded(i), Done(i))
    BY <1>3, <2>1, <2>3
  <2> HIDE DEF u
  <2>5. moder' \in [Pin -> Mode]
    BY <1>1, <2>1 DEF GpioInit, Mode
  <2> QED
    BY <1>2, <2>1, <2>4, <2>5, PlainCall
<1>10. ASSUME NEW c \in Channel, NEW duty \in Duty, ChangeDuty(i, c, duty)
       PROVE  RetuneInv'
  <2> DEFINE u == SetDuty(tim[i], c, duty)
  <2>1. /\ tim' = [tim EXCEPT ![i] = u] /\ asked' = asked /\ call = NoCall
        /\ UNCHANGED <<moder, odr, call>> /\ c \in tim[i].configured
    BY <1>10 DEF ChangeDuty, Call, SetDutyStatus
  <2>2. Tuned(tim[i], asked[i], TRUE, Channel)
    BY <1>1, <1>3, <2>1
  <2>3. Tuned(u, asked[i], TRUE, Channel)
    BY <2>1, <2>2, TunedChannel
  <2>4. Tuned(u, asked[i], Reloaded(i), Done(i))
    BY <1>3, <2>1, <2>3
  <2> HIDE DEF u
  <2> QED
    BY <1>1, <1>2, <2>1, <2>4, PlainCall
<1> QED
  BY <1>5, <1>6, <1>7, <1>8, <1>9, <1>10

LEMMA SetFrequencyKeeps ==
  ASSUME RetuneInv, NEW i \in Instance, NEW f \in Frequency, SetFrequency(i, f)
  PROVE  RetuneInv'
<1> DEFINE t == tim[i]
           u == [t EXCEPT !.psc = Prescaler(f)]
           retune == [pc |-> "RELOAD", timer |-> i, f |-> f, todo |-> t.configured]
<1>1. /\ tim \in [Instance -> Timer] /\ asked \in [Instance -> {0} \cup Frequency]
      /\ moder \in [Pin -> Mode] /\ Tuned(t, asked[i], Reloaded(i), Done(i)) /\ t \in Timer
  BY DEF RetuneInv, RetuneTypeOK, TimTypeOK, PinsTypeOK
<1>2. /\ call = NoCall /\ call' = retune /\ tim' = [tim EXCEPT ![i] = u]
      /\ asked' = [asked EXCEPT ![i] = f] /\ UNCHANGED <<moder, odr>>
      /\ t.initialized /\ Reachable(f)
  BY DEF SetFrequency, SetFrequencyStatus
<1>3. Tuned(t, asked[i], TRUE, Channel)
  BY <1>1, <1>2 DEF Reloaded, Done, Working, Tuned
<1>4. Tuned(u, f, FALSE, {})
  BY <1>2, <1>3, TunedWrites
<1>5. u.initialized = t.initialized /\ u.configured = t.configured
  BY <1>1 DEF Timer
<1>6. retune \in [pc : {"RELOAD", "COMPARES"}, timer : Instance, f : Frequency, todo : SUBSET Channel]
  BY <1>1 DEF Timer
<1>7. retune # NoCall
  <2>1. retune.pc = "RELOAD"
    OBVIOUS
  <2> HIDE DEF retune
  <2> QED
    BY <2>1, NoCallNoPc
<1>8. retune.pc = "RELOAD" /\ retune.timer = i /\ retune.f = f /\ retune.todo = t.configured
  OBVIOUS
<1>9. tim'[i] = u /\ asked'[i] = f
  BY <1>1, <1>2
<1> HIDE DEF retune, u
<1>10. CallFollows'
  BY <1>2, <1>5, <1>7, <1>8, <1>9 DEF CallFollows
<1>11. \A j \in Instance : j # i => ~ Working(j) /\ ~ Working(j)'
  BY <1>2, <1>7, <1>8 DEF Working
<1>12. Tuned(u, f, Reloaded(i)', Done(i)')
  BY <1>2, <1>4, <1>7, <1>8 DEF Reloaded, Done, Working, Tuned
<1>13. f \in Frequency \cup {0} /\ moder' \in [Pin -> Mode] /\ UNCHANGED odr
  BY <1>1, <1>2
<1>14. (call \in {NoCall} \cup
         [pc : {"RELOAD", "COMPARES"}, timer : Instance, f : Frequency, todo : SUBSET Channel])'
  BY <1>2, <1>6
<1> QED
  BY <1>2, <1>10, <1>11, <1>12, <1>13, <1>14, OneTimer

(* The steps of a retune under way.                                        *)
LEMMA RetuneStepKeeps ==
  ASSUME RetuneInv, WriteReload \/ Finish \/ \E c \in Channel : WriteCompare(c)
  PROVE  RetuneInv'
<1>0. call # NoCall
  BY NoCallNoPc DEF WriteReload, Finish, WriteCompare
<1>1. PICK i \in Instance : i = call.timer
  BY <1>0, CallIs
<1>2. PICK f \in Frequency : f = call.f
  BY <1>0, CallIs
<1> DEFINE t == tim[i]
           Retunes == [pc : {"RELOAD", "COMPARES"}, timer : Instance, f : Frequency, todo : SUBSET Channel]
<1>3. /\ tim \in [Instance -> Timer] /\ asked \in [Instance -> {0} \cup Frequency]
      /\ moder \in [Pin -> Mode] /\ Tuned(t, f, Reloaded(i), Done(i)) /\ t \in Timer
      /\ call \in Retunes /\ t.initialized /\ asked[i] = f /\ Reachable(f) /\ Working(i)
      /\ \A j \in Instance : j # i => ~ Working(j)
      /\ call.pc = "RELOAD" => call.todo = t.configured
  BY <1>0, <1>1, <1>2, CallIs DEF RetuneInv, RetuneTypeOK, TimTypeOK, PinsTypeOK, CallFollows
<1>4. asked = [asked EXCEPT ![i] = f] /\ f \in Frequency \cup {0}
  BY <1>3
<1>5. ASSUME NEW u, NEW call1, call' = call1, tim' = [tim EXCEPT ![i] = u], asked' = asked,
             UNCHANGED <<moder, odr>>, u.initialized = t.initialized,
             \/ call1 = NoCall /\ Tuned(u, f, TRUE, Channel)
             \/ /\ call1 \in Retunes /\ call1.pc = "COMPARES" /\ call1.timer = i /\ call1.f = f
                /\ Tuned(u, f, TRUE, Channel \ call1.todo)
      PROVE  RetuneInv'
  <2>1. call1 \in Retunes => call1 # NoCall
    BY NoCallNoPc
  <2>2. call1 \in {NoCall} \cup Retunes /\ moder' \in [Pin -> Mode]
    BY <1>3, <1>5
  <2>3. tim'[i] = u /\ asked'[i] = f
    BY <1>3, <1>5
  <2>4. CallFollows'
    BY <1>3, <1>5, <2>1, <2>3 DEF CallFollows
  <2>5. \A j \in Instance : j # i => ~ Working(j) /\ ~ Working(j)'
    BY <1>3, <1>5 DEF Working
  <2>6. Tuned(u, f, Reloaded(i)', Done(i)')
    <3>1. CASE call1 = NoCall /\ Tuned(u, f, TRUE, Channel)
      BY <1>5, <3>1 DEF Reloaded, Done, Working, Tuned
    <3>2. CASE /\ call1 \in Retunes /\ call1.pc = "COMPARES" /\ call1.timer = i /\ call1.f = f
               /\ Tuned(u, f, TRUE, Channel \ call1.todo)
      <4>1. Done(i)' = Channel \ call1.todo /\ Reloaded(i)'
        BY <1>5, <2>1, <3>2 DEF Reloaded, Done, Working
      <4> QED
        BY <3>2, <4>1 DEF Tuned
    <3> QED
      BY <1>5, <3>1, <3>2
  <2> QED
    BY <1>4, <1>5, <2>2, <2>4, <2>5, <2>6, OneTimer
<1>6. CASE WriteReload
  <2> DEFINE u == [t EXCEPT !.arr = Reload(f)]
             call1 == [call EXCEPT !.pc = "COMPARES"]
  <2>1. /\ call.pc = "RELOAD" /\ call' = call1 /\ tim' = [tim EXCEPT ![i] = u] /\ asked' = asked
        /\ UNCHANGED <<moder, odr>>
    BY <1>1, <1>2, <1>6 DEF WriteReload
  <2>2. call1 \in Retunes /\ call1.pc = "COMPARES" /\ call1.timer = i /\ call1.f = f /\ call1.todo = t.configured
    BY <1>1, <1>2, <1>3, <2>1
  <2>3. u.initialized = t.initialized
    BY <1>3 DEF Timer
  <2>4. Tuned(t, f, FALSE, {})
    BY <1>3, <2>1 DEF Done, Tuned
  <2>5. Tuned(u, f, TRUE, Channel \ t.configured)
    BY <1>3, <2>4, TunedWrites
  <2> HIDE DEF u, call1
  <2> QED
    BY <1>5, <2>1, <2>2, <2>3, <2>5
<1>7. CASE Finish
  <2> DEFINE u == LoadShadowIfStopped(t)
  <2>1. /\ call.pc = "COMPARES" /\ call.todo = {} /\ call' = NoCall /\ tim' = [tim EXCEPT ![i] = u]
        /\ asked' = asked /\ UNCHANGED <<moder, odr>>
    BY <1>1, <1>3, <1>7 DEF Finish
  <2>2. Tuned(t, f, TRUE, Channel)
    BY <1>3, <2>1 DEF Done, Reloaded, Tuned
  <2>3. Tuned(u, f, TRUE, Channel)
    BY <2>2, TunedLoad
  <2>4. u.initialized = t.initialized
    BY <1>3, SameTimebase DEF SameTuning
  <2> HIDE DEF u
  <2> QED
    BY <1>5, <2>1, <2>3, <2>4
<1>8. ASSUME NEW c \in Channel, WriteCompare(c)
      PROVE  RetuneInv'
  <2> DEFINE u == [t EXCEPT !.ccr[c] = NewCompare(t, c)]
             call1 == [call EXCEPT !.todo = @ \ {c}]
  <2>1. /\ call.pc = "COMPARES" /\ call' = call1 /\ tim' = [tim EXCEPT ![i] = u]
        /\ asked' = asked /\ UNCHANGED <<moder, odr>>
    BY <1>1, <1>3, <1>8 DEF WriteCompare
  <2>2. /\ call.todo \in SUBSET Channel
        /\ call1 \in Retunes /\ call1.pc = "COMPARES" /\ call1.timer = i /\ call1.f = f
        /\ call1.todo = call.todo \ {c}
    BY <1>1, <1>2, <1>3, <2>1
  <2>3. Tuned(t, f, TRUE, Channel \ call.todo)
    BY <1>3, <2>1 DEF Done, Reloaded, Tuned
  <2>4. Tuned(u, f, TRUE, Channel \ (call.todo \ {c}))
    BY <1>3, <2>2, <2>3, TunedWrites
  <2>5. u.initialized = t.initialized
    BY <1>3 DEF Timer
  <2> HIDE DEF u, call1
  <2> QED
    BY <1>5, <2>1, <2>2, <2>4, <2>5
<1> QED
  BY <1>6, <1>7, <1>8

LEMMA RetuneInvariance == RetuneSpec => []RetuneInv
<1>1. ASSUME RetuneInv, UNCHANGED retuneVars
      PROVE  RetuneInv'
  BY <1>1 DEF retuneVars, RetuneInv, RetuneTypeOK, PinsTypeOK, TimTypeOK, CallFollows, Tuned, Reloaded,
              Done, Working
<1>2. RetuneInv /\ [RetuneNext]_retuneVars => RetuneInv'
  BY <1>1, PlainCallKeeps, SetFrequencyKeeps, RetuneStepKeeps DEF RetuneNext
<1> QED
  BY <1>2, RetuneInitInv, PTL DEF RetuneSpec
-----------------------------------------------------------------------------
(* A quotient is at least what the divisor goes into the dividend.         *)
LEMMA QuotientAtLeast ==
  ASSUME NEW a \in Nat, NEW b \in Nat \ {0}, NEW c \in Nat, c * b <= a
  PROVE  a \div b >= c
<1>1. a \div b \in Nat /\ a - (a \div b) * b \in 0 .. b - 1
  BY Quotient
<1> DEFINE q == a \div b
<1> HIDE DEF q
<1>2. q \in Nat /\ a - q * b \in 0 .. b - 1
  BY <1>1 DEF q
<1>3. q >= c
  <2> SUFFICES ASSUME q + 1 <= c PROVE FALSE
    BY <1>2
  <2>1. (q + 1) * b <= c * b
    BY <1>2, ProductMonotone, Z3
  <2>2. (q + 1) * b = q * b + b
    BY <1>2, Z3
  <2>3. q * b \in Nat /\ c * b \in Nat /\ (q + 1) * b \in Nat
    BY <1>2
  <2> QED
    BY <1>2, <2>1, <2>2, <2>3
<1> QED
  BY <1>3 DEF q

(* What timer_compute_timebase makes of a frequency it accepts.            *)
LEMMA TimebaseBest ==
  ASSUME NEW f \in Frequency, Reachable(f)
  PROVE  LET period == (Prescaler(f) + 1) * (Reload(f) + 1)
         IN  /\ Ticks(f) - period \in 0 .. Prescaler(f)
             /\ Prescaler(f) > 0 => Prescaler(f) * (ReloadMax + 1) < Ticks(f)
             /\ ClkHz \div period >= f
<1> DEFINE T == Ticks(f)
           P == Prescaler(f)
           R == Reload(f)
           Q == R + 1
           W == ReloadMax + 1
<1>1. f \in Nat \ {0} /\ ClkHz \in Nat /\ W \in Nat \ {0}
  BY TimerAssumption DEF Frequency
<1>2. T \in Nat /\ T * f <= ClkHz /\ T >= 2
  BY <1>1, Quotient DEF Ticks, Reachable
<1>3. P \in Nat /\ P * W <= T - 1
  <2>1. T - 1 \in Nat
    BY <1>2
  <2> HIDE DEF T, W
  <2> QED
    BY <1>1, <2>1, Quotient DEF Prescaler, T, W
<1>4. R \in 1 .. ReloadMax
  BY DEF Reachable
<1>5. Q \in Nat \ {0} /\ Q = T \div (P + 1)
  <2>1. R = (T \div (P + 1)) - 1
    BY DEF Reload
  <2>2. T \div (P + 1) \in Nat
    <3> DEFINE D == P + 1
    <3> HIDE DEF T, P
    <3>1. D \in Nat \ {0}
      BY <1>3
    <3> HIDE DEF D
    <3>2. T \div D \in Nat
      BY <1>2, <3>1, Quotient
    <3> QED
      BY <3>2 DEF D
  <2> HIDE DEF T, P, R
  <2> QED
    BY <1>4, <2>1, <2>2, TimerAssumption
<1> HIDE DEF T, P, R, Q, W
<1>6. Q * (P + 1) <= T /\ T - Q * (P + 1) \in 0 .. P
  <2> DEFINE D == P + 1
  <2>1. D \in Nat \ {0} /\ 0 .. D - 1 = 0 .. P
    BY <1>3
  <2>2. Q = T \div D
    BY <1>5
  <2> HIDE DEF D
  <2>3. Q * D <= T /\ T - Q * D \in 0 .. D - 1
    BY <1>2, <2>1, <2>2, Quotient
  <2> QED
    BY <2>1, <2>3 DEF D
<1>7. (P + 1) * Q = Q * (P + 1) /\ (P + 1) * Q \in Nat \ {0}
  BY <1>3, <1>5, Z3
<1> DEFINE period == (P + 1) * Q
<1>8. T - period \in 0 .. P
  BY <1>6, <1>7
<1>9. f * period <= ClkHz
  <2>1. period \in Nat \ {0} /\ period <= T
    BY <1>6, <1>7
  <2> HIDE DEF period
  <2>2. f * period <= f * T
    BY <1>1, <1>2, <2>1, ProductMonotone
  <2>3. f * T = T * f /\ f * T \in Nat /\ f * period \in Nat
    BY <1>1, <1>2, <2>1, Z3
  <2> QED
    BY <1>1, <1>2, <2>2, <2>3
<1>10. ClkHz \div period >= f
  <2> HIDE DEF period
  <2> QED
    BY <1>1, <1>7, <1>9, QuotientAtLeast DEF period
<1>11. P * W < T
  <2>1. P * W \in Nat
    BY <1>1, <1>3
  <2> QED
    BY <1>2, <1>3, <2>1
<1> QED
  BY <1>8, <1>10, <1>11 DEF T, P, R, Q, W

(* Every register, and the call under way, keeps its type.                 *)
THEOREM RetuneTypeCorrect == RetuneSpec => []RetuneTypeOK
<1>1. RetuneInv => RetuneTypeOK
  BY DEF RetuneInv
<1> QED
  BY <1>1, RetuneInvariance, PTL

(* A timer at rest has the best time base there is for the frequency last  *)
(* asked for, whatever clock and register widths.                          *)
THEOREM TimebaseAlwaysBest == RetuneSpec => []TimebaseIsBest
<1>1. RetuneInv => TimebaseIsBest
  <2> SUFFICES ASSUME RetuneInv, NEW i \in Instance, AtRest(i)
               PROVE  LET psc == tim[i].psc
                          period == (psc + 1) * (tim[i].arr + 1)
                      IN  /\ Ticks(asked[i]) - period \in 0 .. psc
                          /\ psc > 0 => psc * (ReloadMax + 1) < Ticks(asked[i])
                          /\ GetFrequency(i) >= asked[i]
    BY DEF TimebaseIsBest
  <2>1. /\ asked[i] \in Frequency /\ Reachable(asked[i])
        /\ tim[i].psc = Prescaler(asked[i]) /\ tim[i].arr = Reload(asked[i])
    BY DEF RetuneInv, Tuned, AtRest, Reloaded, Working
  <2> QED
    BY <2>1, TimebaseBest DEF GetFrequency
<1> QED
  BY <1>1, RetuneInvariance, PTL

(* A period that ends between calls is followed by one whose time base and *)
(* compare values belong together and give the remembered duties.          *)
THEOREM MixLastsOnePeriodOnly == RetuneSpec => MixLastsOnePeriod
<1> DEFINE Mix == \A i \in Instance :
       AtRest(i) /\ PeriodEnds(i) =>
         /\ Whole(i, tim'[i].shadow)
         /\ \A c \in tim[i].configured :
              tim'[i].shadow.ccr[c] = DutyToCompare(tim'[i].shadow.arr, tim[i].duty[c])
<1>1. RetuneInv => Mix
  <2> SUFFICES ASSUME RetuneInv, NEW i \in Instance, AtRest(i), PeriodEnds(i)
               PROVE  /\ Whole(i, tim'[i].shadow)
                      /\ \A c \in tim[i].configured :
                           tim'[i].shadow.ccr[c] = DutyToCompare(tim'[i].shadow.arr, tim[i].duty[c])
    OBVIOUS
  <2> DEFINE t == tim[i]
             s == tim'[i].shadow
  <2>1. tim \in [Instance -> Timer] /\ t \in Timer /\ Tuned(t, asked[i], Reloaded(i), Done(i))
    BY DEF RetuneInv, RetuneTypeOK, TimTypeOK
  <2>2. tim' = [tim EXCEPT ![i] = [t EXCEPT !.shadow = Preload(t)]]
    BY <2>1 DEF PeriodEnds, UpdateEvent
  <2>3. s = Preload(t)
    BY <2>1, <2>2 DEF Timer
  <2>4. s.psc = t.psc /\ s.arr = t.arr /\ s.ccr = t.ccr
    BY <2>3 DEF Preload
  <2>5. /\ asked[i] \in Frequency /\ Reachable(asked[i])
        /\ t.psc = Prescaler(asked[i]) /\ t.arr = Reload(asked[i])
        /\ \A c \in t.configured : t.ccr[c] = DutyToCompare(t.arr, t.duty[c]) /\ t.duty[c] \in Duty
    BY <2>1 DEF Tuned, AtRest, Reloaded, Done, Working, Timer
  <2> HIDE DEF s
  <2>6. Whole(i, s)
    BY <2>4, <2>5 DEF Whole
  <2>7. \A c \in t.configured : s.ccr[c] = DutyToCompare(s.arr, t.duty[c])
    BY <2>4, <2>5
  <2> QED
    BY <2>6, <2>7 DEF s
<1> QED
  BY <1>1, RetuneInvariance, PTL DEF RetuneSpec, MixLastsOnePeriod
=============================================================================
