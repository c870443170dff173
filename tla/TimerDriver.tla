----------------------------- MODULE TimerDriver -----------------------------
(***************************************************************************)
(* The PWM timer driver (peripherals/timer.c).  A timer is one record: the *)
(* driver's own bookkeeping (initialized, configured, duty), the preload   *)
(* registers a program writes (cen, psc, arr, ccr, ccer) and the shadow    *)
(* registers the counter really uses, which follow the preload ones at an  *)
(* update event.  The driver's calls are functions from a timer to a timer *)
(* and, for those that touch pins, actions on moder.                       *)
(*                                                                         *)
(* Output polarity and the AF number of a pin are data and left out.  The  *)
(* errors for a clock that was never configured are left out as well: the  *)
(* program does not reach its command loop unless rcc_init succeeded.      *)
(***************************************************************************)
EXTENDS GpioPins

CONSTANTS Instance, Channel,
          PinOf,            \* timer_pins: the pin of each channel of each timer
          ClkHz,            \* the timer kernel clock
          FreqMin, FreqMax, \* TIMER_FREQ_MIN_HZ and TIMER_FREQ_MAX_HZ
          PrescalerMax,     \* TIMER_PRESCALER_MAX
          ReloadMax,        \* TIMER_RELOAD_MAX
          DutyMax           \* TIMER_DUTY_MAX, the duty that means always on

ASSUME TimerAssumption ==
  /\ PinOf \in [Instance \X Channel -> Pin \ BootAf]
  /\ \A x, y \in Instance \X Channel : PinOf[x] = PinOf[y] => x = y
  /\ ClkHz \in Nat \ {0}
  /\ FreqMin \in Nat \ {0}
  /\ FreqMax \in Nat
  /\ PrescalerMax \in Nat
  /\ ReloadMax \in Nat \ {0}
  /\ DutyMax \in Nat \ {0}

VARIABLE tim   \* the timers

Frequency == FreqMin .. FreqMax
Duty == 0 .. DutyMax

(* The values of PSC, ARR and CCR; a compare one above the reload is how   *)
(* the hardware says always on.                                            *)
Divider == 0 .. PrescalerMax
Period == 0 .. ReloadMax
Compare == 0 .. ReloadMax + 1

Registers == [psc : Divider, arr : Period, ccr : [Channel -> Compare]]

Timer == [initialized : BOOLEAN, cen : BOOLEAN,
          configured : SUBSET Channel, ccer : SUBSET Channel,
          duty : [Channel -> Duty],
          psc : Divider, arr : Period, ccr : [Channel -> Compare],
          shadow : Registers]

TimTypeOK == tim \in [Instance -> Timer]

Preload(t) == [psc |-> t.psc, arr |-> t.arr, ccr |-> t.ccr]

AllZero == [c \in Channel |-> 0]
ResetRegisters == [psc |-> 0, arr |-> ReloadMax, ccr |-> AllZero]

TimInit ==
  tim = [i \in Instance |->
          [initialized |-> FALSE, cen |-> FALSE, configured |-> {}, ccer |-> {},
           duty |-> AllZero, psc |-> 0, arr |-> ReloadMax, ccr |-> AllZero,
           shadow |-> ResetRegisters]]

-----------------------------------------------------------------------------
(* timer_compute_timebase.  Total ticks per period, smallest prescaler     *)
(* that brings them within the reload register, reload to match.           *)
Ticks(f) == ClkHz \div f
PrescalerRoundsUp(f) == Ticks(f) \div (ReloadMax + 1)
Prescaler(f) == (Ticks(f) - 1) \div (ReloadMax + 1)
Reload(f) == (Ticks(f) \div (Prescaler(f) + 1)) - 1
ReachableFromOneTick(f) ==
  /\ Prescaler(f) <= PrescalerMax
  /\ Reload(f) \in 0 .. ReloadMax
Reachable(f) ==
  /\ Ticks(f) >= 2
  /\ Prescaler(f) <= PrescalerMax
  /\ Reload(f) \in 1 .. ReloadMax

DutyToCompareNoFull(arr, duty) == ((arr + 1) * duty) \div (DutyMax + 1)
DutyToCompare(arr, duty) ==
  IF duty >= DutyMax THEN arr + 1 ELSE ((arr + 1) * duty) \div DutyMax

(* A running counter takes the preload values over by itself.              *)
LoadShadowIfStopped(t) == IF t.cen THEN t ELSE [t EXCEPT !.shadow = Preload(t)]

InitStatusRetunes(i, f) ==
  IF f \notin Frequency THEN "INVALID_ARG"
  ELSE IF ~ Reachable(f) THEN "INVALID_ARG"
  ELSE "OK"

InitStatus(i, f) ==
  IF f \notin Frequency THEN "INVALID_ARG"
  ELSE IF tim[i].initialized THEN "BUSY"
  ELSE IF ~ Reachable(f) THEN "INVALID_ARG"
  ELSE "OK"

TimerInitNoUpdate(t, f) ==
  [t EXCEPT !.initialized = TRUE, !.cen = FALSE, !.ccer = {},
            !.psc = Prescaler(f), !.arr = Reload(f)]
TimerInit(t, f) ==
  LoadShadowIfStopped([t EXCEPT !.initialized = TRUE, !.cen = FALSE, !.ccer = {},
                                !.psc = Prescaler(f), !.arr = Reload(f)])

TimerStartForgotten(t) == t
TimerStart(t) == [t EXCEPT !.cen = TRUE]

(* One channel let go.  Its compare preload is switched off before the     *)
(* compare register is cleared, so the shadow is cleared with it.          *)
ReleaseChannelsKeepsCompare(t, C) ==
  [t EXCEPT !.ccer = @ \ C, !.configured = @ \ C,
            !.duty = [c \in Channel |-> IF c \in C THEN 0 ELSE @[c]]]

ReleaseChannels(t, C) ==
  [t EXCEPT !.ccer = @ \ C, !.configured = @ \ C,
            !.ccr = [c \in Channel |-> IF c \in C THEN 0 ELSE @[c]],
            !.duty = [c \in Channel |-> IF c \in C THEN 0 ELSE @[c]],
            !.shadow.ccr = [c \in Channel |-> IF c \in C THEN 0 ELSE @[c]]]

(* timer_deinit: every configured channel first, then the counter.  CR1 is *)
(* cleared, ARPE with it, so the reset reload goes straight to the shadow. *)
TimerDeinit(t) ==
  [ReleaseChannels(t, t.configured) EXCEPT
     !.initialized = FALSE, !.cen = FALSE, !.ccer = {},
     !.psc = 0, !.arr = ReloadMax, !.shadow.arr = ReloadMax]

(* The pins the released channels give back.                               *)
ReleasePinsKept(i, C) == UNCHANGED moder
ReleasePins(i, C) == GpioDeinit({PinOf[<<i, c>>] : c \in C})

(* The only pin mode that counts as free is the analog one of reset.       *)
ChannelInitStatusAnyInput(i, c) ==
  LET p == PinOf[<<i, c>>] IN
  IF ~ tim[i].initialized THEN "NOT_INIT"
  ELSE IF c \in tim[i].configured THEN "BUSY"
  ELSE IF IsPinAnOutput(p) \/ IsPinAnAf(p) THEN "BUSY"
  ELSE "OK"

ChannelInitStatus(i, c) ==
  LET p == PinOf[<<i, c>>] IN
  IF ~ tim[i].initialized THEN "NOT_INIT"
  ELSE IF c \in tim[i].configured THEN "BUSY"
  ELSE IF IsPinAnInput(p) \/ IsPinAnOutput(p) \/ IsPinAnAf(p) THEN "BUSY"
  ELSE "OK"

(* timer_pwm_channel_init at the duty the command layer passes.            *)
ChannelInit(t, c, duty) ==
  LoadShadowIfStopped(
    [t EXCEPT !.configured = @ \cup {c}, !.ccer = @ \cup {c},
              !.ccr[c] = DutyToCompare(t.arr, duty), !.duty[c] = duty])

SetDutyStatus(i, c, duty) ==
  IF duty > DutyMax THEN "INVALID_ARG"
  ELSE IF c \notin tim[i].configured THEN "NOT_INIT"
  ELSE "OK"

SetDuty(t, c, duty) ==
  LoadShadowIfStopped([t EXCEPT !.ccr[c] = DutyToCompare(t.arr, duty),
                                !.duty[c] = duty])

(* Hardware: the update event at the end of a period.  A zero reload       *)
(* blocks the counter (RM0440, as timer.c quotes it).                      *)
UpdateEvent(i) ==
  /\ tim[i].cen
  /\ tim[i].shadow.arr # 0
  /\ tim' = [tim EXCEPT ![i].shadow = Preload(tim[i])]
=============================================================================
