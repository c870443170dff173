------------------------------ MODULE SysTick -------------------------------
(***************************************************************************)
(* The millisecond counter of peripherals/systick.c and the busy wait on   *)
(* it.  Real time is cut finer than the tick, so that a call can come      *)
(* anywhere in one; the counter wraps after Modulus ticks.                 *)
(***************************************************************************)
EXTENDS Integers

CONSTANTS Modulus,   \* of the counter, 2 ^ 32
          Sub,       \* instants in a tick
          Delay      \* the arguments of delay_ms

ASSUME SysTickAssumption ==
  /\ Modulus \in Nat \ {0} /\ Sub \in Nat \ {0}
  /\ Delay \subseteq 0 .. Modulus - 1

VARIABLES phase,       \* how far the current tick is
          systick_ms,
          call,        \* the wait under way or just over
          elapsed      \* history: the instants it has taken

tickVars == <<phase, systick_ms, call, elapsed>>

NoCall == [pc |-> "NONE"]

TickTypeOK ==
  /\ phase \in 0 .. Sub - 1
  /\ systick_ms \in 0 .. Modulus - 1
  /\ call \in {NoCall} \cup [pc : {"SPINS", "RETURNED"}, ms : Delay, start : 0 .. Modulus - 1]
  /\ elapsed \in 0 .. Modulus * Sub

TickInit == phase = 0 /\ systick_ms = 0 /\ call = NoCall /\ elapsed = 0

(* delay_ms takes the counter, then compares an unsigned difference.       *)
Begin(ms) ==
  /\ call.pc # "SPINS"
  /\ call' = [pc |-> "SPINS", ms |-> ms, start |-> systick_ms]
  /\ elapsed' = 0
  /\ UNCHANGED <<phase, systick_ms>>

OverByDeadline == systick_ms >= (call.start + call.ms) % Modulus
Over == (systick_ms - call.start) % Modulus >= call.ms

Return ==
  /\ call.pc = "SPINS" /\ Over
  /\ call' = [call EXCEPT !.pc = "RETURNED"]
  /\ UNCHANGED <<phase, systick_ms, elapsed>>

SysTick_Handler == systick_ms' = (systick_ms + 1) % Modulus

(* Time goes on, with a tick at the end of each period.  The wait looks at *)
(* the counter more often than that: it is over before time moves.  The    *)
(* history stops at its bound.                                             *)
TimePasses ==
  /\ ~ (call.pc = "SPINS" /\ Over)
  /\ phase' = (phase + 1) % Sub
  /\ IF phase' = 0 THEN SysTick_Handler ELSE UNCHANGED systick_ms
  /\ elapsed' = IF call.pc = "SPINS" /\ elapsed < Modulus * Sub THEN elapsed + 1 ELSE elapsed
  /\ UNCHANGED call

TickNext == (\E ms \in Delay : Begin(ms)) \/ Return \/ TimePasses

TickSpec == TickInit /\ [][TickNext]_tickVars
-----------------------------------------------------------------------------
(* A wait is right to within the tick it began in, across the wrap too.    *)
DelayLasts ==
  call.pc = "RETURNED" =>
    (call.ms - 1) * Sub < elapsed /\ elapsed <= call.ms * Sub

(* systick.h 29: delay_ms blocks "for at least @p ms milliseconds" and may *)
(* return "up to one tick late".  The first tick it counts may be almost   *)
(* over when it begins: it returns up to one tick early.                   *)
DelayIsMinimum == call.pc = "RETURNED" => elapsed >= call.ms * Sub
=============================================================================
