------------------------------ MODULE Platform ------------------------------
(***************************************************************************)
(* What the controllers run on: the clocks main brings up (Boot), then the *)
(* millisecond tick systick_init starts from them and the waits on it      *)
(* (SysTick).  The tick goes on while main starts the UARTs; delay_ms is   *)
(* called from the main loop.                                              *)
(***************************************************************************)
EXTENDS Boot, SysTick

platformVars == <<vars, tickVars>>

BootSteps(A) == A /\ UNCHANGED tickVars
TickSteps(A) == A /\ UNCHANGED vars

Counts == reload # 0 /\ TimePasses
Waits == pc = "RUNS" /\ ((\E ms \in Delay : Begin(ms)) \/ Return)

PlatformInit == Init /\ TickInit

PlatformNext ==
  \/ BootSteps(Main) \/ BootSteps(Hardware)
  \/ TickSteps(Counts) \/ TickSteps(Waits)

(* main goes on, whatever the hardware does.                               *)
PlatformSpec ==
  /\ PlatformInit /\ [][PlatformNext]_platformVars
  /\ WF_platformVars(BootSteps(Main))
=============================================================================
