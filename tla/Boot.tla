-------------------------------- MODULE Boot --------------------------------
(***************************************************************************)
(* From reset to the main loop: rcc_init (peripherals/rcc.c), systick_init *)
(* and the two UARTs, as main (src/main.c) calls them.  The steps of       *)
(* rcc_init are the writes the hardware answers to; regulator, HSI16, PLL  *)
(* and clock switch answer in their own time or not at all.  Frequencies   *)
(* are in kHz.                                                             *)
(***************************************************************************)
EXTENDS Integers, Sequences

CONSTANT ReadyTimeout    \* RCC_READY_TIMEOUT and UART_READY_TIMEOUT, in polls

ASSUME BootAssumption == ReadyTimeout \in Nat

VARIABLES pc,            \* the step main is at
          retries,       \* polls left in the wait under way
          vosf, boost,   \* PWR: voltage moving, Range 1 boost
          latency,       \* FLASH wait states
          hsirdy,
          pll,           \* the PLL itself
          pllcfgr,       \* its divisors
          sw, sws,       \* clock asked for, clock in use
          hpre,          \* AHB divisor
          rcc_sysclk,    \* rcc_sysclk_hz
          reload,        \* of SysTick, 0 when it is off
          uarts          \* the UARTs that are up

hwVars == <<vosf, boost, latency, hsirdy, pll, pllcfgr, sw, sws, hpre>>
softVars == <<rcc_sysclk, reload, uarts>>
vars == <<pc, retries, hwVars, softVars>>

HsiKHz == 16000
PllAtReset == [m |-> 1, n |-> 16, r |-> 2]
Pll170 == [m |-> 4, n |-> 85, r |-> 2]
PllKHz(c) == ((HsiKHz \div c.m) * c.n) \div c.r

Sysclk == IF sws = "PLL" THEN PllKHz(pllcfgr) ELSE HsiKHz
Hclk == Sysclk \div hpre

OrderFlashLast ==
  <<"VOS", "BOOST", "HSION", "HSIRDY", "PLLOFF", "PLLSTOP", "PLLON", "PLLRDY",
    "DIV2", "SWITCH", "SWS", "DIV1", "FLASH", "SYSTICK", "LOGGER", "TRANSPORT", "RUNS">>
Order ==
  <<"VOS", "BOOST", "FLASH", "HSION", "HSIRDY", "PLLOFF", "PLLSTOP", "PLLON", "PLLRDY",
    "DIV2", "SWITCH", "SWS", "DIV1", "SYSTICK", "LOGGER", "TRANSPORT", "RUNS">>

Following(step) == Order[1 + CHOOSE i \in 1 .. Len(Order) : Order[i] = step]

TypeOK ==
  /\ pc \in {Order[i] : i \in 1 .. Len(Order)} \cup {"HALTED"}
  /\ retries \in 0 .. ReadyTimeout
  /\ {vosf, boost, hsirdy} \subseteq BOOLEAN
  /\ latency \in {0, 4}
  /\ pll \in {"OFF", "STARTS", "LOCKED", "STOPS"} /\ pllcfgr \in {PllAtReset, Pll170}
  /\ {sw, sws} \subseteq {"HSI", "PLL"} /\ hpre \in {1, 2}
  /\ {rcc_sysclk, reload} \subseteq {0, PllKHz(Pll170)}
  /\ uarts \subseteq {"LOGGER", "TRANSPORT"}

(* Reset: on HSI16 without boost or wait states.  The PLL may have been    *)
(* left running by what came before main.                                  *)
Init ==
  /\ pc = "VOS" /\ retries = ReadyTimeout
  /\ vosf = FALSE /\ boost = FALSE /\ latency = 0 /\ hsirdy = TRUE
  /\ pll \in {"OFF", "LOCKED"} /\ pllcfgr = PllAtReset
  /\ sw = "HSI" /\ sws = "HSI" /\ hpre = 1
  /\ rcc_sysclk = 0 /\ reload = 0 /\ uarts = {}
-----------------------------------------------------------------------------
(* The ways a step ends: on to the next, or for(;;).                       *)
Continue == pc' = Following(pc) /\ retries' = ReadyTimeout
Halt == pc' = "HALTED" /\ UNCHANGED retries
OnTimeout == Halt

RetryForEver == UNCHANGED <<pc, retries>>
Retry == pc' = pc /\ retries' = retries - 1

OutOfRetries == retries = 0

(* rcc_wait_value.                                                         *)
Await(step, ready) ==
  /\ pc = step
  /\ IF ready THEN Continue ELSE IF OutOfRetries THEN OnTimeout ELSE Retry

(* rcc_enable_boost.                                                       *)
SelectRange ==
  /\ pc = "VOS" /\ Continue
  /\ vosf' \in BOOLEAN
  /\ UNCHANGED <<boost, latency, hsirdy, pll, pllcfgr, sw, sws, hpre, softVars>>

EnableBoost ==
  /\ Await("BOOST", ~ vosf)
  /\ boost' = (boost \/ ~ vosf)
  /\ UNCHANGED <<vosf, latency, hsirdy, pll, pllcfgr, sw, sws, hpre, softVars>>

(* rcc_configure_flash reads the latency back.                             *)
ConfigureFlash ==
  /\ pc = "FLASH"
  /\ \/ latency' = 4 /\ Continue
     \/ UNCHANGED latency /\ OnTimeout
  /\ UNCHANGED <<vosf, boost, hsirdy, pll, pllcfgr, sw, sws, hpre, softVars>>

(* rcc_start_pll.                                                          *)
HsiOn ==
  /\ pc = "HSION" /\ Continue
  /\ UNCHANGED <<hwVars, softVars>>

HsiReady == Await("HSIRDY", hsirdy) /\ UNCHANGED <<hwVars, softVars>>

PllOff ==
  /\ pc = "PLLOFF" /\ Continue
  /\ pll' = IF pll = "OFF" THEN "OFF" ELSE "STOPS"
  /\ UNCHANGED <<vosf, boost, latency, hsirdy, pllcfgr, sw, sws, hpre, softVars>>

PllStopped == pll = "OFF"

PllIsOff == Await("PLLSTOP", PllStopped) /\ UNCHANGED <<hwVars, softVars>>

PllOn ==
  /\ pc = "PLLON" /\ Continue
  /\ pllcfgr' = Pll170
  /\ pll' = "STARTS"
  /\ UNCHANGED <<vosf, boost, latency, hsirdy, sw, sws, hpre, softVars>>

PllReady == Await("PLLRDY", pll = "LOCKED") /\ UNCHANGED <<hwVars, softVars>>

(* rcc_switch_to_pll: AHB at half speed across the switch.                 *)
SwitchPrescaler == 2

HalveAhb ==
  /\ pc = "DIV2" /\ Continue
  /\ hpre' = SwitchPrescaler
  /\ UNCHANGED <<vosf, boost, latency, hsirdy, pll, pllcfgr, sw, sws, softVars>>

SelectPll ==
  /\ pc = "SWITCH" /\ Continue
  /\ sw' = "PLL"
  /\ UNCHANGED <<vosf, boost, latency, hsirdy, pll, pllcfgr, sws, hpre, softVars>>

SwitchedUnseen == TRUE
Switched == sws = "PLL"

PllInUse == Await("SWS", Switched) /\ UNCHANGED <<hwVars, softVars>>

FullSpeed ==
  /\ pc = "DIV1" /\ Continue
  /\ hpre' = 1 /\ rcc_sysclk' = PllKHz(Pll170)
  /\ UNCHANGED <<vosf, boost, latency, hsirdy, pll, pllcfgr, sw, sws, reload, uarts>>

(* systick_init refuses a clock rcc_init has not vouched for.              *)
SystickInit ==
  /\ pc = "SYSTICK"
  /\ IF rcc_sysclk = 0 THEN Halt /\ UNCHANGED reload
                       ELSE Continue /\ reload' = rcc_sysclk
  /\ UNCHANGED <<hwVars, rcc_sysclk, uarts>>

(* logger_init and command_transport_init, each an uart_init that may not  *)
(* get its acknowledge in time.                                            *)
UartUp(step) ==
  /\ pc = step
  /\ \/ uarts' = uarts \cup {step} /\ Continue
     \/ UNCHANGED uarts /\ OnTimeout
  /\ UNCHANGED <<hwVars, rcc_sysclk, reload>>

Main ==
  \/ SelectRange \/ EnableBoost \/ ConfigureFlash
  \/ HsiOn \/ HsiReady \/ PllOff \/ PllIsOff \/ PllOn \/ PllReady
  \/ HalveAhb \/ SelectPll \/ PllInUse \/ FullSpeed
  \/ SystickInit \/ UartUp("LOGGER") \/ UartUp("TRANSPORT")

(* The hardware, in its own time.                                          *)
Settles ==
  \/ vosf /\ vosf' = FALSE /\ UNCHANGED <<pll, sws>>
  \/ pll = "STOPS" /\ pll' = "OFF" /\ UNCHANGED <<vosf, sws>>
  \/ pll = "STARTS" /\ pll' = "LOCKED" /\ UNCHANGED <<vosf, sws>>
  \/ sws # sw /\ sws' = sw /\ UNCHANGED <<vosf, pll>>

Hardware ==
  /\ Settles
  /\ UNCHANGED <<pc, retries, boost, latency, hsirdy, pllcfgr, sw, hpre, softVars>>

Next == Main \/ Hardware

Spec == Init /\ [][Next]_vars /\ WF_vars(Main)
-----------------------------------------------------------------------------
(* At no step does HCLK exceed what flash wait states and regulator range  *)
(* allow: RM0440 gives 34 MHz per wait state and one in boost, 30 without. *)
WithinLimits == Hclk <= (latency + 1) * (IF boost THEN 34000 ELSE 30000)

(* The PLL's divisors are written only while it is off.                    *)
PllCfgrWrittenOff == [][pllcfgr' # pllcfgr => pll = "OFF"]_vars

(* Above 150 MHz only from half of that: the current never jumps.          *)
SpeedComesInSteps == [][Hclk' > 150000 => 2 * Hclk >= Hclk']_vars

(* What rcc_get_sysclk_hz says, and SysTick counts by, is the clock.       *)
SysclkIsTrue ==
  /\ rcc_sysclk # 0 => rcc_sysclk = Hclk
  /\ reload # 0 => reload = Hclk

(* The main loop is reached only with everything up: no failure on the way *)
(* goes unnoticed.                                                         *)
RunsConfigured ==
  pc = "RUNS" => reload # 0 /\ boost /\ latency = 4 /\ uarts = {"LOGGER", "TRANSPORT"}

(* Boot ends, in the loop or in for(;;), on hardware that never answers.   *)
BootEnds == <>(pc \in {"RUNS", "HALTED"})
=============================================================================
