--------------------------- MODULE PlatformProofs ---------------------------
(***************************************************************************)
(* What the controllers run on.  The clock tree is never driven outside    *)
(* its limits on the way up and what the software believes about it is     *)
(* true, for every time-out; delay_ms is right to within one tick for      *)
(* every delay, every phase it begins at and every value of the counter,   *)
(* its wrap included; and both hold of the two composed, as main does.     *)
(***************************************************************************)
EXTENDS Platform, TLAPS

(* The way up (Boot).                                                      *)
LEMMA OrderLength == Len(Order) = 17
  BY DEF Order

LEMMA OrderInjective ==
  ASSUME NEW i \in 1 .. 17, NEW j \in 1 .. 17, Order[i] = Order[j]
  PROVE  i = j
<1>1. i \in {1, 2, 3, 4, 5, 6, 7, 8, 9, 10, 11, 12, 13, 14, 15, 16, 17}
  OBVIOUS
<1>2. j \in {1, 2, 3, 4, 5, 6, 7, 8, 9, 10, 11, 12, 13, 14, 15, 16, 17}
  OBVIOUS
<1> QED
  BY <1>1, <1>2 DEF Order

LEMMA FollowingIsNext ==
  ASSUME NEW i \in 1 .. 16
  PROVE  Following(Order[i]) = Order[i + 1]
<1> DEFINE at == CHOOSE k \in 1 .. Len(Order) : Order[k] = Order[i]
<1>1. at \in 1 .. 17 /\ Order[at] = Order[i]
  BY OrderLength
<1>2. Following(Order[i]) = Order[1 + at]
  BY DEF Following
<1> HIDE DEF at
<1>3. at = i
  BY <1>1, OrderInjective
<1> QED
  BY <1>2, <1>3

(* What follows what.                                                      *)
LEMMA Path ==
  /\ Following("VOS") = "BOOST" /\ Following("BOOST") = "FLASH"
  /\ Following("FLASH") = "HSION" /\ Following("HSION") = "HSIRDY"
  /\ Following("HSIRDY") = "PLLOFF" /\ Following("PLLOFF") = "PLLSTOP"
  /\ Following("PLLSTOP") = "PLLON" /\ Following("PLLON") = "PLLRDY"
  /\ Following("PLLRDY") = "DIV2" /\ Following("DIV2") = "SWITCH"
  /\ Following("SWITCH") = "SWS" /\ Following("SWS") = "DIV1"
  /\ Following("DIV1") = "SYSTICK" /\ Following("SYSTICK") = "LOGGER"
  /\ Following("LOGGER") = "TRANSPORT" /\ Following("TRANSPORT") = "RUNS"
<1>1. \A i \in 1 .. 16 : Following(Order[i]) = Order[i + 1]
  BY FollowingIsNext
<1>2. /\ Order[1] = "VOS" /\ Order[2] = "BOOST" /\ Order[3] = "FLASH" /\ Order[4] = "HSION"
      /\ Order[5] = "HSIRDY" /\ Order[6] = "PLLOFF" /\ Order[7] = "PLLSTOP"
      /\ Order[8] = "PLLON" /\ Order[9] = "PLLRDY" /\ Order[10] = "DIV2"
      /\ Order[11] = "SWITCH" /\ Order[12] = "SWS" /\ Order[13] = "DIV1"
      /\ Order[14] = "SYSTICK" /\ Order[15] = "LOGGER" /\ Order[16] = "TRANSPORT"
      /\ Order[17] = "RUNS"
  BY DEF Order
<1>3. /\ Following(Order[1]) = Order[2] /\ Following(Order[2]) = Order[3]
      /\ Following(Order[3]) = Order[4] /\ Following(Order[4]) = Order[5]
      /\ Following(Order[5]) = Order[6] /\ Following(Order[6]) = Order[7]
      /\ Following(Order[7]) = Order[8] /\ Following(Order[8]) = Order[9]
  BY <1>1
<1>4. /\ Following(Order[9]) = Order[10] /\ Following(Order[10]) = Order[11]
      /\ Following(Order[11]) = Order[12] /\ Following(Order[12]) = Order[13]
      /\ Following(Order[13]) = Order[14] /\ Following(Order[14]) = Order[15]
      /\ Following(Order[15]) = Order[16] /\ Following(Order[16]) = Order[17]
  BY <1>1
<1> QED
  BY <1>2, <1>3, <1>4

LEMMA Steps ==
  {Order[i] : i \in 1 .. Len(Order)} =
    {"VOS", "BOOST", "FLASH", "HSION", "HSIRDY", "PLLOFF", "PLLSTOP", "PLLON", "PLLRDY",
     "DIV2", "SWITCH", "SWS", "DIV1", "SYSTICK", "LOGGER", "TRANSPORT", "RUNS"}
<1>1. \A i \in 1 .. 17 : i \in {1, 2, 3, 4, 5, 6, 7, 8, 9, 10, 11, 12, 13, 14, 15, 16, 17}
  OBVIOUS
<1> QED
  BY <1>1, OrderLength DEF Order

LEMMA Frequencies ==
  /\ PllKHz(Pll170) = 170000 /\ HsiKHz = 16000
  /\ PllKHz(Pll170) \div 1 = 170000 /\ PllKHz(Pll170) \div 2 = 85000
  /\ HsiKHz \div 1 = 16000 /\ HsiKHz \div 2 = 8000
  BY DEF PllKHz, Pll170, HsiKHz
-----------------------------------------------------------------------------
BeforePllOn == {"VOS", "BOOST", "FLASH", "HSION", "HSIRDY", "PLLOFF", "PLLSTOP", "PLLON"}
BeforeSwitch == BeforePllOn \cup {"PLLRDY", "DIV2", "SWITCH"}
AfterDiv1 == {"SYSTICK", "LOGGER", "TRANSPORT", "RUNS"}

(* Power and wait states are there before the PLL is asked for, and stay.  *)
Powered ==
  /\ pc \notin {"VOS", "BOOST", "HALTED"} => boost
  /\ pc \notin {"VOS", "BOOST", "FLASH", "HALTED"} => latency = 4
  /\ sw = "PLL" => boost /\ latency = 4

PllSet ==
  /\ pc = "PLLON" => pll = "OFF"
  /\ pc \in {"PLLRDY", "DIV2", "SWITCH"} => pllcfgr = Pll170
  /\ sw = "PLL" => pllcfgr = Pll170

(* While the switch is asked for and not seen, AHB runs at half speed.     *)
Switching ==
  /\ sws = "PLL" => sw = "PLL"
  /\ pc \in BeforeSwitch => sw = "HSI"
  /\ pc \in {"SWITCH", "SWS", "DIV1"} => hpre = 2
  /\ sw = "PLL" /\ sws = "HSI" => hpre = 2
  /\ pc \in AfterDiv1 \cup {"DIV1"} => sws = "PLL"

Believed ==
  /\ pc \in BeforeSwitch \cup {"SWS", "DIV1"} => rcc_sysclk = 0 /\ reload = 0
  /\ pc \in AfterDiv1 => rcc_sysclk # 0
  /\ rcc_sysclk # 0 => rcc_sysclk = 170000 /\ sws = "PLL" /\ hpre = 1
  /\ reload # 0 => reload = rcc_sysclk
  /\ pc \in {"LOGGER", "TRANSPORT", "RUNS"} => reload # 0

Up ==
  /\ pc \in {"TRANSPORT", "RUNS"} => "LOGGER" \in uarts
  /\ pc = "RUNS" => "TRANSPORT" \in uarts

BootInv == TypeOK /\ Powered /\ PllSet /\ Switching /\ Believed /\ Up

LEMMA InitBootInv == Init => BootInv
<1> SUFFICES ASSUME Init PROVE BootInv
  OBVIOUS
<1>1. TypeOK
  <2>1. retries \in 0 .. ReadyTimeout
    BY BootAssumption DEF Init
  <2> QED
    BY <2>1, Steps DEF Init, TypeOK
<1> QED
  BY <1>1 DEF Init, BootInv, Powered, PllSet, Switching, Believed, Up, BeforePllOn, BeforeSwitch,
              AfterDiv1

(* How a wait ends, and what it leaves of its time-out.                    *)
LEMMA AwaitEnds ==
  ASSUME NEW step, NEW ready, Await(step, ready), retries \in 0 .. ReadyTimeout
  PROVE  /\ pc = step /\ retries' \in 0 .. ReadyTimeout
         /\ \/ ready /\ pc' = Following(step)
            \/ pc' = "HALTED"
            \/ pc' = step
<1>1. ASSUME Retry, ~ OutOfRetries PROVE pc' = pc /\ retries' \in 0 .. ReadyTimeout
  BY <1>1, BootAssumption DEF Retry, OutOfRetries
<1>2. ReadyTimeout \in 0 .. ReadyTimeout
  BY BootAssumption
<1> QED
  BY <1>1, <1>2 DEF Await, Continue, OnTimeout, Halt

(* Every step of main goes on to the next, stays or halts.                 *)
LEMMA MainMoves ==
  ASSUME Main, TypeOK
  PROVE  /\ retries' \in 0 .. ReadyTimeout
         /\ pc' = "HALTED" \/ pc' = pc \/ pc' = Following(pc)
         /\ pc \notin {"RUNS", "HALTED"}
<1>1. ReadyTimeout \in 0 .. ReadyTimeout /\ retries \in 0 .. ReadyTimeout
  BY BootAssumption DEF TypeOK
<1>2. CASE EnableBoost
  BY <1>1, <1>2, AwaitEnds DEF EnableBoost
<1>3. CASE HsiReady
  BY <1>1, <1>3, AwaitEnds DEF HsiReady
<1>4. CASE PllIsOff
  BY <1>1, <1>4, AwaitEnds DEF PllIsOff
<1>5. CASE PllReady
  BY <1>1, <1>5, AwaitEnds DEF PllReady
<1>6. CASE PllInUse
  BY <1>1, <1>6, AwaitEnds DEF PllInUse
<1>7. CASE \/ SelectRange \/ ConfigureFlash \/ HsiOn \/ PllOff \/ PllOn
           \/ HalveAhb \/ SelectPll \/ FullSpeed
  BY <1>1, <1>7 DEF SelectRange, ConfigureFlash, HsiOn, PllOff, PllOn,
     HalveAhb, SelectPll, FullSpeed, Continue, OnTimeout, Halt
<1>8. CASE SystickInit \/ UartUp("LOGGER") \/ UartUp("TRANSPORT")
  BY <1>1, <1>8 DEF SystickInit, UartUp, Continue, OnTimeout, Halt
<1> QED
  BY <1>2, <1>3, <1>4, <1>5, <1>6, <1>7, <1>8 DEF Main

LEMMA StepType == TypeOK /\ [Next]_vars => TypeOK'
<1> SUFFICES ASSUME TypeOK, [Next]_vars PROVE TypeOK'
  OBVIOUS
<1>1. retries' \in 0 .. ReadyTimeout
  BY MainMoves DEF TypeOK, Next, Hardware, vars
<1>2. pc' \in {Order[i] : i \in 1 .. Len(Order)} \cup {"HALTED"}
  <2>1. pc \in {Order[i] : i \in 1 .. Len(Order)} \cup {"HALTED"}
    BY DEF TypeOK
  <2>2. CASE Main
    <3>1. pc \in {"VOS", "BOOST", "FLASH", "HSION", "HSIRDY", "PLLOFF", "PLLSTOP", "PLLON",
                  "PLLRDY", "DIV2", "SWITCH", "SWS", "DIV1", "SYSTICK", "LOGGER", "TRANSPORT"}
      BY <2>1, <2>2, MainMoves, Steps
    <3>2. Following(pc) \in {Order[i] : i \in 1 .. Len(Order)}
      BY <3>1, Path, Steps
    <3> QED
      BY <2>1, <2>2, <3>2, MainMoves
  <2> QED
    BY <2>1, <2>2 DEF Next, Hardware, vars
<1> USE DEF Next, Main, Hardware, Settles, vars, hwVars, softVars,
      SelectRange, EnableBoost, ConfigureFlash, HsiOn, HsiReady, PllOff, PllIsOff, PllOn, PllReady,
      HalveAhb, SelectPll, PllInUse, FullSpeed, SystickInit, UartUp
<1>3. {vosf', boost', hsirdy'} \subseteq BOOLEAN
  BY DEF TypeOK
<1>4. latency' \in {0, 4} /\ hpre' \in {1, 2} /\ {sw', sws'} \subseteq {"HSI", "PLL"}
  BY DEF TypeOK, SwitchPrescaler
<1>5. pll' \in {"OFF", "STARTS", "LOCKED", "STOPS"} /\ pllcfgr' \in {PllAtReset, Pll170}
  BY DEF TypeOK
<1>6. {rcc_sysclk', reload'} \subseteq {0, PllKHz(Pll170)} /\ uarts' \subseteq {"LOGGER", "TRANSPORT"}
  BY DEF TypeOK
<1> QED
  BY <1>1, <1>2, <1>3, <1>4, <1>5, <1>6 DEF TypeOK

LEMMA StepPowered == BootInv /\ [Next]_vars => Powered'
<1> SUFFICES ASSUME BootInv, [Next]_vars PROVE Powered'
  OBVIOUS
<1>1. ReadyTimeout \in 0 .. ReadyTimeout /\ TypeOK /\ retries \in 0 .. ReadyTimeout
  BY BootAssumption DEF BootInv, TypeOK
<1> USE DEF hwVars, softVars
<1>2. CASE SelectRange
  BY <1>1, <1>2, Path DEF SelectRange, Continue, BootInv, Powered, Switching, TypeOK, BeforePllOn, BeforeSwitch, AfterDiv1
<1>3. CASE EnableBoost
  BY <1>1, <1>3, Path, AwaitEnds DEF EnableBoost, BootInv, Powered, Switching, TypeOK, BeforePllOn, BeforeSwitch, AfterDiv1
<1>4. CASE ConfigureFlash
  BY <1>1, <1>4, Path DEF ConfigureFlash, Continue, Halt, OnTimeout, BootInv, Powered, Switching, TypeOK, BeforePllOn, BeforeSwitch, AfterDiv1
<1>5. CASE HsiOn
  BY <1>1, <1>5, Path DEF HsiOn, Continue, BootInv, Powered, Switching, TypeOK, BeforePllOn, BeforeSwitch, AfterDiv1
<1>6. CASE HsiReady
  BY <1>1, <1>6, Path, AwaitEnds DEF HsiReady, BootInv, Powered, Switching, TypeOK, BeforePllOn, BeforeSwitch, AfterDiv1
<1>7. CASE PllOff
  BY <1>1, <1>7, Path DEF PllOff, Continue, BootInv, Powered, Switching, TypeOK, BeforePllOn, BeforeSwitch, AfterDiv1
<1>8. CASE PllIsOff
  BY <1>1, <1>8, Path, AwaitEnds DEF PllIsOff, PllStopped, BootInv, Powered, Switching, TypeOK, BeforePllOn, BeforeSwitch, AfterDiv1
<1>9. CASE PllOn
  BY <1>1, <1>9, Path DEF PllOn, Continue, BootInv, Powered, Switching, TypeOK, BeforePllOn, BeforeSwitch, AfterDiv1
<1>10. CASE PllReady
  BY <1>1, <1>10, Path, AwaitEnds DEF PllReady, BootInv, Powered, Switching, TypeOK, BeforePllOn, BeforeSwitch, AfterDiv1
<1>11. CASE HalveAhb
  BY <1>1, <1>11, Path DEF HalveAhb, Continue, SwitchPrescaler, BootInv, Powered, Switching, TypeOK, BeforePllOn, BeforeSwitch, AfterDiv1
<1>12. CASE SelectPll
  BY <1>1, <1>12, Path DEF SelectPll, Continue, BootInv, Powered, Switching, TypeOK, BeforePllOn, BeforeSwitch, AfterDiv1
<1>13. CASE PllInUse
  BY <1>1, <1>13, Path, AwaitEnds DEF PllInUse, Switched, BootInv, Powered, Switching, TypeOK, BeforePllOn, BeforeSwitch, AfterDiv1
<1>14. CASE FullSpeed
  BY <1>1, <1>14, Path DEF FullSpeed, Continue, BootInv, Powered, Switching, TypeOK, BeforePllOn, BeforeSwitch, AfterDiv1
<1>15. CASE SystickInit
  BY <1>1, <1>15, Path DEF SystickInit, Continue, Halt, OnTimeout, BootInv, Powered, Switching, TypeOK, BeforePllOn, BeforeSwitch, AfterDiv1
<1>16. CASE UartUp("LOGGER")
  BY <1>1, <1>16, Path DEF UartUp, Continue, Halt, OnTimeout, BootInv, Powered, Switching, TypeOK, BeforePllOn, BeforeSwitch, AfterDiv1
<1>17. CASE UartUp("TRANSPORT")
  BY <1>1, <1>17, Path DEF UartUp, Continue, Halt, OnTimeout, BootInv, Powered, Switching, TypeOK, BeforePllOn, BeforeSwitch, AfterDiv1
<1>18. CASE Hardware
  BY <1>1, <1>18 DEF Hardware, Settles, BootInv, Powered, Switching, TypeOK, BeforePllOn, BeforeSwitch, AfterDiv1
<1>19. CASE UNCHANGED vars
  BY <1>1, <1>19 DEF vars, BootInv, Powered, Switching, TypeOK, BeforePllOn, BeforeSwitch, AfterDiv1
<1> QED
  BY <1>2, <1>3, <1>4, <1>5, <1>6, <1>7, <1>8, <1>9, <1>10, <1>11, <1>12, <1>13, <1>14, <1>15, <1>16, <1>17, <1>18, <1>19 DEF Next, Main

LEMMA StepPllSet == BootInv /\ [Next]_vars => PllSet'
<1> SUFFICES ASSUME BootInv, [Next]_vars PROVE PllSet'
  OBVIOUS
<1>1. ReadyTimeout \in 0 .. ReadyTimeout /\ TypeOK /\ retries \in 0 .. ReadyTimeout
  BY BootAssumption DEF BootInv, TypeOK
<1> USE DEF hwVars, softVars
<1>2. CASE SelectRange
  BY <1>1, <1>2, Path DEF SelectRange, Continue, BootInv, PllSet, Switching, BeforePllOn, BeforeSwitch, AfterDiv1
<1>3. CASE EnableBoost
  BY <1>1, <1>3, Path, AwaitEnds DEF EnableBoost, BootInv, PllSet, Switching, BeforePllOn, BeforeSwitch, AfterDiv1
<1>4. CASE ConfigureFlash
  BY <1>1, <1>4, Path DEF ConfigureFlash, Continue, Halt, OnTimeout, BootInv, PllSet, Switching, BeforePllOn, BeforeSwitch, AfterDiv1
<1>5. CASE HsiOn
  BY <1>1, <1>5, Path DEF HsiOn, Continue, BootInv, PllSet, Switching, BeforePllOn, BeforeSwitch, AfterDiv1
<1>6. CASE HsiReady
  BY <1>1, <1>6, Path, AwaitEnds DEF HsiReady, BootInv, PllSet, Switching, BeforePllOn, BeforeSwitch, AfterDiv1
<1>7. CASE PllOff
  BY <1>1, <1>7, Path DEF PllOff, Continue, BootInv, PllSet, Switching, BeforePllOn, BeforeSwitch, AfterDiv1
<1>8. CASE PllIsOff
  BY <1>1, <1>8, Path, AwaitEnds DEF PllIsOff, PllStopped, BootInv, PllSet, Switching, BeforePllOn, BeforeSwitch, AfterDiv1
<1>9. CASE PllOn
  BY <1>1, <1>9, Path DEF PllOn, Continue, BootInv, PllSet, Switching, BeforePllOn, BeforeSwitch, AfterDiv1
<1>10. CASE PllReady
  BY <1>1, <1>10, Path, AwaitEnds DEF PllReady, BootInv, PllSet, Switching, BeforePllOn, BeforeSwitch, AfterDiv1
<1>11. CASE HalveAhb
  BY <1>1, <1>11, Path DEF HalveAhb, Continue, SwitchPrescaler, BootInv, PllSet, Switching, BeforePllOn, BeforeSwitch, AfterDiv1
<1>12. CASE SelectPll
  BY <1>1, <1>12, Path DEF SelectPll, Continue, BootInv, PllSet, Switching, BeforePllOn, BeforeSwitch, AfterDiv1
<1>13. CASE PllInUse
  BY <1>1, <1>13, Path, AwaitEnds DEF PllInUse, Switched, BootInv, PllSet, Switching, BeforePllOn, BeforeSwitch, AfterDiv1
<1>14. CASE FullSpeed
  BY <1>1, <1>14, Path DEF FullSpeed, Continue, BootInv, PllSet, Switching, BeforePllOn, BeforeSwitch, AfterDiv1
<1>15. CASE SystickInit
  BY <1>1, <1>15, Path DEF SystickInit, Continue, Halt, OnTimeout, BootInv, PllSet, Switching, BeforePllOn, BeforeSwitch, AfterDiv1
<1>16. CASE UartUp("LOGGER")
  BY <1>1, <1>16, Path DEF UartUp, Continue, Halt, OnTimeout, BootInv, PllSet, Switching, BeforePllOn, BeforeSwitch, AfterDiv1
<1>17. CASE UartUp("TRANSPORT")
  BY <1>1, <1>17, Path DEF UartUp, Continue, Halt, OnTimeout, BootInv, PllSet, Switching, BeforePllOn, BeforeSwitch, AfterDiv1
<1>18. CASE Hardware
  BY <1>1, <1>18 DEF Hardware, Settles, BootInv, PllSet, Switching, BeforePllOn, BeforeSwitch, AfterDiv1
<1>19. CASE UNCHANGED vars
  BY <1>1, <1>19 DEF vars, BootInv, PllSet, Switching, BeforePllOn, BeforeSwitch, AfterDiv1
<1> QED
  BY <1>2, <1>3, <1>4, <1>5, <1>6, <1>7, <1>8, <1>9, <1>10, <1>11, <1>12, <1>13, <1>14, <1>15, <1>16, <1>17, <1>18, <1>19 DEF Next, Main

LEMMA StepSwitching == BootInv /\ [Next]_vars => Switching'
<1> SUFFICES ASSUME BootInv, [Next]_vars PROVE Switching'
  OBVIOUS
<1>1. ReadyTimeout \in 0 .. ReadyTimeout /\ TypeOK /\ retries \in 0 .. ReadyTimeout
  BY BootAssumption DEF BootInv, TypeOK
<1> USE DEF hwVars, softVars
<1>2. CASE SelectRange
  BY <1>1, <1>2, Path DEF SelectRange, Continue, BootInv, Switching, TypeOK, BeforePllOn, BeforeSwitch, AfterDiv1
<1>3. CASE EnableBoost
  BY <1>1, <1>3, Path, AwaitEnds DEF EnableBoost, BootInv, Switching, TypeOK, BeforePllOn, BeforeSwitch, AfterDiv1
<1>4. CASE ConfigureFlash
  BY <1>1, <1>4, Path DEF ConfigureFlash, Continue, Halt, OnTimeout, BootInv, Switching, TypeOK, BeforePllOn, BeforeSwitch, AfterDiv1
<1>5. CASE HsiOn
  BY <1>1, <1>5, Path DEF HsiOn, Continue, BootInv, Switching, TypeOK, BeforePllOn, BeforeSwitch, AfterDiv1
<1>6. CASE HsiReady
  BY <1>1, <1>6, Path, AwaitEnds DEF HsiReady, BootInv, Switching, TypeOK, BeforePllOn, BeforeSwitch, AfterDiv1
<1>7. CASE PllOff
  BY <1>1, <1>7, Path DEF PllOff, Continue, BootInv, Switching, TypeOK, BeforePllOn, BeforeSwitch, AfterDiv1
<1>8. CASE PllIsOff
  BY <1>1, <1>8, Path, AwaitEnds DEF PllIsOff, PllStopped, BootInv, Switching, TypeOK, BeforePllOn, BeforeSwitch, AfterDiv1
<1>9. CASE PllOn
  BY <1>1, <1>9, Path DEF PllOn, Continue, BootInv, Switching, TypeOK, BeforePllOn, BeforeSwitch, AfterDiv1
<1>10. CASE PllReady
  BY <1>1, <1>10, Path, AwaitEnds DEF PllReady, BootInv, Switching, TypeOK, BeforePllOn, BeforeSwitch, AfterDiv1
<1>11. CASE HalveAhb
  BY <1>1, <1>11, Path DEF HalveAhb, Continue, SwitchPrescaler, BootInv, Switching, TypeOK, BeforePllOn, BeforeSwitch, AfterDiv1
<1>12. CASE SelectPll
  BY <1>1, <1>12, Path DEF SelectPll, Continue, BootInv, Switching, TypeOK, BeforePllOn, BeforeSwitch, AfterDiv1
<1>13. CASE PllInUse
  BY <1>1, <1>13, Path DEF PllInUse, Switched, Await, Continue, OnTimeout, Halt, Retry, BootInv, Switching, TypeOK, BeforePllOn, BeforeSwitch, AfterDiv1
<1>14. CASE FullSpeed
  BY <1>1, <1>14, Path DEF FullSpeed, Continue, BootInv, Switching, TypeOK, BeforePllOn, BeforeSwitch, AfterDiv1
<1>15. CASE SystickInit
  BY <1>1, <1>15, Path DEF SystickInit, Continue, Halt, OnTimeout, BootInv, Switching, TypeOK, BeforePllOn, BeforeSwitch, AfterDiv1
<1>16. CASE UartUp("LOGGER")
  BY <1>1, <1>16, Path DEF UartUp, Continue, Halt, OnTimeout, BootInv, Switching, TypeOK, BeforePllOn, BeforeSwitch, AfterDiv1
<1>17. CASE UartUp("TRANSPORT")
  BY <1>1, <1>17, Path DEF UartUp, Continue, Halt, OnTimeout, BootInv, Switching, TypeOK, BeforePllOn, BeforeSwitch, AfterDiv1
<1>18. CASE Hardware
  BY <1>1, <1>18 DEF Hardware, Settles, BootInv, Switching, TypeOK, BeforePllOn, BeforeSwitch, AfterDiv1
<1>19. CASE UNCHANGED vars
  BY <1>1, <1>19 DEF vars, BootInv, Switching, TypeOK, BeforePllOn, BeforeSwitch, AfterDiv1
<1> QED
  BY <1>2, <1>3, <1>4, <1>5, <1>6, <1>7, <1>8, <1>9, <1>10, <1>11, <1>12, <1>13, <1>14, <1>15, <1>16, <1>17, <1>18, <1>19 DEF Next, Main

LEMMA StepBelieved == BootInv /\ [Next]_vars => Believed'
<1> SUFFICES ASSUME BootInv, [Next]_vars PROVE Believed'
  OBVIOUS
<1>1. ReadyTimeout \in 0 .. ReadyTimeout /\ TypeOK /\ retries \in 0 .. ReadyTimeout
  BY BootAssumption DEF BootInv, TypeOK
<1> USE DEF hwVars, softVars
<1>2. CASE SelectRange
  BY <1>1, <1>2, Path, Frequencies DEF SelectRange, Continue, BootInv, Switching, Believed, TypeOK, BeforePllOn, BeforeSwitch, AfterDiv1
<1>3. CASE EnableBoost
  BY <1>1, <1>3, Path, AwaitEnds, Frequencies DEF EnableBoost, BootInv, Switching, Believed, TypeOK, BeforePllOn, BeforeSwitch, AfterDiv1
<1>4. CASE ConfigureFlash
  BY <1>1, <1>4, Path, Frequencies DEF ConfigureFlash, Continue, Halt, OnTimeout, BootInv, Switching, Believed, TypeOK, BeforePllOn, BeforeSwitch, AfterDiv1
<1>5. CASE HsiOn
  BY <1>1, <1>5, Path, Frequencies DEF HsiOn, Continue, BootInv, Switching, Believed, TypeOK, BeforePllOn, BeforeSwitch, AfterDiv1
<1>6. CASE HsiReady
  BY <1>1, <1>6, Path, AwaitEnds, Frequencies DEF HsiReady, BootInv, Switching, Believed, TypeOK, BeforePllOn, BeforeSwitch, AfterDiv1
<1>7. CASE PllOff
  BY <1>1, <1>7, Path, Frequencies DEF PllOff, Continue, BootInv, Switching, Believed, TypeOK, BeforePllOn, BeforeSwitch, AfterDiv1
<1>8. CASE PllIsOff
  BY <1>1, <1>8, Path, AwaitEnds, Frequencies DEF PllIsOff, PllStopped, BootInv, Switching, Believed, TypeOK, BeforePllOn, BeforeSwitch, AfterDiv1
<1>9. CASE PllOn
  BY <1>1, <1>9, Path, Frequencies DEF PllOn, Continue, BootInv, Switching, Believed, TypeOK, BeforePllOn, BeforeSwitch, AfterDiv1
<1>10. CASE PllReady
  BY <1>1, <1>10, Path, AwaitEnds, Frequencies DEF PllReady, BootInv, Switching, Believed, TypeOK, BeforePllOn, BeforeSwitch, AfterDiv1
<1>11. CASE HalveAhb
  BY <1>1, <1>11, Path, Frequencies DEF HalveAhb, Continue, SwitchPrescaler, BootInv, Switching, Believed, TypeOK, BeforePllOn, BeforeSwitch, AfterDiv1
<1>12. CASE SelectPll
  BY <1>1, <1>12, Path, Frequencies DEF SelectPll, Continue, BootInv, Switching, Believed, TypeOK, BeforePllOn, BeforeSwitch, AfterDiv1
<1>13. CASE PllInUse
  BY <1>1, <1>13, Path, AwaitEnds, Frequencies DEF PllInUse, Switched, BootInv, Switching, Believed, TypeOK, BeforePllOn, BeforeSwitch, AfterDiv1
<1>14. CASE FullSpeed
  BY <1>1, <1>14, Path, Frequencies DEF FullSpeed, Continue, BootInv, Switching, Believed, TypeOK, BeforePllOn, BeforeSwitch, AfterDiv1
<1>15. CASE SystickInit
  BY <1>1, <1>15, Path, Frequencies DEF SystickInit, Continue, Halt, OnTimeout, BootInv, Switching, Believed, TypeOK, BeforePllOn, BeforeSwitch, AfterDiv1
<1>16. CASE UartUp("LOGGER")
  BY <1>1, <1>16, Path, Frequencies DEF UartUp, Continue, Halt, OnTimeout, BootInv, Switching, Believed, TypeOK, BeforePllOn, BeforeSwitch, AfterDiv1
<1>17. CASE UartUp("TRANSPORT")
  BY <1>1, <1>17, Path, Frequencies DEF UartUp, Continue, Halt, OnTimeout, BootInv, Switching, Believed, TypeOK, BeforePllOn, BeforeSwitch, AfterDiv1
<1>18. CASE Hardware
  BY <1>1, <1>18, Frequencies DEF Hardware, Settles, BootInv, Switching, Believed, TypeOK, BeforePllOn, BeforeSwitch, AfterDiv1
<1>19. CASE UNCHANGED vars
  BY <1>1, <1>19, Frequencies DEF vars, BootInv, Switching, Believed, TypeOK, BeforePllOn, BeforeSwitch, AfterDiv1
<1> QED
  BY <1>2, <1>3, <1>4, <1>5, <1>6, <1>7, <1>8, <1>9, <1>10, <1>11, <1>12, <1>13, <1>14, <1>15, <1>16, <1>17, <1>18, <1>19 DEF Next, Main

LEMMA StepUp == BootInv /\ [Next]_vars => Up'
<1> SUFFICES ASSUME BootInv, [Next]_vars PROVE Up'
  OBVIOUS
<1>1. ReadyTimeout \in 0 .. ReadyTimeout /\ TypeOK /\ retries \in 0 .. ReadyTimeout
  BY BootAssumption DEF BootInv, TypeOK
<1> USE DEF hwVars, softVars
<1>2. CASE SelectRange
  BY <1>1, <1>2, Path DEF SelectRange, Continue, BootInv, Up
<1>3. CASE EnableBoost
  BY <1>1, <1>3, Path, AwaitEnds DEF EnableBoost, BootInv, Up
<1>4. CASE ConfigureFlash
  BY <1>1, <1>4, Path DEF ConfigureFlash, Continue, Halt, OnTimeout, BootInv, Up
<1>5. CASE HsiOn
  BY <1>1, <1>5, Path DEF HsiOn, Continue, BootInv, Up
<1>6. CASE HsiReady
  BY <1>1, <1>6, Path, AwaitEnds DEF HsiReady, BootInv, Up
<1>7. CASE PllOff
  BY <1>1, <1>7, Path DEF PllOff, Continue, BootInv, Up
<1>8. CASE PllIsOff
  BY <1>1, <1>8, Path, AwaitEnds DEF PllIsOff, PllStopped, BootInv, Up
<1>9. CASE PllOn
  BY <1>1, <1>9, Path DEF PllOn, Continue, BootInv, Up
<1>10. CASE PllReady
  BY <1>1, <1>10, Path, AwaitEnds DEF PllReady, BootInv, Up
<1>11. CASE HalveAhb
  BY <1>1, <1>11, Path DEF HalveAhb, Continue, SwitchPrescaler, BootInv, Up
<1>12. CASE SelectPll
  BY <1>1, <1>12, Path DEF SelectPll, Continue, BootInv, Up
<1>13. CASE PllInUse
  BY <1>1, <1>13, Path, AwaitEnds DEF PllInUse, Switched, BootInv, Up
<1>14. CASE FullSpeed
  BY <1>1, <1>14, Path DEF FullSpeed, Continue, BootInv, Up
<1>15. CASE SystickInit
  BY <1>1, <1>15, Path DEF SystickInit, Continue, Halt, OnTimeout, BootInv, Up
<1>16. CASE UartUp("LOGGER")
  BY <1>1, <1>16, Path DEF UartUp, Continue, Halt, OnTimeout, BootInv, Up
<1>17. CASE UartUp("TRANSPORT")
  BY <1>1, <1>17, Path DEF UartUp, Continue, Halt, OnTimeout, BootInv, Up
<1>18. CASE Hardware
  BY <1>1, <1>18 DEF Hardware, Settles, BootInv, Up
<1>19. CASE UNCHANGED vars
  BY <1>1, <1>19 DEF vars, BootInv, Up
<1> QED
  BY <1>2, <1>3, <1>4, <1>5, <1>6, <1>7, <1>8, <1>9, <1>10, <1>11, <1>12, <1>13, <1>14, <1>15, <1>16, <1>17, <1>18, <1>19 DEF Next, Main

LEMMA StepBootInv == BootInv /\ [Next]_vars => BootInv'
  BY StepType, StepPowered, StepPllSet, StepSwitching, StepBelieved, StepUp DEF BootInv

LEMMA BootInvariance == Init /\ [][Next]_vars => []BootInv
  BY InitBootInv, StepBootInv, PTL

LEMMA LimitsFollow == BootInv => WithinLimits
<1> SUFFICES ASSUME BootInv PROVE WithinLimits
  OBVIOUS
<1>1. /\ sws \in {"HSI", "PLL"} /\ hpre \in {1, 2} /\ latency \in {0, 4}
      /\ sws = "PLL" => boost /\ latency = 4 /\ pllcfgr = Pll170
  BY DEF BootInv, TypeOK, Switching, Powered, PllSet
<1>2. CASE sws = "PLL"
  <2>1. Hclk \in {170000, 85000}
    BY <1>1, <1>2, Frequencies DEF Hclk, Sysclk
  <2> QED
    BY <1>1, <1>2, <2>1 DEF WithinLimits
<1>3. CASE sws = "HSI"
  <2>1. Hclk \in {16000, 8000}
    BY <1>1, <1>3, Frequencies DEF Hclk, Sysclk
  <2> QED
    BY <1>1, <2>1 DEF WithinLimits
<1> QED
  BY <1>1, <1>2, <1>3

LEMMA TruthFollows == BootInv => SysclkIsTrue
<1> SUFFICES ASSUME BootInv, rcc_sysclk # 0 \/ reload # 0 PROVE SysclkIsTrue
  BY DEF SysclkIsTrue
<1>1. /\ rcc_sysclk = 170000 /\ sws = "PLL" /\ hpre = 1 /\ pllcfgr = Pll170
      /\ reload # 0 => reload = 170000
  BY DEF BootInv, Believed, Switching, PllSet
<1> QED
  BY <1>1, Frequencies DEF SysclkIsTrue, Hclk, Sysclk

LEMMA ConfigurationFollows == BootInv => RunsConfigured
<1> SUFFICES ASSUME BootInv, pc = "RUNS" PROVE RunsConfigured
  BY DEF RunsConfigured
<1>1. reload # 0 /\ boost /\ latency = 4
  BY DEF BootInv, Powered, Believed
<1>2. uarts = {"LOGGER", "TRANSPORT"}
  BY DEF BootInv, TypeOK, Up
<1> QED
  BY <1>1, <1>2 DEF RunsConfigured

-----------------------------------------------------------------------------
(* Every register and counter of the boot stays within its range.          *)
THEOREM BootTypeCorrect == Spec => []TypeOK
<1>1. BootInv => TypeOK
  BY DEF BootInv
<1> QED
  BY <1>1, BootInvariance, PTL DEF Spec

(* HCLK never exceeds what wait states and regulator allow, however the    *)
(* waits end.                                                              *)
THEOREM AlwaysWithinLimits == Spec => []WithinLimits
  BY LimitsFollow, BootInvariance, PTL DEF Spec

(* The clock rcc_get_sysclk_hz and SysTick go by is the one in use.        *)
THEOREM SysclkAlwaysTrue == Spec => []SysclkIsTrue
  BY TruthFollows, BootInvariance, PTL DEF Spec

(* The main loop is reached only with everything up.                       *)
THEOREM AlwaysRunsConfigured == Spec => []RunsConfigured
  BY ConfigurationFollows, BootInvariance, PTL DEF Spec

(* The divisors of a running PLL are never written.                        *)
THEOREM PllCfgrAlwaysWrittenOff == Spec => PllCfgrWrittenOff
<1>1. BootInv /\ [Next]_vars => [pllcfgr' # pllcfgr => pll = "OFF"]_vars
  BY DEF BootInv, PllSet, Next, Main, SelectRange, EnableBoost, ConfigureFlash, HsiOn, HsiReady,
     PllOff, PllIsOff, PllOn, PllReady, HalveAhb, SelectPll, PllInUse, FullSpeed, SystickInit,
     UartUp, Hardware, hwVars, vars
<1> QED
  BY <1>1, BootInvariance, PTL DEF Spec, PllCfgrWrittenOff

SpeedsKnown ==
  /\ Hclk \in {8000, 16000, 85000, 170000}
  /\ Hclk = 170000 <=> sws = "PLL" /\ hpre = 1
  /\ Hclk = 85000 <=> sws = "PLL" /\ hpre = 2

LEMMA Speeds == BootInv => SpeedsKnown
<1> SUFFICES ASSUME BootInv PROVE SpeedsKnown
  OBVIOUS
<1>1. sws \in {"HSI", "PLL"} /\ hpre \in {1, 2} /\ (sws = "PLL" => pllcfgr = Pll170)
  BY DEF BootInv, TypeOK, Switching, PllSet
<1>2. CASE sws = "PLL"
  BY <1>1, <1>2, Frequencies DEF Hclk, Sysclk, SpeedsKnown
<1>3. CASE sws = "HSI"
  BY <1>1, <1>3, Frequencies DEF Hclk, Sysclk, SpeedsKnown
<1> QED
  BY <1>1, <1>2, <1>3

(* The core clock goes above 150 MHz only by doubling.                     *)
THEOREM SpeedAlwaysInSteps == Spec => SpeedComesInSteps
<1>1. BootInv' => SpeedsKnown'
  BY Speeds, PTL
<1>2. BootInv /\ BootInv' /\ [Next]_vars => [Hclk' > 150000 => 2 * Hclk >= Hclk']_vars
  <2> SUFFICES ASSUME BootInv, BootInv', [Next]_vars, Hclk' > 150000 PROVE 2 * Hclk >= Hclk'
    OBVIOUS
  <2>1. Hclk' = 170000 /\ sws' = "PLL" /\ hpre' = 1
    BY <1>1 DEF SpeedsKnown
  <2>2. sws = "PLL" /\ hpre \in {1, 2}
    <3>1. CASE Hardware
      BY <2>1, <3>1 DEF Hardware, Settles, BootInv, Switching, TypeOK
    <3>2. CASE ~ Hardware
      BY <2>1, <3>2 DEF BootInv, TypeOK, Next, Main, SelectRange, EnableBoost, ConfigureFlash,
         HsiOn, HsiReady, PllOff, PllIsOff, PllOn, PllReady, HalveAhb, SelectPll, PllInUse,
         FullSpeed, SystickInit, UartUp, hwVars, vars
    <3> QED
      BY <3>1, <3>2
  <2> QED
    BY <2>1, <2>2, Speeds DEF SpeedsKnown
<1> QED
  BY <1>1, <1>2, BootInvariance, PTL DEF Spec, SpeedComesInSteps

-----------------------------------------------------------------------------
(* The tick and the waits on it (SysTick).                                 *)
(* The ticks since a count, by unsigned subtraction.                       *)
Ticks(now, then) == (now - then) % Modulus

(* A wait that began p instants into a tick has seen the ticks it counts,  *)
(* less p; it is over on the tick, unless there was nothing to wait for.   *)
Accounted ==
  call.pc = "SPINS" =>
    LET d == Ticks(systick_ms, call.start)
    IN  /\ d <= call.ms
        /\ call.ms = 0 => elapsed = 0
        /\ call.ms > 0 /\ d = call.ms => phase = 0
        /\ \E p \in 0 .. Sub - 1 : elapsed = d * Sub + phase - p

TickInv == TickTypeOK /\ Accounted /\ DelayLasts

LEMMA DifferenceMod ==
  ASSUME NEW m \in Nat, m > 0,
         NEW x \in Int, NEW y \in Int, 0 <= x, x < m, 0 <= y, y < m
  PROVE  /\ (x - y) % m = IF y <= x THEN x - y ELSE x - y + m
         /\ (x + 1) % m = IF x + 1 = m THEN 0 ELSE x + 1
  OBVIOUS

LEMMA TicksAreCounted ==
  ASSUME NEW now \in 0 .. Modulus - 1, NEW then \in 0 .. Modulus - 1
  PROVE  /\ Ticks(now, now) = 0
         /\ Ticks(now, then) \in 0 .. Modulus - 1
         /\ (now + 1) % Modulus \in 0 .. Modulus - 1
         /\ Ticks(now, then) < Modulus - 1 =>
              Ticks((now + 1) % Modulus, then) = Ticks(now, then) + 1
<1>1. /\ Modulus \in Nat /\ Modulus > 0
      /\ now \in Int /\ 0 <= now /\ now < Modulus
      /\ then \in Int /\ 0 <= then /\ then < Modulus
  BY SysTickAssumption
<1> DEFINE next == IF now + 1 = Modulus THEN 0 ELSE now + 1
<1>2. /\ next \in Int /\ 0 <= next /\ next < Modulus /\ (now + 1) % Modulus = next
      /\ (now - now) % Modulus = 0
  BY <1>1, DifferenceMod
<1>3. Ticks(now, then) = IF then <= now THEN now - then ELSE now - then + Modulus
  BY <1>1, DifferenceMod DEF Ticks
<1>4. Ticks(next, then) = IF then <= next THEN next - then ELSE next - then + Modulus
  <2> HIDE DEF next
  <2> QED
    BY <1>1, <1>2, DifferenceMod DEF Ticks
<1> QED
  BY <1>1, <1>2, <1>3, <1>4 DEF Ticks

LEMMA Product ==
  ASSUME NEW a \in Int, NEW b \in Int, NEW n \in Nat, n > 0
  PROVE  /\ a * n \in Int /\ (a + 1) * n = a * n + n /\ (a - 1) * n = a * n - n
         /\ a <= b => a * n <= b * n
<1>1. b * n = a * n + (b - a) * n
  OBVIOUS
<1>2. b - a >= 0 => (b - a) * n >= 0
  OBVIOUS
<1> QED
  BY <1>1, <1>2

LEMMA InitTickInv == TickInit => TickInv
<1> SUFFICES ASSUME TickInit PROVE TickInv
  OBVIOUS
<1>1. Modulus \in Nat /\ Modulus > 0 /\ Sub \in Nat /\ Sub > 0 /\ Modulus * Sub >= 0
      /\ Modulus * Sub \in Nat
  BY SysTickAssumption
<1>2. TickTypeOK
  BY <1>1 DEF TickInit, TickTypeOK
<1> QED
  BY <1>2 DEF TickInit, TickInv, Accounted, DelayLasts, NoCall

LEMMA StepTickInv == TickInv /\ [TickNext]_tickVars => TickInv'
<1> SUFFICES ASSUME TickInv, [TickNext]_tickVars PROVE TickInv'
  OBVIOUS
<1>1. /\ Modulus \in Nat /\ Modulus > 0 /\ Sub \in Nat /\ Sub > 0
      /\ phase \in 0 .. Sub - 1 /\ systick_ms \in 0 .. Modulus - 1
      /\ Modulus * Sub \in Nat /\ elapsed \in 0 .. Modulus * Sub
  BY SysTickAssumption DEF TickInv, TickTypeOK
<1>2. TickTypeOK /\ Accounted /\ DelayLasts
  BY DEF TickInv
<1>3. call.pc # "NONE" => call \in [pc : {"SPINS", "RETURNED"}, ms : Delay, start : 0 .. Modulus - 1]
  BY <1>2 DEF TickTypeOK, NoCall
<1>4. \A ms \in Delay : ms \in Int /\ 0 <= ms /\ ms <= Modulus - 1
  BY <1>1, SysTickAssumption
<1>5. ASSUME NEW ms \in Delay, Begin(ms) PROVE TickInv'
  <2>1. /\ call' = [pc |-> "SPINS", ms |-> ms, start |-> systick_ms] /\ elapsed' = 0
        /\ phase' = phase /\ systick_ms' = systick_ms
    BY <1>5 DEF Begin
  <2>2. TickTypeOK'
    <3>1. call' \in [pc : {"SPINS", "RETURNED"}, ms : Delay, start : 0 .. Modulus - 1]
      BY <1>1, <2>1
    <3>2. elapsed' \in 0 .. Modulus * Sub
      BY <1>1, <2>1
    <3> QED
      BY <1>1, <2>1, <3>1, <3>2 DEF TickTypeOK
  <2>3. Ticks(systick_ms', call'.start) = 0 /\ call'.ms = ms
    BY <1>1, <2>1, TicksAreCounted
  <2>4. 0 * Sub + phase - phase = 0 /\ phase \in 0 .. Sub - 1
    BY <1>1
  <2>5. Accounted'
    BY <1>4, <2>1, <2>3, <2>4 DEF Accounted
  <2> QED
    BY <2>1, <2>2, <2>5 DEF TickInv, DelayLasts
<1>6. CASE Return
  <2>1. /\ call.pc = "SPINS" /\ Ticks(systick_ms, call.start) >= call.ms
        /\ call' = [call EXCEPT !.pc = "RETURNED"]
        /\ phase' = phase /\ systick_ms' = systick_ms /\ elapsed' = elapsed
    BY <1>6 DEF Return, Over, Ticks
  <2>2. /\ call' = [pc |-> "RETURNED", ms |-> call.ms, start |-> call.start]
        /\ call.ms \in Delay /\ call.start \in 0 .. Modulus - 1
    BY <1>3, <2>1
  <2>3. TickTypeOK'
    <3>1. call' \in [pc : {"SPINS", "RETURNED"}, ms : Delay, start : 0 .. Modulus - 1]
      BY <2>2
    <3> QED
      BY <1>2, <2>1, <3>1 DEF TickTypeOK
  <2>4. Ticks(systick_ms, call.start) = call.ms
    <3>1. Ticks(systick_ms, call.start) \in 0 .. Modulus - 1 /\ call.ms \in Int
      BY <1>1, <1>4, <2>2, TicksAreCounted
    <3>2. Ticks(systick_ms, call.start) <= call.ms
      BY <1>2, <2>1 DEF Accounted
    <3> QED
      BY <1>1, <2>1, <3>1, <3>2
  <2>5. (call.ms - 1) * Sub < elapsed /\ elapsed <= call.ms * Sub
    <3>1. call.ms \in Int /\ 0 <= call.ms
      BY <1>4, <2>2
    <3>2. (call.ms - 1) * Sub = call.ms * Sub - Sub /\ call.ms * Sub \in Int
      BY <1>1, <3>1, Product
    <3>3. CASE call.ms = 0
      BY <1>1, <1>2, <2>1, <3>2, <3>3 DEF Accounted
    <3>4. CASE call.ms > 0
      <4>1. PICK p \in 0 .. Sub - 1 : elapsed = call.ms * Sub + phase - p
        BY <1>2, <2>1, <2>4 DEF Accounted
      <4>2. phase = 0
        BY <1>2, <2>1, <2>4, <3>4 DEF Accounted
      <4> QED
        BY <1>1, <3>2, <4>1, <4>2
    <3> QED
      BY <3>1, <3>3, <3>4
  <2>6. DelayLasts'
    BY <2>1, <2>2, <2>5 DEF DelayLasts
  <2> QED
    BY <2>2, <2>3, <2>6 DEF TickInv, Accounted
<1>7. CASE TimePasses
  <2>1. /\ ~ (call.pc = "SPINS" /\ Ticks(systick_ms, call.start) >= call.ms)
        /\ phase' = (phase + 1) % Sub /\ call' = call
        /\ phase' = 0 => systick_ms' = (systick_ms + 1) % Modulus
        /\ phase' # 0 => systick_ms' = systick_ms
    BY <1>7 DEF TimePasses, Over, Ticks, SysTick_Handler
  <2>2. phase' = IF phase + 1 = Sub THEN 0 ELSE phase + 1
    BY <1>1, <2>1, DifferenceMod
  <2>3. phase' \in 0 .. Sub - 1 /\ systick_ms' \in 0 .. Modulus - 1
    <3>1. phase' \in 0 .. Sub - 1
      BY <1>1, <2>2
    <3>2. (systick_ms + 1) % Modulus \in 0 .. Modulus - 1
      BY <1>1, TicksAreCounted
    <3> QED
      BY <1>1, <2>1, <3>1, <3>2
  <2>4. CASE call.pc = "SPINS"
    <3> DEFINE d == Ticks(systick_ms, call.start)
    <3>1. /\ call.ms \in Int /\ 0 <= call.ms /\ call.ms <= Modulus - 1
          /\ call.start \in 0 .. Modulus - 1
      BY <1>3, <1>4, <2>4
    <3>2. d \in Int /\ 0 <= d /\ d < call.ms
      <4>1. d \in 0 .. Modulus - 1
        BY <1>1, <3>1, TicksAreCounted
      <4>2. ~ (d >= call.ms)
        BY <2>1, <2>4
      <4> HIDE DEF d
      <4> QED
        BY <1>1, <3>1, <4>1, <4>2
    <3>3. PICK p \in 0 .. Sub - 1 : elapsed = d * Sub + phase - p
      BY <1>2, <2>4 DEF Accounted
    <3>4. Ticks(systick_ms', call.start) = IF phase' = 0 THEN d + 1 ELSE d
      <4>1. d < Modulus - 1
        BY <1>1, <3>1, <3>2
      <4> QED
        BY <1>1, <2>1, <3>1, <4>1, TicksAreCounted
    <3> HIDE DEF d
    <3>5. /\ d * Sub \in Int /\ (d + 1) * Sub = d * Sub + Sub
          /\ (d + 1) * Sub <= Modulus * Sub /\ 0 <= d * Sub
      BY <1>1, <3>1, <3>2, Product
    <3>6. elapsed < Modulus * Sub
      BY <1>1, <3>3, <3>5
    <3>7. elapsed' = elapsed + 1
      BY <1>7, <2>4, <3>6 DEF TimePasses
    <3>8. elapsed' \in 0 .. Modulus * Sub
      BY <1>1, <3>6, <3>7
    <3>9. elapsed' = (IF phase' = 0 THEN d + 1 ELSE d) * Sub + phase' - p
      BY <1>1, <2>2, <3>3, <3>5, <3>7
    <3>10. TickTypeOK'
      BY <1>2, <2>1, <2>3, <3>8 DEF TickTypeOK
    <3>11. Accounted'
      BY <2>1, <2>4, <3>1, <3>2, <3>3, <3>4, <3>9 DEF Accounted
    <3> QED
      BY <2>1, <2>4, <3>10, <3>11 DEF TickInv, DelayLasts
  <2>5. CASE call.pc # "SPINS"
    <3>1. elapsed' = elapsed
      BY <1>7, <2>5 DEF TimePasses
    <3> QED
      BY <1>2, <2>1, <2>3, <2>5, <3>1 DEF TickInv, TickTypeOK, Accounted, DelayLasts
  <2> QED
    BY <2>4, <2>5
<1>8. CASE UNCHANGED tickVars
  BY <1>2, <1>8 DEF tickVars, TickInv, TickTypeOK, Accounted, Ticks, DelayLasts
<1> QED
  BY <1>5, <1>6, <1>7, <1>8 DEF TickNext

LEMMA TickInvariance == TickSpec => []TickInv
  BY InitTickInv, StepTickInv, PTL DEF TickSpec

(* The counter stays within its width and the history within its bound.    *)
THEOREM SysTickTypeCorrect == TickSpec => []TickTypeOK
<1>1. TickInv => TickTypeOK
  BY DEF TickInv
<1> QED
  BY <1>1, TickInvariance, PTL

(* A delay is right to within one tick, wherever in a tick and wherever on *)
(* the counter it begins, for every argument short of a whole turn.        *)
THEOREM DelayAlwaysLasts == TickSpec => []DelayLasts
<1>1. TickInv => DelayLasts
  BY DEF TickInv
<1> QED
  BY <1>1, TickInvariance, PTL

-----------------------------------------------------------------------------
(* The two composed (Platform).                                            *)
LEMMA PlatformBoots == PlatformSpec => []BootInv
<1>1. PlatformInit => Init
  BY DEF PlatformInit
<1>2. [PlatformNext]_platformVars => [Next]_vars
  BY DEF PlatformNext, platformVars, BootSteps, TickSteps, Next
<1> QED
  BY <1>1, <1>2, BootInvariance, PTL DEF PlatformSpec

LEMMA PlatformTicks == PlatformSpec => []TickInv
<1>1. PlatformInit => TickInit
  BY DEF PlatformInit
<1>2. [PlatformNext]_platformVars => [TickNext]_tickVars
  BY DEF PlatformNext, platformVars, BootSteps, TickSteps, TickNext, Counts, Waits
<1> QED
  BY <1>1, <1>2, TickInvariance, PTL DEF PlatformSpec, TickSpec

(* In the program as main composes it the clocks stay within their limits, *)
(* what rcc_get_sysclk_hz says is true, the loop starts on the clocks it   *)
(* was written for and delay_ms lasts, all at once.                        *)
THEOREM PlatformAlwaysSound ==
  PlatformSpec => [](WithinLimits /\ SysclkIsTrue /\ RunsConfigured /\ DelayLasts)
<1>1. BootInv => WithinLimits /\ SysclkIsTrue /\ RunsConfigured
  BY LimitsFollow, TruthFollows, ConfigurationFollows
<1>2. TickInv => DelayLasts
  BY DEF TickInv
<1> QED
  BY <1>1, <1>2, PlatformBoots, PlatformTicks, PTL
=============================================================================
