--------------------------- MODULE MainLoopProofs ---------------------------
(***************************************************************************)
(* No byte is lost when all the commands a host may have under way fit     *)
(* into the receive queue, for frames, queues and logs of every size.      *)
(***************************************************************************)
EXTENDS MainLoop, Integers, TLAPS

(* All a byte sent can be in before its command is answered.               *)
Backlog == left + rx + got + (IF pc = "ANSWERS" THEN FrameSize ELSE 0)

IInv ==
  /\ TypeOK
  /\ Backlog <= owed * FrameSize
  /\ pc = "ANSWERS" => got = 0
  /\ SleepsWithLogWritten

LEMMA OneMore ==
  ASSUME NEW m \in Nat, NEW n \in Nat
  PROVE  (m + 1) * n = m * n + n /\ (m - 1) * n = m * n - n /\ m * n \in Nat
  OBVIOUS

LEMMA AtMost ==
  ASSUME NEW m \in Nat, NEW n \in Nat, NEW k \in Nat, m <= n
  PROVE  m * k <= n * k
<1>1. n * k = m * k + (n - m) * k /\ (n - m) * k >= 0
  OBVIOUS
<1> QED
  BY <1>1

LEMMA InitIInv == Init => IInv
<1> SUFFICES ASSUME Init PROVE IInv
  OBVIOUS
<1>1. /\ FrameSize \in Nat /\ FrameSize > 0 /\ Outstanding \in Nat
      /\ RxSize \in Nat /\ RxSize > 1 /\ LogDepth \in Nat /\ LogDepth > 2
  BY MainLoopAssumption
<1>2. Backlog = 0 /\ owed * FrameSize = 0
  BY <1>1, OneMore DEF Init, Backlog
<1>3. TypeOK
  <2>1. /\ left \in 0 .. FrameSize /\ owed \in 0 .. Outstanding /\ rx \in 0 .. RxSize - 1
        /\ got \in 0 .. FrameSize - 1 /\ lines \in 0 .. LogDepth - 1
    BY <1>1 DEF Init
  <2>2. lost \in BOOLEAN /\ pc \in {"RECEIVES", "ANSWERS", "FLUSHES", "ASLEEP"}
    BY DEF Init
  <2> QED
    BY <2>1, <2>2 DEF TypeOK
<1>4. Backlog <= owed * FrameSize
  BY <1>2
<1> QED
  BY <1>3, <1>4 DEF Init, IInv, SleepsWithLogWritten

LEMMA LogKeepsType ==
  ASSUME lines \in 0 .. LogDepth - 1, NEW n \in Nat, Log(n)
  PROVE  lines' \in 0 .. LogDepth - 1
  BY MainLoopAssumption DEF Log

LEMMA StepIInv == IInv /\ [Next]_vars => IInv'
<1> SUFFICES ASSUME IInv, [Next]_vars PROVE IInv'
  OBVIOUS
<1>1. /\ FrameSize \in Nat /\ FrameSize > 0 /\ Outstanding \in Nat
      /\ RxSize \in Nat /\ RxSize > 1 /\ LogDepth \in Nat /\ LogDepth > 1
  BY MainLoopAssumption
<1>2. /\ left \in Nat /\ left <= FrameSize /\ owed \in Nat /\ owed <= Outstanding
      /\ rx \in Nat /\ rx <= RxSize - 1 /\ lost \in BOOLEAN
      /\ got \in Nat /\ got <= FrameSize - 1 /\ lines \in 0 .. LogDepth - 1
      /\ pc \in {"RECEIVES", "ANSWERS", "FLUSHES", "ASLEEP"}
  BY <1>1 DEF IInv, TypeOK
<1>3. /\ (owed + 1) * FrameSize = owed * FrameSize + FrameSize
      /\ (owed - 1) * FrameSize = owed * FrameSize - FrameSize
      /\ owed * FrameSize \in Nat /\ (owed = 0 => owed * FrameSize = 0)
  BY <1>1, <1>2, OneMore
<1>4. /\ Backlog <= owed * FrameSize /\ (pc = "ANSWERS" => got = 0)
      /\ (pc = "ASLEEP" => lines = 0)
  BY DEF IInv, SleepsWithLogWritten
<1>5. CASE HostSends
  BY <1>1, <1>2, <1>3, <1>4, <1>5 DEF HostSends,
         IInv, TypeOK, Backlog, SleepsWithLogWritten
<1>6. CASE uart_irq_handler
  <2>1. left > 0 /\ left' = left - 1
    BY <1>2, <1>6 DEF uart_irq_handler
  <2>2. rx' \in Nat /\ rx' <= RxSize - 1 /\ rx' <= rx + 1
    <3>1. CASE rx < RxSize - 1
      BY <1>1, <1>2, <1>6, <3>1 DEF uart_irq_handler
    <3>2. CASE ~ (rx < RxSize - 1)
      BY <1>1, <1>2, <1>6, <3>2 DEF uart_irq_handler
    <3> QED
      BY <3>1, <3>2
  <2>3. lost' \in BOOLEAN
    BY <1>2, <1>6 DEF uart_irq_handler
  <2>4. /\ UNCHANGED <<owed, got, lines>> /\ pc' \in {"RECEIVES", "ANSWERS", "FLUSHES", "ASLEEP"}
        /\ (pc' = "ANSWERS" <=> pc = "ANSWERS") /\ pc' # "ASLEEP"
    BY <1>2, <1>6 DEF uart_irq_handler, Awake
  <2>5. TypeOK'
    BY <1>1, <1>2, <2>1, <2>2, <2>3, <2>4 DEF TypeOK
  <2>6. Backlog' <= owed' * FrameSize
    <3> DEFINE answering == IF pc = "ANSWERS" THEN FrameSize ELSE 0
    <3>1. Backlog' = left' + rx' + got + answering /\ answering \in Nat
      BY <1>1, <2>4 DEF Backlog
    <3>2. /\ left \in Int /\ rx \in Int /\ got \in Int
          /\ left' \in Int /\ left' = left - 1
          /\ rx' \in Int /\ rx' <= rx + 1
      BY <1>2, <2>1, <2>2
    <3>3. owed' * FrameSize = owed * FrameSize
      BY <2>4
    <3> HIDE DEF answering
    <3>4. left + rx + got + answering <= owed * FrameSize
      BY <1>4 DEF answering, Backlog
    <3> QED
      BY <1>3, <3>1, <3>2, <3>3, <3>4
  <2> QED
    BY <1>4, <2>4, <2>5, <2>6 DEF IInv, SleepsWithLogWritten
<1>7. CASE SysTick_Handler
  BY <1>1, <1>2, <1>3, <1>4, <1>7 DEF SysTick_Handler, Awake,
         IInv, TypeOK, Backlog, SleepsWithLogWritten
<1>8. CASE Receive
  <2>1. lines' \in 0 .. LogDepth - 1
    BY <1>2, <1>8, LogKeepsType DEF Receive
  <2> QED
    BY <1>1, <1>2, <1>3, <1>4, <1>8, <2>1 DEF Receive, FrameDone, Log,
         IInv, TypeOK, Backlog, SleepsWithLogWritten
<1>9. CASE Answer
  <2>1. lines' \in 0 .. LogDepth - 1
    BY <1>2, <1>9, LogKeepsType DEF Answer
  <2>2. owed > 0
    BY <1>1, <1>2, <1>3, <1>4, <1>9 DEF Answer, Backlog
  <2> QED
    BY <1>1, <1>2, <1>3, <1>4, <1>9, <2>1, <2>2 DEF Answer,
           IInv, TypeOK, Backlog, SleepsWithLogWritten
<1>10. CASE Drained
  BY <1>1, <1>2, <1>3, <1>4, <1>10 DEF Drained,
         IInv, TypeOK, Backlog, SleepsWithLogWritten
<1>11. CASE FlushLine
  BY <1>1, <1>2, <1>3, <1>4, <1>11 DEF FlushLine,
         IInv, TypeOK, Backlog, SleepsWithLogWritten
<1>12. CASE Sleep
  BY <1>1, <1>2, <1>3, <1>4, <1>12 DEF Sleep, QueueFlushed,
         IInv, TypeOK, Backlog, SleepsWithLogWritten
<1>13. CASE UNCHANGED vars
  BY <1>1, <1>2, <1>3, <1>4, <1>13 DEF vars,
         IInv, TypeOK, Backlog, SleepsWithLogWritten
<1> QED
  BY <1>5, <1>6, <1>7, <1>8, <1>9, <1>10, <1>11, <1>12, <1>13 DEF Next, Loop

LEMMA Invariance == Spec => []IInv
  BY InitIInv, StepIInv, PTL DEF Spec

(* Queues, log and parser stay within their bounds, and no answer is given *)
(* that is not owed.                                                       *)
THEOREM LoopTypeCorrect == Spec => []TypeOK
<1>1. IInv => TypeOK
  BY DEF IInv
<1> QED
  BY <1>1, Invariance, PTL

(* The processor sleeps only with the log out.                             *)
THEOREM AlwaysSleepsWithLogWritten == Spec => []SleepsWithLogWritten
<1>1. IInv => SleepsWithLogWritten
  BY DEF IInv
<1> QED
  BY <1>1, Invariance, PTL

(* A receive queue with room for Outstanding commands loses nothing, though *)
(* the loop may be busy with the log for as long as it likes.              *)
THEOREM NothingEverLost ==
  ASSUME Outstanding * FrameSize < RxSize
  PROVE  Spec => []NothingLost
<1>1. Init => NothingLost
  BY DEF Init, NothingLost
<1>2. IInv /\ NothingLost /\ [Next]_vars => NothingLost'
  <2> SUFFICES ASSUME IInv, NothingLost, [Next]_vars PROVE NothingLost'
    OBVIOUS
  <2>1. /\ FrameSize \in Nat /\ Outstanding \in Nat /\ RxSize \in Nat
        /\ left \in Nat /\ owed \in Nat /\ owed <= Outstanding /\ rx \in Nat /\ got \in Nat
    BY MainLoopAssumption DEF IInv, TypeOK
  <2>2. owed * FrameSize <= Outstanding * FrameSize
    BY <2>1, AtMost
  <2>3. CASE uart_irq_handler
    <3>1. left + rx <= owed * FrameSize
      BY <2>1, OneMore DEF IInv, Backlog
    <3>2. rx < RxSize - 1
      BY <2>1, <2>2, <2>3, <3>1, OneMore, Outstanding * FrameSize < RxSize DEF uart_irq_handler
    <3> QED
      BY <2>3, <3>2 DEF uart_irq_handler, NothingLost
  <2> QED
    BY <2>3 DEF Next, Loop, HostSends, SysTick_Handler, Receive, Answer, Drained, FlushLine,
                Sleep, vars, NothingLost
<1>3. Init /\ []IInv /\ [][Next]_vars => []NothingLost
  BY <1>1, <1>2, PTL
<1> QED
  BY <1>3, Invariance, PTL DEF Spec
=============================================================================
