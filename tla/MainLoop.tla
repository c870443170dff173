------------------------------ MODULE MainLoop ------------------------------
(***************************************************************************)
(* The loop of src/main.c against its interrupts: drain the receive queue, *)
(* answer each frame, flush the log (src/logger.c), sleep in WFI.  The     *)
(* loop masks no interrupt, so a byte may come between the last look at    *)
(* the queue and the sleep; only the next interrupt ends that.             *)
(***************************************************************************)
EXTENDS Naturals

CONSTANTS FrameSize,    \* bytes in a command
          RxSize,       \* of the receive ring, one slot of it unused
          LogDepth,     \* of the log ring, one slot of it unused
          Outstanding   \* commands a host sends without awaiting an answer

ASSUME MainLoopAssumption ==
  /\ {FrameSize, Outstanding} \subseteq Nat \ {0}
  /\ RxSize \in Nat \ {0, 1} /\ LogDepth \in Nat \ {0, 1, 2}

VARIABLES left,    \* bytes of the command on the wire still to come
          owed,    \* commands begun and not yet answered
          rx,      \* bytes in the receive queue
          lost,    \* the queue was full when a byte came
          got,     \* bytes the parser has of the next frame
          lines,   \* entries in the log queue
          pc       \* where the loop is

vars == <<left, owed, rx, lost, got, lines, pc>>

TypeOK ==
  /\ left \in 0 .. FrameSize /\ owed \in 0 .. Outstanding
  /\ rx \in 0 .. RxSize - 1 /\ lost \in BOOLEAN
  /\ got \in 0 .. FrameSize - 1 /\ lines \in 0 .. LogDepth - 1
  /\ pc \in {"RECEIVES", "ANSWERS", "FLUSHES", "ASLEEP"}

(* main has logged two lines when it enters the loop.                      *)
Init ==
  /\ left = 0 /\ owed = 0 /\ rx = 0 /\ lost = FALSE /\ got = 0
  /\ lines = 2 /\ pc = "RECEIVES"

Awake == IF pc = "ASLEEP" THEN "RECEIVES" ELSE pc

(* logger_log drops the newest entry when the queue is full.               *)
Log(n) == lines' = IF lines + n < LogDepth THEN lines + n ELSE LogDepth - 1

HostSends ==
  /\ left = 0 /\ owed < Outstanding
  /\ left' = FrameSize /\ owed' = owed + 1
  /\ UNCHANGED <<rx, lost, got, lines, pc>>

(* The receive interrupt drops the newest byte when the queue is full.     *)
(* (Its branch for an overrun of the receive register only clears the      *)
(* flag, and is left out: here the handler takes every byte in time.)      *)
uart_irq_handler ==
  /\ left > 0
  /\ left' = left - 1
  /\ IF rx < RxSize - 1 THEN rx' = rx + 1 /\ UNCHANGED lost
                        ELSE lost' = TRUE /\ UNCHANGED rx
  /\ pc' = Awake
  /\ UNCHANGED <<owed, got, lines>>

TickAsleep == UNCHANGED vars
SysTick_Handler == pc' = Awake /\ UNCHANGED <<left, owed, rx, lost, got, lines>>

FrameDoneEarly == got + 1 >= FrameSize - 1
FrameDone == got + 1 = FrameSize

(* One byte to the parser.  A whole frame is logged before its dispatch.   *)
Receive ==
  /\ pc = "RECEIVES" /\ rx > 0
  /\ rx' = rx - 1
  /\ IF FrameDone THEN got' = 0 /\ pc' = "ANSWERS" /\ Log(1)
                  ELSE got' = got + 1 /\ UNCHANGED <<pc, lines>>
  /\ UNCHANGED <<left, owed, lost>>

(* Dispatch and answer: the controller, the dispatcher and main each log   *)
(* what they please on the way.                                            *)
Answer ==
  /\ pc = "ANSWERS"
  /\ owed' = owed - 1
  /\ \E n \in 0 .. LogDepth - 1 : Log(n)
  /\ pc' = "RECEIVES"
  /\ UNCHANGED <<left, rx, lost, got>>

Drained ==
  /\ pc = "RECEIVES" /\ rx = 0
  /\ pc' = "FLUSHES"
  /\ UNCHANGED <<left, owed, rx, lost, got, lines>>

(* logger_flush: a line takes the time of many bytes of the wire.          *)
FlushLine ==
  /\ pc = "FLUSHES" /\ lines > 0
  /\ lines' = lines - 1
  /\ UNCHANGED <<left, owed, rx, lost, got, pc>>

QueueFlushedOnce == TRUE
QueueFlushed == lines = 0

Sleep ==
  /\ pc = "FLUSHES" /\ QueueFlushed
  /\ pc' = "ASLEEP"
  /\ UNCHANGED <<left, owed, rx, lost, got, lines>>

Loop == Receive \/ Answer \/ Drained \/ FlushLine \/ Sleep

Next == HostSends \/ uart_irq_handler \/ SysTick_Handler \/ Loop

(* The wire moves, the tick comes, the loop runs; and it is faster than    *)
(* the wire, so that it finds the queue empty if it can again and again.   *)
Spec == Init /\ [][Next]_vars /\ WF_vars(uart_irq_handler) /\ WF_vars(SysTick_Handler)
             /\ WF_vars(Loop) /\ SF_vars(Drained)
-----------------------------------------------------------------------------
(* A host with at most Outstanding commands unanswered loses no byte, how- *)
(* ever long the log takes to write.                                       *)
NothingLost == ~ lost

(* The log is out before the processor sleeps.                             *)
SleepsWithLogWritten == pc = "ASLEEP" => lines = 0

(* A host that has sent all it may is answered, though the last byte of    *)
(* the command came after the loop looked and before it slept.             *)
HostIsAnswered == (owed = Outstanding) ~> (owed < Outstanding)

(* A logged line is written, however fast a host sends that awaits each    *)
(* answer.  (One that does not can keep the loop from ever flushing.)      *)
LogIsWritten == [](owed <= 1) => ((lines > 0) ~> (lines = 0))
=============================================================================
