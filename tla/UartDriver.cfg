\* Four UARTs, two of them on one pair of pins; a wait is polled twice.
SPECIFICATION Spec
CONSTANTS
  Port <- UartPort
  Line <- UartLine
  Pin <- UartPin
  Reserved = {}
  BootAf = {}
  Uart = {"USART1", "USART2", "LPUART1", "USART3"}
  UartPins <- UartPairs
  RxSize = 2
  ReadyTimeout = 2
INVARIANTS InitialisedIsWired HandlerHasRing PinsNotShared OneLinkHeld
\* UARTs whose initialisation failed can be all there are.
CHECK_DEADLOCK FALSE
