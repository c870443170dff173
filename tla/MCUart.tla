------------------------------- MODULE MCUart -------------------------------
(* Instances of UartDriver for TLC: USART1 and USART3 on pins of their     *)
(* own, USART2 and LPUART1 on the same pair.                               *)
EXTENDS UartDriver

UartPort == {"A", "B"}
UartLine == {2, 3, 9, 10, 11}
A(n) == [port |-> "A", pin |-> n]
B(n) == [port |-> "B", pin |-> n]
UartPairs ==
  [u \in Uart |-> CASE u = "USART1" -> [tx |-> A(9), rx |-> A(10)]
                    [] u = "USART3" -> [tx |-> B(10), rx |-> B(11)]
                    [] OTHER -> [tx |-> A(2), rx |-> A(3)]]
UartPin == UNION {{UartPairs[u].tx, UartPairs[u].rx} : u \in Uart}
=============================================================================
