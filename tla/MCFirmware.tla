----------------------------- MODULE MCFirmware -----------------------------
(* An instance of Firmware for TLC: a timer with one channel, whose pin    *)
(* GPIO can use too, a pin that is GPIO's alone and a pin of the debug     *)
(* port.  Each line has a vector of its own.                               *)
EXTENDS Firmware

At(port, pin) == [port |-> port, pin |-> pin]
MCPort == {"A", "B"}
MCLine == {0, 2, 3}
MCPin == {At("A", 0), At("B", 2), At("B", 3)}
MCReserved == {At("B", 3)}
MCInstance == {0}
MCChannel == {1}
MCPinOf == [x \in MCInstance \X MCChannel |-> At("A", 0)]
=============================================================================
