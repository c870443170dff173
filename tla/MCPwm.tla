-------------------------------- MODULE MCPwm --------------------------------
(* Instances of PwmController for TLC. *)
EXTENDS PwmController

At(port, pin) == [port |-> port, pin |-> pin]

MCPort == {"A", "B"}
MCLine == {2, 5, 6}

(* Each group has its channels on two ports; PB5 has none.                 *)
MCInstance == {0, 2}
MCChannel == {1, 2}

MCPinOf ==
  [x \in MCInstance \X MCChannel |->
     CASE x = <<0, 1>> -> At("A", 5)
       [] x = <<0, 2>> -> At("B", 2)
       [] x = <<2, 1>> -> At("B", 6)
       [] x = <<2, 2>> -> At("A", 6)]

TwoGroupPin == {At("A", 5), At("B", 2), At("B", 6), At("A", 6), At("B", 5)}
=============================================================================
