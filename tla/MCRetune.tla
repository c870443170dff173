------------------------------ MODULE MCRetune ------------------------------
(* Instances of TimerRetune for TLC: one timer with two channels. *)
EXTENDS TimerRetune

MCPort == {"A"}
MCLine == {5, 6}
MCPin == [port : MCPort, pin : MCLine]
MCInstance == {0}
MCChannel == {1, 2}
MCPinOf == [x \in MCInstance \X MCChannel |-> [port |-> "A", pin |-> 4 + x[2]]]
=============================================================================
