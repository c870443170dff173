------------------------------ MODULE MCPreempt ------------------------------
(* Instances of GpioPreempt for TLC: two inputs on one line, two outputs   *)
(* on one port, one of them PA0.                                           *)
EXTENDS GpioPreempt

At(port, pin) == [port |-> port, pin |-> pin]
MCPort == {"A", "B"}
MCLine == {0, 1, 2}
MCInput == {At("A", 1), At("B", 1)}
MCOutput == {At("A", 0), At("A", 2)}
MCPin == MCInput \cup MCOutput
MCZeroPin == At("A", 0)
=============================================================================
