------------------------------- MODULE MCGpio -------------------------------
(* Instances of GpioController for TLC. *)
EXTENDS GpioController

At(port, pin) == [port |-> port, pin |-> pin]

MCPort == {"A", "B"}

(* Two ports contend for line 5; line 6 shares its vector.  PA5 and PB5    *)
(* are inputs or outputs, PA6 likewise.                                    *)
SharedLine == {5, 6}
SharedPin == {At("A", 5), At("B", 5), At("A", 6)}
=============================================================================
