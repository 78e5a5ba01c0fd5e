------------------------------ MODULE MCJoypad ------------------------------
(* Instances of Joypad for TLC.                                             *)
EXTENDS Joypad

\* Buttons of both pads that share port 1, and one of port 2.
MCFingers == {<<1, "Up">>, <<1, "B">>, <<2, "Up">>, <<2, "Right">>}
=============================================================================
