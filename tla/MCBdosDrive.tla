---------------------------- MODULE MCBdosDrive ----------------------------
(* Disks for BdosDrive: empty, with a file, and with another.               *)
EXTENDS BdosDrive

Other(b) == [live |-> TRUE, own |-> FALSE, blk |-> b]
With(i, b) == [Blank EXCEPT ![i] = Other(b)]
MCDisks == {Blank, With(0, 1), With(NumDir - 1, 1)}

\* TakeFreeCorrect has this as a hypothesis.
ASSUME DisksUndamaged == Undamaged
=============================================================================
