----------------------------- MODULE MCDiskPath -----------------------------
(* Instances of DiskPath for TLC: tracks of two records, bytes of two bits. *)
EXTENDS DiskPath

\* The instance satisfies the hypothesis of the proofs that are about the card.
ASSUME FitAssumption == TracksFit
=============================================================================
