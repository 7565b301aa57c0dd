----------------------------- MODULE MCDatapath -----------------------------
(* A .cfg has no negative numbers. *)
EXTENDS Datapath

Extremes == {-128, 127}
ExtremeActs == {-128}
ThreeBytes == {-128, 0, 127}
=============================================================================
