----------------------------- MODULE MCCellHost -----------------------------
(* Symmetry for the safety runs of CellHost. *)
EXTENDS CellHostContract, TLC

Symmetry == Permutations(Requests)
=============================================================================
