----------------------------- MODULE MCActivity -----------------------------
(* The pipeline with what it reports, for TLC. *)
EXTENDS Dashboard, MCCatalogue

SlotSymmetry == Permutations(Slots)
=============================================================================
