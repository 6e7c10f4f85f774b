----------------------------- MODULE MCPipeline -----------------------------
(* Instances of CollectionPipeline for TLC. *)
EXTENDS CollectionPipeline, MCCatalogue

SlotSymmetry == Permutations(Slots)
=============================================================================
