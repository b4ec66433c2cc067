----------------------------- MODULE MCGenQuery1 -----------------------------
(* Instances of GenQuery1 for TLC. *)
EXTENDS GenQuery1, TLC

Symmetry == Permutations(Queries)
=============================================================================
