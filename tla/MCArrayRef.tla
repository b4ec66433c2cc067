------------------------------ MODULE MCArrayRef ------------------------------
(* Instances of ArrayRef for TLC. *)
EXTENDS ArrayRef

\* Every index of an array of three, from either end, and one too far on each
\* side.
MCIndices == -4..4
=============================================================================
