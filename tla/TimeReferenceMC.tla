--------------------------- MODULE TimeReferenceMC ---------------------------
(* A small instance of TimeReference for TLC.                              *)
EXTENDS TimeReference, TLC

CONSTANTS r1, r2

Symmetry == Permutations(Readers)
=============================================================================
