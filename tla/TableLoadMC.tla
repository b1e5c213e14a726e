----------------------------- MODULE TableLoadMC -----------------------------
(* Small instances of TableLoad for TLC.                                   *)
EXTENDS TableLoadInv, TLC

CONSTANTS owner, sharer, t1, t2, t3, good, fine, bad

(* One application owns every table; the other one shares them.            *)
OneOwner == [t \in Tables |-> owner]
FirstShared == [t \in Tables |-> IF t = t1 THEN {sharer} ELSE {}]

(* The images that the validation function accepts are alike.              *)
Symmetry == Permutations(Good)
=============================================================================
