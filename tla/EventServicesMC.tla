--------------------------- MODULE EventServicesMC ---------------------------
(* A small instance of EventServices for TLC.                               *)
EXTENDS EventServices, TLC

CONSTANTS t1, t2, a1

(* Two tasks of one application.                                           *)
BothOne == t1 :> a1 @@ t2 :> a1

(* The tasks of one application are alike.                                 *)
Symmetry == Permutations({t1, t2})
=============================================================================
