---------------------------- MODULE SoftwareBusMC ----------------------------
(* Small instances of SoftwareBus for TLC.                                 *)
EXTENDS SoftwareBusInv, TLC

CONSTANTS t1, t2, t3, a1, a2, b1, b2, m1

(* Two tasks of two applications, and a third task.                        *)
OneAppEach == t1 :> a1 @@ t2 :> a2
TwoAndOne  == t1 :> a1 @@ t2 :> a2 @@ t3 :> a2

BufSymmetry == Permutations(Bufs)

(* With OneAppEach the two tasks may change places, with their apps.       *)
Stay  == t1 :> t1 @@ t2 :> t2 @@ a1 :> a1 @@ a2 :> a2
Trade == t1 :> t2 @@ t2 :> t1 @@ a1 :> a2 @@ a2 :> a1
PairSymmetry == {b @@ p : b \in BufSymmetry, p \in {Stay, Trade}}
=============================================================================
