--------------------------- MODULE TableRegistryMC ---------------------------
(***************************************************************************)
(* TableRegistry for TLC: two apps with a critical table each, one double  *)
(* and one single buffered.                                                *)
(***************************************************************************)
EXTENDS TableRegistryInv, TLC

CONSTANTS a1, a2, n1, n2

MCOwner == (n1 :> a1) @@ (n2 :> a2)
MCKinds == (n1 :> {[double |-> TRUE, critical |-> TRUE]}) @@
           (n2 :> {[double |-> FALSE, critical |-> TRUE]})

\* Entries and contents are interchangeable, apps and their tables are not.
Perms == Permutations(Records) \cup Permutations(Descriptors) \cup Permutations(Images)
=============================================================================
