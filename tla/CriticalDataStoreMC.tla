------------------------- MODULE CriticalDataStoreMC -------------------------
(***************************************************************************)
(* CriticalDataStore for TLC.                                              *)
(***************************************************************************)
EXTENDS CriticalDataStoreInv, TLC

\* Stores, and the data apps copy, are interchangeable.
Perms == Permutations(Names) \cup Permutations(Vals)
=============================================================================
