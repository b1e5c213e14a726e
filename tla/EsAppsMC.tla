------------------------------ MODULE EsAppsMC ------------------------------
(* Symmetry for the model-checking runs of EsApps: names without a library, *)
(* and loaders, are interchangeable.                                        *)
EXTENDS EsApps, TLC

Perms == Permutations(Names \ LibNames) \cup Permutations(Loaders)

=============================================================================
