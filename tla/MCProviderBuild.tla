--------------------------- MODULE MCProviderBuild ---------------------------
(* Small instances of ProviderBuild for TLC.                               *)
EXTENDS ProviderBuild, TLC

Symmetry == Permutations(Runs) \cup Permutations(Builds)
=============================================================================
