--------------------------- MODULE MCResearchClaim ---------------------------
(* Small instances of ResearchClaim for TLC.                               *)
EXTENDS ResearchClaim, TLC

\* Nothing tells apart two runs, two values of code_sha or two references.
Symmetry == Permutations(Runs) \cup Permutations(Codes) \cup Permutations(RefVals)
=============================================================================
