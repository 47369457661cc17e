---------------------------- MODULE MCResearchRun ----------------------------
(* Small instances of ResearchRun for TLC.                                 *)
EXTENDS ResearchRun, TLC

\* Nothing tells apart two runs that research, or two that review.
Symmetry == Permutations(Runs \ Reviewers) \cup Permutations(Reviewers)
            \cup Permutations(Codes)
=============================================================================
