----------------------- MODULE MCAssignmentPublication -----------------------
(* Small instances of AssignmentPublication for TLC.                       *)
EXTENDS AssignmentPublication, TLC

CONSTANTS today, yesterday, late, first, second

\* Two builds of one date and one of the date before.
MCRuns == {late, first, second}
MCDateOf == (late :> yesterday) @@ (first :> today) @@ (second :> today)
=============================================================================
