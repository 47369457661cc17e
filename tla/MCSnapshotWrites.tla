--------------------------- MODULE MCSnapshotWrites ---------------------------
(* Small instances of SnapshotWrites for TLC.                              *)
EXTENDS SnapshotWrites

CONSTANTS v1, v2, d1, d2, d3

\* Two routes publish two dates, one task after the other.
Routed == [tasks |-> {v1, v2} \X {d1, d2}, scoped |-> TRUE, serial |-> TRUE]

\* Two routes publish one date at once, or two dates.
Overlapping == [tasks |-> {v1, v2} \X {d1}, scoped |-> TRUE, serial |-> FALSE]
Crossing == [tasks |-> {<<v1, d1>>, <<v2, d2>>}, scoped |-> TRUE, serial |-> FALSE]

\* A dataset without a scope, over three dates.
Whole == [tasks |-> {v1} \X {d1, d2, d3}, scoped |-> FALSE, serial |-> TRUE]

MCScopes == {v1, v2}
MCDates == {d1, d2, d3}
AllPlans == {Routed, Overlapping, Crossing, Whole}
OnlyRouted == {Routed}
=============================================================================
